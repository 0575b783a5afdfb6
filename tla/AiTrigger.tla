------------------------------- MODULE AiTrigger -------------------------------
(***************************************************************************)
(* One approved lead is called by the AI at most once per decision to call *)
(* (outreach-api ai-calls/pace.ts, key-resolution.ts, touches.ts, stage.ts,*)
(* campaigns/dnc-hold.ts, call-plans/release.ts; cti-api ai-voice/         *)
(* routes-internal.ts, request-store.ts, service.ts).  The pacer claims a  *)
(* touch and asks cti-api for the call under an idempotency key; cti-api   *)
(* reserves the key before it dials; whoever would drop a key first asks   *)
(* the request store what became of it.  One step is one statement, one    *)
(* transaction or one request; settleKeptKey, which reads the same rows    *)
(* twice at most, is one step.                                             *)
(*                                                                         *)
(* Times are taken from the code: a request reserves its key within the 20 *)
(* seconds of TRIGGER_TIMEOUT_MS after it is sent, a handler ends within   *)
(* the 10 minutes of STALE_REQUEST_MS, a tick within STALE_DIALING_MS, and *)
(* no key of the lead is reserved within the 5 seconds of FIND_SLACK_MS    *)
(* after the row of an earlier key was inserted.                           *)
(***************************************************************************)
EXTENDS Naturals, Sequences, FiniteSets

CONSTANTS
  Pacers,      \* ai_call.place ticks
  Handlers,    \* requests cti-api may have in progress
  Touches,     \* touches rows of the lead
  MaxAttempts, \* MAX_TRIGGER_ATTEMPTS
  MaxKeys,     \* bound: keys minted
  MaxChanges,  \* bound: decisions of people
  May,         \* bound: the refusals of cti-api, and "park", "research", "stop" and "exit"
  Faults, MaxFaults

\* What the constants are; an instance assumes it.
TriggerAssumption ==
  /\ Touches # {} /\ Handlers # {} /\ MaxAttempts \in Nat /\ MaxKeys \in Nat /\ MaxChanges \in Nat /\ MaxFaults \in Nat

VARIABLES
  touch,      \* touches
  lead,       \* campaign_enrollments, and whether its plan is approved
  keys,       \* idempotency keys in the order minted: the touch of each
  request,    \* ai_call_requests
  calls,      \* ai_calls, in the order inserted
  pc, mem,    \* per pacer
  hpc, hmem,  \* per handler
  overtaken,  \* keys dropped 20 seconds after the claimed_at of a tick's clock, their
              \* request still on its way
  changes, faults

vars == <<touch, lead, keys, request, calls, pc, mem, hpc, hmem, overtaken, changes, faults>>
pacer == <<pc, mem>>
handler == <<hpc, hmem>>
store == <<request, calls>>
board == <<touch, lead, keys, overtaken>>

KeyIds == 1 .. MaxKeys
TouchStatus == {"none", "planned", "dialing", "sent", "failed", "skipped"}
\* What an answer tells: the reasons decideTrigger tells apart.
Refusals == {"system", "later", "final"}
Stored == Refusals \cup {"placed"}
Answers == Stored \cup {"transport", "in_flight", "conflict", "park"}
PacerSteps == {"idle", "settle", "gate", "claim", "refused", "send", "wait", "resolve", "apply", "finish"}
\* Steps at which a handler has the reservation of its key.
Owning == {"find", "check", "insert", "link", "place", "record", "failRow", "complete"}
HandlerSteps == {"idle", "arrive", "takeOver"} \cup Owning

NoTouch == [st |-> "none", plan |-> 0, key |-> 0, tries |-> 0, due |-> FALSE, young |-> FALSE, call |-> 0]
Released(plan) == [NoTouch EXCEPT !.st = "planned", !.plan = plan, !.due = TRUE]
Row(k, why) == [key |-> k, why |-> why, live |-> why = "none", rings |-> 0, sid |-> FALSE, failed |-> FALSE, errored |-> FALSE]
NoRequest == [st |-> "none", old |-> FALSE, since |-> 0, call |-> 0, answer |-> "system"]
AnyTouch == CHOOSE t \in Touches : TRUE
AnyHandler == CHOOSE h \in Handlers : TRUE
\* The candidate as listed (key, approved), the request sent, and its answer.
NoMem == [touch |-> AnyTouch, h |-> AnyHandler, key |-> 0, approved |-> TRUE, tries |-> 0, answer |-> "transport", call |-> 0]
NoTrigger == [key |-> 0, answer |-> "system", call |-> 0]

Init ==
  /\ touch = [t \in Touches |-> IF t = AnyTouch THEN Released(1) ELSE NoTouch]
  /\ lead = [st |-> "active", stage |-> "queued", plan |-> 1]
  /\ keys = <<>> /\ calls = <<>>
  /\ request = [k \in KeyIds |-> NoRequest]
  /\ pc = [p \in Pacers |-> "idle"] /\ mem = [p \in Pacers |-> NoMem]
  /\ hpc = [h \in Handlers |-> "idle"] /\ hmem = [h \in Handlers |-> NoTrigger]
  /\ overtaken = {} /\ changes = 0 /\ faults = 0

Fault(f) == f \in Faults /\ faults < MaxFaults /\ faults' = faults + 1
Goto(p, step, m) == pc' = [pc EXCEPT ![p] = step] /\ mem' = [mem EXCEPT ![p] = m]
Go(h, step, m) == hpc' = [hpc EXCEPT ![h] = step] /\ hmem' = [hmem EXCEPT ![h] = m]
T(p) == touch[mem[p].touch]
Set(t, new) == touch' = [touch EXCEPT ![t] = new]
Called(stage) == lead.st = "active" /\ lead.stage = stage
PlanApproved(t) == lead.stage \in {"approved", "queued"} /\ touch[t].plan = lead.plan

\* A request under this key that has not reserved it or taken it over yet, and a touch skipped or
\* failed meanwhile whose claim looks 20 seconds old.
OnItsWay(k) == \E h \in Handlers : hpc[h] \in {"arrive", "takeOver"} /\ hmem[h].key = k
Dropped(Ts) == overtaken' = overtaken \cup {touch[t].key : t \in {u \in Ts : ~touch[u].young /\ OnItsWay(touch[u].key)}}

-----------------------------------------------------------------------------
(* What became of a key.                                                   *)

\* mutant: the search is not bounded by the date of the reservation
CallsEver(k) == DOMAIN calls
\* findCallSince: the newest call of the record since the reservation.  The code
\* looks 5 seconds further back, for clocks that disagree on the order of a
\* reservation and its own call; a call of another key is never that close.
CallsSince(k) == {i \in DOMAIN calls : i > request[k].since}
Found(k) == IF CallsSince(k) = {} THEN 0 ELSE CHOOSE i \in CallsSince(k) : \A j \in CallsSince(k) : j <= i
\* rebuilt: a call counts as placed unless it was blocked, or failed with no call id.
Rebuilt(i) ==
  CASE calls[i].why # "none" -> calls[i].why
    [] calls[i].failed /\ ~calls[i].sid -> "later"
    [] OTHER -> "placed"
\* resolveKey: the answer under a key, and the call it names.
Resolved(k) ==
  CASE request[k].st = "answered" -> request[k].answer
    [] request[k].st = "open" /\ ~request[k].old -> "in_flight"
    [] request[k].st = "open" /\ request[k].old /\ Found(k) # 0 -> Rebuilt(Found(k))
    [] OTHER -> "conflict"
ResolvedCall(k) == IF request[k].st = "answered" THEN request[k].call ELSE Found(k)
\* mutant: a key with no row is free at once, as if its request had never left
PendingReservedOnly(t) == touch[t].key # 0 /\ Resolved(touch[t].key) = "in_flight"
\* settleKeptKey: with no answer and no call, a key is free only 20 seconds
\* after its claim.
Pending(t) ==
  LET answer == Resolved(touch[t].key) IN
  touch[t].key # 0 /\ (answer = "in_flight" \/ (answer = "conflict" /\ touch[t].young))
Placed(t) == touch[t].key # 0 /\ Resolved(touch[t].key) = "placed"
Free(t) == ~Pending(t) /\ ~Placed(t)

\* mutant: the call is not written on the touch it was placed for
SentUnlinked(t, i) == [touch[t] EXCEPT !.st = "sent", !.key = 0, !.young = FALSE]
\* linkPlacedTouch: the touch is sent with the call, and a lead approved again
\* is queued, as a release would.
Sent(t, i) == [touch[t] EXCEPT !.st = "sent", !.key = 0, !.young = FALSE, !.call = i]
LinkPlaced(t) ==
  /\ Set(t, Sent(t, ResolvedCall(touch[t].key)))
  /\ lead' = IF Called("approved") /\ PlanApproved(t) THEN [lead EXCEPT !.stage = "queued"] ELSE lead
  /\ UNCHANGED overtaken
Later(t) == Set(t, [touch[t] EXCEPT !.due = FALSE]) /\ UNCHANGED <<lead, overtaken>>
Skipped(t) == [touch[t] EXCEPT !.st = "skipped", !.young = FALSE]
\* skipUnlessKeyPlaced: a planned touch is skipped, sent, or left to wait.
SkipUnlessPlaced(t, leadAfter) ==
  \/ Placed(t) /\ LinkPlaced(t)
  \/ Pending(t) /\ Later(t)
  \/ Free(t) /\ Set(t, Skipped(t)) /\ Dropped({t}) /\ lead' = leadAfter

-----------------------------------------------------------------------------
(* The pacer.                                                              *)

NoFault == UNCHANGED <<changes, faults>>

\* orgsWithDueAiCalls, loadOrgTick: a due touch of an active lead, and its plan
\* as it is now.
Pick(p) ==
  /\ pc[p] = "idle"
  /\ \E t \in Touches :
       /\ touch[t].st = "planned" /\ touch[t].due /\ lead.st = "active"
       /\ Goto(p, "settle", [NoMem EXCEPT !.touch = t, !.key = touch[t].key, !.approved = PlanApproved(t)])
  /\ UNCHANGED <<board, handler, store>> /\ NoFault

\* keptKeyFirst.
SettleKey(p) ==
  LET t == mem[p].touch
      kept == mem[p].key # 0 /\ T(p).st = "planned" IN
  /\ pc[p] = "settle"
  /\ \/ kept /\ Placed(t) /\ LinkPlaced(t) /\ Goto(p, "idle", NoMem)
     \/ kept /\ Pending(t) /\ Later(t) /\ Goto(p, "idle", NoMem)
     \/ (kept => Free(t)) /\ Goto(p, "gate", mem[p]) /\ UNCHANGED <<touch, lead, overtaken>>
  /\ UNCHANGED <<keys, handler, store>> /\ NoFault

\* finishAiEnrollment: an active lead ends and what has not started is skipped.
Finished ==
  IF lead.st = "active"
  THEN /\ lead' = [lead EXCEPT !.st = "ended"]
       /\ touch' = [t \in Touches |-> IF touch[t].st = "planned" THEN Skipped(t) ELSE touch[t]]
  ELSE UNCHANGED <<lead, touch>>
\* A queued lead whose plan cannot be used goes back to the board.
ToBoard(plan) == lead' = IF Called("queued") THEN [lead EXCEPT !.stage = "review", !.plan = plan] ELSE lead
\* parkPlan.
Parked(t) ==
  /\ Set(t, IF touch[t].st \in {"planned", "dialing"} THEN [touch[t] EXCEPT !.st = "failed", !.key = 0, !.young = FALSE] ELSE touch[t])
  /\ Dropped({t}) /\ ToBoard(lead.plan)
\* backToResearch, and the new plan its research proposes.
Researched(t) == touch[t].st = "planned" /\ Set(t, Skipped(t)) /\ Dropped({t}) /\ ToBoard(lead.plan + 1)

NotNow(t) ==
  \/ "park" \in May /\ Parked(t)
  \/ "research" \in May /\ Researched(t)
  \/ touch[t].st = "planned" /\ Later(t)
\* placeOne between the kept key and the claim: the lead is held, Salesforce or the
\* plan says no or not now, or it goes on.
Gate(p) ==
  LET t == mem[p].touch
      planned == T(p).st = "planned" IN
  /\ pc[p] = "gate"
  /\ \/ lead.st = "held" /\ UNCHANGED <<touch, lead, overtaken>> /\ Goto(p, "idle", NoMem)
     \/ "exit" \in May /\ Finished /\ UNCHANGED overtaken /\ Goto(p, "idle", NoMem)
     \/ ~mem[p].approved /\ planned /\ SkipUnlessPlaced(t, lead) /\ Goto(p, "idle", NoMem)
     \/ mem[p].approved /\ NotNow(t) /\ Goto(p, "idle", NoMem)
     \/ mem[p].approved /\ UNCHANGED <<touch, lead, overtaken>> /\ Goto(p, "claim", mem[p])
     \/ ~mem[p].approved /\ ~planned /\ UNCHANGED <<touch, lead, overtaken>> /\ Goto(p, "idle", NoMem)
  /\ UNCHANGED <<keys, handler, store>> /\ NoFault

\* claimAiTouch: one more attempt, under the key kept or a new one.
Claimable(t) == touch[t].st = "planned" /\ Called("queued") /\ PlanApproved(t)
Claim(p) ==
  LET t == mem[p].touch
      mint == T(p).key = 0
      key == IF mint THEN Len(keys) + 1 ELSE T(p).key IN
  /\ pc[p] = "claim"
  /\ \/ /\ Claimable(t) /\ (mint => Len(keys) < MaxKeys)
        /\ keys' = IF mint THEN Append(keys, t) ELSE keys
        /\ Set(t, [T(p) EXCEPT !.st = "dialing", !.key = key, !.tries = @ + 1, !.young = TRUE])
        /\ Goto(p, "send", [mem[p] EXCEPT !.key = key, !.tries = T(p).tries + 1])
     \/ /\ ~Claimable(t) \/ "stop" \in May  \* the campaign or the seller paused, the lead deselected
        /\ Goto(p, "refused", mem[p]) /\ UNCHANGED <<touch, keys>>
     \/ /\ Claimable(t) /\ mint /\ Len(keys) = MaxKeys  \* bound
        /\ Set(t, [T(p) EXCEPT !.due = FALSE]) /\ keys' = keys /\ Goto(p, "idle", NoMem)
  /\ UNCHANGED <<lead, overtaken, handler, store>> /\ NoFault

\* refused: a touch that can never be claimed, or was refused too often, is skipped
\* unless its key says otherwise, and a lead left with no touch can be released
\* again (planNoLongerApproved, skipNotClaimable); any other waits.
Reopened(t) ==
  IF Called("queued") /\ \A u \in Touches \ {t} : touch[u].st \notin {"planned", "dialing"}
  THEN [lead EXCEPT !.stage = "approved"] ELSE lead
Refused(p) ==
  LET t == mem[p].touch
      planned == T(p).st = "planned" IN
  /\ pc[p] = "refused"
  /\ \/ ~planned /\ UNCHANGED <<touch, lead, overtaken>>
     \/ planned /\ ~PlanApproved(t) /\ SkipUnlessPlaced(t, lead)
     \/ planned /\ PlanApproved(t) /\ SkipUnlessPlaced(t, Reopened(t))
     \/ Claimable(t) /\ Later(t)
  /\ Goto(p, "idle", NoMem)
  /\ UNCHANGED <<keys, handler, store>> /\ NoFault

IdleHandlers == {h \in Handlers : hpc[h] = "idle"}
\* trigger: the request leaves for a handler of cti-api; "lost" before it gets there.
Send(p) ==
  /\ pc[p] = "send"
  /\ \/ /\ IdleHandlers # {}
        /\ LET h == CHOOSE h \in IdleHandlers : TRUE IN  \* they are alike
             /\ Go(h, "arrive", [NoTrigger EXCEPT !.key = mem[p].key])
             /\ Goto(p, "wait", [mem[p] EXCEPT !.h = h])
        /\ faults' = faults
     \/ Fault("lost") /\ Goto(p, "apply", mem[p]) /\ UNCHANGED handler
  /\ UNCHANGED <<board, store, changes>>

\* The connection is reset, or 20 seconds pass: the handler goes on alone.
GiveUp(p) ==
  /\ pc[p] = "wait" /\ Fault("lost") /\ Goto(p, "apply", [mem[p] EXCEPT !.h = AnyHandler])
  /\ UNCHANGED <<board, handler, store, changes>>

\* conflictOutcome: a 409 is looked up before the key is dropped.
Resolve(p) ==
  /\ pc[p] = "resolve"
  /\ Goto(p, "apply", [mem[p] EXCEPT !.answer = Resolved(mem[p].key), !.call = ResolvedCall(mem[p].key)])
  /\ UNCHANGED <<board, handler, store>> /\ NoFault

\* decideTrigger: the answers whose key is kept, and those that give the attempt back.
KeepsKey == {"transport", "in_flight"}
Refunded == {"transport", "system"}
\* settleTouch and parkPlan, on a touch still dialing; the last attempt and a final
\* refusal end the lead in a later transaction.
GaveUp(p) == mem[p].answer \notin Refunded \cup {"placed"} /\ mem[p].tries >= MaxAttempts
Settled(p) ==
  LET m == mem[p]
      key == IF m.answer \in KeepsKey THEN T(p).key ELSE 0
      tries == IF m.answer \in Refunded /\ T(p).tries > 0 THEN T(p).tries - 1 ELSE T(p).tries IN
  CASE m.answer = "placed" -> Sent(m.touch, m.call)
    [] m.answer = "final" \/ GaveUp(p) -> [T(p) EXCEPT !.st = "failed", !.key = 0, !.young = FALSE]
    [] OTHER -> [T(p) EXCEPT !.st = "planned", !.key = key, !.tries = tries, !.due = FALSE]
Apply(p) ==
  LET t == mem[p].touch IN
  /\ pc[p] = "apply"
  /\ IF mem[p].answer = "park" THEN Parked(t) /\ Goto(p, "idle", NoMem)
     ELSE /\ Set(t, IF T(p).st = "dialing" THEN Settled(p) ELSE T(p))
          /\ IF T(p).st = "dialing" /\ Settled(p).key = 0 /\ mem[p].answer # "placed" THEN Dropped({t}) ELSE UNCHANGED overtaken
          /\ IF mem[p].answer = "final" \/ GaveUp(p) THEN Goto(p, "finish", mem[p]) ELSE Goto(p, "idle", NoMem)
          /\ UNCHANGED lead
  /\ UNCHANGED <<keys, handler, store>> /\ NoFault

\* The enrollment exits ai_call_<reason>.
Finish(p) ==
  /\ pc[p] = "finish" /\ Finished /\ Goto(p, "idle", NoMem)
  /\ UNCHANGED <<keys, overtaken, handler, store>> /\ NoFault

\* The process dies between two steps of its tick.
PacerCrash(p) ==
  /\ pc[p] # "idle" /\ Fault("crash") /\ Goto(p, "idle", NoMem)
  /\ UNCHANGED <<board, handler, store, changes>>

\* reapStaleDialing: a touch whose tick died is planned again, keeping its key, or
\* skipped when its lead has ended; it is due ten minutes after its claim.
Reap(p, t) ==
  /\ pc[p] = "idle" /\ touch[t].st = "dialing" /\ ~OnItsWay(touch[t].key)
  /\ \A q \in Pacers : pc[q] # "idle" => mem[q].touch # t
  /\ IF lead.st = "ended" THEN Set(t, Skipped(t))
     ELSE Set(t, [touch[t] EXCEPT !.st = "planned", !.due = FALSE, !.young = FALSE])
  /\ UNCHANGED <<lead, keys, overtaken, pacer, handler, store>> /\ NoFault

-----------------------------------------------------------------------------
(* What people decide.                                                     *)

Decision(A, n) ==
  /\ changes + n <= MaxChanges /\ changes' = changes + n /\ A
  /\ UNCHANGED <<keys, pacer, handler, store, faults>>

\* holdForReview: a do-not-contact flag.  A planned touch is skipped, unless its key
\* placed a call or may still.
HeldTouch(t) ==
  IF touch[t].st # "planned" \/ Pending(t) THEN touch[t]
  ELSE IF Placed(t) THEN Sent(t, ResolvedCall(touch[t].key)) ELSE Skipped(t)
Hold ==
  /\ lead.st = "active" /\ lead' = [lead EXCEPT !.st = "held"]
  /\ touch' = [t \in Touches |-> HeldTouch(t)]
  /\ Dropped({t \in Touches : touch[t].st # "skipped" /\ HeldTouch(t).st = "skipped"})

\* The flag is dismissed (resetCallStageAfterDismiss); the plan edited (editPlan),
\* approved (approvePlan), released (releaseOne); the lead exits.
Dismiss == lead.st = "held" /\ lead' = [lead EXCEPT !.st = "active", !.stage = "review"] /\ UNCHANGED <<touch, overtaken>>
Edit ==
  /\ Called("review") \/ Called("approved")
  /\ lead' = [lead EXCEPT !.stage = "review", !.plan = @ + 1] /\ UNCHANGED <<touch, overtaken>>
Approve == Called("review") /\ lead' = [lead EXCEPT !.stage = "approved"] /\ UNCHANGED <<touch, overtaken>>
Blocks(t) == touch[t].st = "planned" \/ (touch[t].st = "dialing" /\ touch[t].plan = lead.plan)
Release(t) ==
  /\ Called("approved") /\ touch[t].st = "none" /\ \A u \in Touches : ~Blocks(u)
  /\ Set(t, Released(lead.plan)) /\ lead' = [lead EXCEPT !.stage = "queued"] /\ UNCHANGED overtaken
Exit == "exit" \in May /\ lead.st = "active" /\ Finished /\ UNCHANGED overtaken

Decide ==
  \/ Decision(Hold \/ Dismiss \/ Edit \/ Approve \/ Exit, 1)
  \/ Decision(\E t \in Touches : Release(t), 0)

-----------------------------------------------------------------------------
(* cti-api: handleTrigger and startAiCall.                                 *)

Key(h) == hmem[h].key
Req(h) == request[Key(h)]
Then(h, step, answer, call) == Go(h, step, [hmem[h] EXCEPT !.answer = answer, !.call = call])
\* The handler ends; its caller, when it still waits, has the answer.
Reply(h, answer, call) ==
  /\ Go(h, "idle", NoTrigger)
  /\ LET waiting == {p \in Pacers : pc[p] = "wait" /\ mem[p].h = h} IN
     /\ pc' = [p \in Pacers |-> IF p \notin waiting THEN pc[p] ELSE IF answer = "conflict" THEN "resolve" ELSE "apply"]
     /\ mem' = [p \in Pacers |-> IF p \in waiting THEN [mem[p] EXCEPT !.h = AnyHandler, !.answer = answer, !.call = call] ELSE mem[p]]
SetRequest(h, new) == request' = [request EXCEPT ![Key(h)] = new]
SetCall(i, new) == calls' = [calls EXCEPT ![i] = new]
Handle(h, step, A) == hpc[h] = step /\ A /\ UNCHANGED <<board, changes>>
NoLoss == UNCHANGED faults

\* mutant: a key taken before is reserved again
ReserveAgain(h) ==
  /\ SetRequest(h, [NoRequest EXCEPT !.st = "open", !.since = Len(calls)])
  /\ Go(h, "check", hmem[h]) /\ UNCHANGED <<pacer, calls>>
\* reserve: the key is new, held for another body, answered, or open.
Reserve(h) ==
  \/ Req(h).st = "none" /\ UNCHANGED <<pacer, calls>>
     /\ SetRequest(h, [NoRequest EXCEPT !.st = "open", !.since = Len(calls)]) /\ Go(h, "check", hmem[h])
  \/ /\ UNCHANGED store
     /\ \/ Req(h).st # "none" /\ Reply(h, "conflict", 0)
        \/ Req(h).st = "answered" /\ Reply(h, Req(h).answer, Req(h).call)
        \/ Req(h).st = "open" /\ ~Req(h).old /\ Reply(h, "in_flight", 0)
        \/ Req(h).st = "open" /\ Req(h).old /\ Go(h, "takeOver", hmem[h]) /\ UNCHANGED pacer
\* Before it: the plan's text is refused, or the approver has no CTI user.
Arrive(h) == Handle(h, "arrive", (Reserve(h) \/ ("park" \in May /\ Reply(h, "park", 0) /\ UNCHANGED store)) /\ NoLoss)

\* takeOver: one UPDATE of a reservation not touched for ten minutes.
TakeOver(h) == Handle(h, "takeOver",
  /\ IF Req(h).st = "open" /\ Req(h).old
     THEN SetRequest(h, [Req(h) EXCEPT !.old = FALSE]) /\ Go(h, "find", hmem[h]) /\ UNCHANGED <<pacer, calls>>
     ELSE Reply(h, "in_flight", 0) /\ UNCHANGED store
  /\ NoLoss)

\* mutant: a reservation taken over is served as a new one
FindNothing(h) == Handle(h, "find", Go(h, "check", hmem[h]) /\ UNCHANGED <<pacer, store>> /\ NoLoss)
\* crashedCall: the call linked to the key, or the newest of the record since.
Find(h) == Handle(h, "find",
  LET i == IF Req(h).call # 0 THEN Req(h).call ELSE Found(Key(h)) IN
  /\ IF i # 0 THEN Then(h, "complete", Rebuilt(i), i) ELSE Go(h, "check", hmem[h])
  /\ UNCHANGED <<pacer, store>> /\ NoLoss)

\* loadTarget, activeCallTo and the gate: refused with no row, refused with one
\* (blockedRow), or the row of the call.
Refuse(h) == \E why \in {"system", "final"} \cap May : Then(h, "complete", why, 0) /\ UNCHANGED <<pacer, store>>
Insert(h, why) ==
  /\ calls' = Append(calls, Row(Key(h), why)) /\ Then(h, "link", why, Len(calls) + 1)
  /\ UNCHANGED <<pacer, request>>
Busy == \E i \in DOMAIN calls : calls[i].live
Check(h) == Handle(h, "check",
  /\ \/ Refuse(h)
     \/ \E why \in Refusals \cap May : Insert(h, why)
     \/ ~Busy /\ Go(h, "insert", hmem[h]) /\ UNCHANGED <<pacer, store>>
  /\ NoLoss)
InsertCall(h) == Handle(h, "insert", Insert(h, "none") /\ NoLoss)

\* linkCall: a failure is only logged.
Link(h) == Handle(h, "link",
  /\ \/ SetRequest(h, IF Req(h).st = "open" /\ Req(h).call = 0 THEN [Req(h) EXCEPT !.call = hmem[h].call] ELSE Req(h)) /\ NoLoss
     \/ Fault("db") /\ UNCHANGED request
  /\ Go(h, IF calls[hmem[h].call].why = "none" THEN "place" ELSE "complete", hmem[h])
  /\ UNCHANGED <<pacer, calls>>)

\* placeCall: Twilio rings, refuses, or errors although it rings.
Place(h) == Handle(h, "place",
  LET i == hmem[h].call
      rung == [calls[i] EXCEPT !.rings = @ + 1] IN
  /\ \/ SetCall(i, rung) /\ Then(h, "record", "placed", i) /\ NoLoss
     \/ UNCHANGED calls /\ Then(h, "failRow", "later", i) /\ NoLoss
     \/ Fault("twilio") /\ SetCall(i, [rung EXCEPT !.errored = TRUE]) /\ Then(h, "failRow", "later", i)
  /\ UNCHANGED <<pacer, request>>)

\* recordPlaced, and the row of a call Twilio refused: a database error twice over
\* is only logged.
Written(h, step, new) == Handle(h, step,
  /\ \/ SetCall(hmem[h].call, new) /\ NoLoss
     \/ Fault("db") /\ UNCHANGED calls
  /\ Go(h, "complete", hmem[h]) /\ UNCHANGED <<pacer, request>>)
RecordPlaced(h) == Written(h, "record", [calls[hmem[h].call] EXCEPT !.sid = TRUE])
RecordFailed(h) == Written(h, "failRow", [calls[hmem[h].call] EXCEPT !.failed = TRUE, !.live = FALSE])

\* complete: an answer already stored stays.
Complete(h) == Handle(h, "complete",
  /\ SetRequest(h, IF Req(h).st = "open" THEN [Req(h) EXCEPT !.st = "answered", !.answer = hmem[h].answer, !.call = hmem[h].call] ELSE Req(h))
  /\ Reply(h, hmem[h].answer, hmem[h].call) /\ UNCHANGED calls /\ NoLoss)

\* The process dies, or a statement throws (a 500): the reservation stays.
Crash(h) ==
  /\ hpc[h] # "idle" /\ Fault("crash") /\ Reply(h, "transport", 0)
  /\ UNCHANGED <<board, store, changes>>

-----------------------------------------------------------------------------
(* Time, Twilio's callbacks and the sweeper.                               *)

Working(k) == \E h \in Handlers : hpc[h] \in Owning /\ Key(h) = k
\* An open reservation is ten minutes old; a claim that can still matter twenty seconds.
Old(k) ==
  /\ request[k].st = "open" /\ ~request[k].old /\ ~Working(k)
  /\ request' = [request EXCEPT ![k].old = TRUE]
  /\ UNCHANGED <<board, pacer, handler, calls>> /\ NoFault
TouchTime(t, A) == ~OnItsWay(touch[t].key) /\ A /\ UNCHANGED <<lead, keys, overtaken, pacer, handler, store>> /\ NoFault
Aged(t) == TouchTime(t, touch[t].st \in {"planned", "dialing"} /\ touch[t].young /\ Set(t, [touch[t] EXCEPT !.young = FALSE]))
Due(t) == TouchTime(t, touch[t].st = "planned" /\ ~touch[t].due /\ Set(t, [touch[t] EXCEPT !.due = TRUE]))

\* The terminal status callback, which carries the call id.
CallEnds(i) ==
  /\ calls[i].rings > 0 /\ calls[i].live
  /\ SetCall(i, [calls[i] EXCEPT !.live = FALSE, !.sid = TRUE])
  /\ UNCHANGED <<board, pacer, handler, request>> /\ NoFault
\* sweepStaleAiCalls: a row with no call id ends failed, also when it rang and its callback was lost.
Sweep(i) ==
  /\ calls[i].live /\ ~calls[i].sid /\ ~\E h \in Handlers : hpc[h] \in Owning /\ hmem[h].call = i
  /\ SetCall(i, [calls[i] EXCEPT !.failed = TRUE, !.live = FALSE])
  /\ UNCHANGED <<board, pacer, handler, request>> /\ NoFault

-----------------------------------------------------------------------------
Pace(p) ==
  \/ Pick(p) \/ SettleKey(p) \/ Gate(p) \/ Claim(p) \/ Refused(p) \/ Send(p) \/ GiveUp(p)
  \/ Resolve(p) \/ Apply(p) \/ Finish(p) \/ (\E t \in Touches : Reap(p, t))
Answer(h) ==
  \/ Arrive(h) \/ TakeOver(h) \/ Find(h) \/ Check(h) \/ InsertCall(h) \/ Link(h) \/ Place(h)
  \/ RecordPlaced(h) \/ RecordFailed(h) \/ Complete(h)
Next ==
  \/ \E p \in Pacers : Pace(p) \/ PacerCrash(p)
  \/ \E h \in Handlers : Answer(h) \/ Crash(h)
  \/ \E k \in KeyIds : Old(k)
  \/ \E t \in Touches : Aged(t) \/ Due(t)
  \/ \E i \in DOMAIN calls : CallEnds(i) \/ Sweep(i)
  \/ Decide

Spec == Init /\ [][Next]_vars
\* A tick every minute, a handler that goes on, and time that passes.
Fairness ==
  /\ \A p \in Pacers : WF_vars(Pace(p))
  /\ \A h \in Handlers : WF_vars(Answer(h))
  /\ \A k \in KeyIds : WF_vars(Old(k))
  /\ \A t \in Touches : WF_vars(Due(t))
FairSpec == Spec /\ Fairness

-----------------------------------------------------------------------------
Touch == [st : TouchStatus, plan : Nat, key : 0 .. MaxKeys, tries : Nat, due : BOOLEAN, young : BOOLEAN, call : Nat]
Lead == [st : {"active", "held", "ended"}, stage : {"review", "approved", "queued"}, plan : Nat]
Request == [st : {"none", "open", "answered"}, old : BOOLEAN, since : Nat, call : Nat, answer : Stored]
Call == [key : KeyIds, why : Refusals \cup {"none"}, live : BOOLEAN, rings : Nat, sid : BOOLEAN, failed : BOOLEAN, errored : BOOLEAN]
PacerMem == [touch : Touches, h : Handlers, key : 0 .. MaxKeys, approved : BOOLEAN, tries : Nat, answer : Answers, call : Nat]
Trigger == [key : 0 .. MaxKeys, answer : Stored \cup {"none"}, call : Nat]

TypeBoard ==
  /\ touch \in [Touches -> Touch] /\ lead \in Lead
  /\ keys \in Seq(Touches) /\ Len(keys) <= MaxKeys /\ overtaken \subseteq KeyIds
TypeStore == request \in [KeyIds -> Request] /\ calls \in Seq(Call)
TypePacers == pc \in [Pacers -> PacerSteps] /\ mem \in [Pacers -> PacerMem]
TypeHandlers == hpc \in [Handlers -> HandlerSteps] /\ hmem \in [Handlers -> Trigger]
\* Every variable has its type.
TypeOK ==
  /\ TypeBoard /\ TypeStore /\ TypePacers /\ TypeHandlers
  /\ changes \in 0 .. MaxChanges /\ faults \in 0 .. MaxFaults

\* A key places at most one call, whatever is lost, crashes or is sent again: the
\* reservation, its takeover and the search for a crashed request's call
\* (request-store.ts:1-6, routes-internal.ts:242-265).
OneCallPerKey ==
  /\ \A i, j \in DOMAIN calls : calls[i].key = calls[j].key => i = j
  /\ \A i \in DOMAIN calls : calls[i].rings <= 1

OnRecord(i) == \E t \in Touches : touch[t].st = "sent" /\ touch[t].call = i
\* Twilio errored, or nothing but the row is left of the call: it may have rung.
Uncertain(i) == calls[i].failed \/ calls[i].errored
Explained(i) == OnRecord(i) \/ Uncertain(i) \/ calls[i].key \in overtaken
\* Under one plan the lead is not rung a second time while an earlier call is on no
\* touch, however the first answer was lost and whatever people decided meanwhile
\* (key-resolution.ts:4-9), as far as one tick at a time and one fault go.
Plan(i) == touch[keys[calls[i].key]].plan
NoBlindCall ==
  \A i, j \in DOMAIN calls :
    i < j /\ calls[i].rings > 0 /\ calls[j].rings > 0 /\ Plan(i) = Plan(j)
      => Explained(i) \/ calls[j].key \in overtaken

\* The call a touch is sent with was placed for it, whichever way it was found (the
\* answer, the stored one, or the newest call of the record since the reservation,
\* key-resolution.ts:10-13); a touch still dialing when an edited plan is released
\* may take the newer touch's. With one tick at a time: a second one may park a
\* touch that is being dialed (stage.ts:48).
OwnCall ==
  \A t \in Touches : touch[t].st = "sent" =>
    LET i == touch[t].call IN keys[calls[i].key] = t \/ calls[i].key \in overtaken \/ Plan(i) # touch[t].plan

\* While the lead stays in the campaign under the plan it was called with, a call
\* that rang gets on its touch, whatever was lost (key-resolution.ts:4-9).
Told(i) == calls[i].rings > 0 => Explained(i) \/ Plan(i) # lead.plan
CallKept == []<>(lead.st = "active" => \A i \in DOMAIN calls : Told(i))

-----------------------------------------------------------------------------
(* What cti-api promises about keys.                                       *)

Answered(k) == request[k].st = "answered"
Said == [k \in KeyIds |-> IF Answered(k) THEN request[k].answer ELSE request[k].st]
Named == [k \in KeyIds |-> IF Answered(k) THEN request[k].call ELSE 0]
Asked == [k \in KeyIds |-> request[k].since]
Entries == [i \in DOMAIN calls |-> [key |-> calls[i].key, rings |-> calls[i].rings]]
Book == INSTANCE KeyedCalls WITH
  Keys <- KeyIds, Reasons <- Stored, answer <- Said, named <- Named, asked <- Asked, book <- Entries
\* A key rings only while it is reserved and unanswered, and once; its answer is final
\* and, when it says placed, names a call of the record since the reservation, however
\* requests are lost, repeated, crash and take over from one another
\* (request-store.ts:1-6, routes-internal.ts:242-265).
KeepsKeys == Book!KSpec
=============================================================================
