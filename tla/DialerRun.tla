------------------------------ MODULE DialerRun ------------------------------
(***************************************************************************)
(* One power-dialer run (services/cti-api/src/dialer/engine.ts): a session *)
(* row, its queue of item rows, the calls Twilio places for them, and the  *)
(* request handlers, Twilio callbacks and server timers that act on them   *)
(* concurrently.  Postgres runs at READ COMMITTED and no handler holds a   *)
(* lock across an await, so a handler is a worker whose steps, one         *)
(* database statement (or one transaction) or one Twilio request each,     *)
(* interleave with the steps of every other worker.                        *)
(*                                                                         *)
(* A row is named by its insertion order.  A row is dialed at most once    *)
(* (DialedOnce), so its call is named by the row too; "the row's callId is *)
(* set" is sid[r].                                                         *)
(***************************************************************************)
EXTENDS Naturals, FiniteSets

CONSTANTS
  Workers,      \* concurrent handler executions (requests, callbacks, ticks)
  N,            \* people on the list: the rows queue creation built
  MaxRows,      \* bound: rows the run may ever hold
  Passes,       \* the "Calls per person" choices Start may carry
  Sizes,        \* the "How many" choices Start may carry
  Ops,          \* the rep's buttons (and timers) this instance exercises
  MaxPresses,   \* bound: presses of those buttons
  Faults,       \* the failures this instance exercises
  MaxFaults,    \* bound: failures
  MaxRefusals,  \* MAX_REFUSALS_PER_ADVANCE
  Gated,        \* people a dial-time gate may turn away
  Humans,       \* people who may pick up
  Machines,     \* people whose voicemail may pick up
  LateCallbacks \* TRUE: Twilio calls back only after the dial is stamped

People == 1 .. N
Rows == 1 .. MaxRows

ASSUME RunAssumption ==
  /\ N \in Nat \ {0} /\ MaxRows \in Nat /\ MaxRows >= N
  /\ Passes \subseteq {1, 2}
  /\ Sizes \subseteq Nat \ {0}
  /\ MaxRefusals \in Nat \ {0}
  /\ MaxPresses \in Nat /\ MaxFaults \in Nat
  /\ Gated \subseteq People /\ Humans \subseteq People /\ Machines \subseteq People
  /\ LateCallbacks \in BOOLEAN

VARIABLES
  session,   \* dialer_sessions.status
  passes,    \* dialer_sessions.passes (Calls per person)
  st,        \* dialer_queue_items.status, per row
  row,       \* the columns of a row no statement ever rewrites
  sid,       \* is the row's callId set
  ended,     \* is the row's prospectEndedAt set
  canceled,  \* is the row's outcome 'canceled'
  log,       \* the row's dialer_dial_attempts entry
  rolled,    \* people whose follow-up rollover was enqueued
  call,      \* Twilio's call for the row
  dials,     \* how many times a call was placed for the row
  msgs,      \* Twilio callbacks not delivered yet
  due,       \* rows whose retry floor has passed
  lock,      \* holder of the per-session advisory lock, across statements
  pc, job,   \* the workers: next step, and what each carries to it
  presses, faults

queueVars == <<st, row, sid, ended, canceled>>
phoneVars == <<call, dials, msgs>>
runVars   == <<session, passes>>
bounds    == <<presses, faults>>
vars == <<session, passes, st, row, sid, ended, canceled, log, rolled, call,
          dials, msgs, due, lock, pc, job, presses, faults>>

SessionStatus == {"ready", "active", "paused", "stopped", "done"}
Live == {"active", "paused"}
Over == {"stopped", "done"}
\* "absent": not inserted yet; "trimmed": deleted by Start's run size.
ItemStatus == {"absent", "trimmed", "pending", "dialing", "connected", "done",
               "no_connect", "skipped", "unreachable"}
Settled == {"done", "no_connect", "skipped", "unreachable"}
CallStatus == {"none", "ringing", "human", "machine", "bridged", "over"}
Outcomes == {"connected", "machine", "ended", "canceled"}

NoRow == [ord |-> 0, person |-> 0, attempt |-> 0, redial |-> FALSE, floor |-> FALSE]

NoJob == [row |-> 0, sid |-> FALSE, pend |-> {}, due |-> {}, outcome |-> "none",
          requeue |-> FALSE, roll |-> FALSE, refusals |-> 0, amd |-> 0]

Init ==
  /\ session = "ready"
  /\ passes = 2
  /\ st \in [Rows -> {"absent", "pending", "unreachable"}]
  /\ \A r \in Rows : st[r] = "absent" <=> r > N
  /\ row = [r \in Rows |-> IF r <= N
              THEN [ord |-> r, person |-> r, attempt |-> 1, redial |-> FALSE, floor |-> FALSE]
              ELSE NoRow]
  /\ sid = [r \in Rows |-> FALSE]
  /\ ended = [r \in Rows |-> FALSE]
  /\ canceled = [r \in Rows |-> FALSE]
  /\ log = [r \in Rows |-> "none"]
  /\ rolled = {}
  /\ call = [r \in Rows |-> "none"]
  /\ dials = [r \in Rows |-> 0]
  /\ msgs = {} /\ due = {} /\ lock = {}
  /\ pc = [w \in Workers |-> "idle"]
  /\ job = [w \in Workers |-> NoJob]
  /\ presses = 0 /\ faults = 0

-----------------------------------------------------------------------------
(* The queue (dialer/state.ts) and the shared writes (engine.ts).          *)

Pending == {r \in Rows : st[r] = "pending"}
InFlight == {r \in Rows : st[r] \in {"dialing", "connected"}}
Talking(r) == st[r] = "connected" /\ ~ended[r]

\* Pending rows of a worker's snapshot past their floor at the worker's clock.
Eligible(j) == {r \in j.pend : row[r].floor => r \in j.due}
\* The rows nextEligiblePendingItem may return (an unordered read breaks ties).
NextItems(j) == {r \in Eligible(j) : \A q \in Eligible(j) : row[r].ord <= row[q].ord}

FreshRow(r) == st[r] = "absent" /\ \A q \in Rows : q < r => st[q] # "absent"
Present == {r \in Rows : st[r] \notin {"absent", "trimmed"}}
LastOrdinal == CHOOSE o \in {row[r].ord : r \in Present} : \A r \in Present : row[r].ord <= o

Goto(w, step, j) ==
  /\ pc' = [pc EXCEPT ![w] = step]
  /\ job' = [job EXCEPT ![w] = j]

\* The handler returns (or throws).  onDialerAmd's finally then hangs a
\* machine up, whatever the handler did.
Finish(w, j) ==
  IF j.amd = 0 THEN Goto(w, "idle", NoJob)
               ELSE Goto(w, "amdHangUp", [NoJob EXCEPT !.amd = j.amd])

\* What survives into an advance: the request's clock and the machine to hang up.
Onward(j) == [NoJob EXCEPT !.due = j.due, !.amd = j.amd]

\* End the calls in R.  Twilio reports each one's end: `canceled` for a call
\* that was still ringing, `completed` for one that was answered.
EndCalls(R) ==
  LET up == {r \in R : call[r] \notin {"none", "over"}} IN
  /\ call' = [r \in Rows |-> IF r \in up THEN "over" ELSE call[r]]
  /\ msgs' = msgs \cup {[call |-> r, outcome |->
               IF call[r] = "ringing" THEN "canceled" ELSE "ended"] : r \in up}

Press(op) == op \in Ops /\ presses < MaxPresses /\ presses' = presses + 1 /\ UNCHANGED faults
Fault(f) == f \in Faults /\ faults < MaxFaults /\ faults' = faults + 1 /\ UNCHANGED presses

-----------------------------------------------------------------------------
(* advanceSession.                                                         *)

ReadSession(w) ==
  /\ pc[w] = "advance"
  /\ IF session = "active" THEN Goto(w, "load", job[w]) ELSE Finish(w, job[w])
  /\ UNCHANGED <<queueVars, phoneVars, runVars, bounds, log, rolled, due, lock>>

\* mutant: the read of the queue does not stop at a row in flight.
LoadQueueUnchecked(w) ==
  /\ pc[w] = "load"
  /\ Goto(w, "pick", [job[w] EXCEPT !.pend = Pending])
  /\ UNCHANGED <<queueVars, phoneVars, runVars, bounds, log, rolled, due, lock>>

LoadQueue(w) ==
  /\ pc[w] = "load"
  /\ IF InFlight # {} THEN Finish(w, job[w])
                      ELSE Goto(w, "pick", [job[w] EXCEPT !.pend = Pending])
  /\ UNCHANGED <<queueVars, phoneVars, runVars, bounds, log, rolled, due, lock>>

\* Nothing eligible: wait for a floor, or release the room and end the run.
RunOut(w) ==
  /\ pc[w] = "pick"
  /\ Eligible(job[w]) = {}
  /\ IF job[w].pend # {} THEN Finish(w, job[w]) ELSE Goto(w, "release", job[w])
  /\ UNCHANGED <<queueVars, phoneVars, runVars, bounds, log, rolled, due, lock>>

\* releaseRepConference: everyone in the rep's room is hung up.
InRoom == {r \in Rows : call[r] = "bridged"}

ReleaseAtEnd(w) ==
  /\ pc[w] = "release"
  /\ EndCalls(InRoom)
  /\ Goto(w, "setDone", job[w])
  /\ UNCHANGED <<queueVars, runVars, bounds, log, rolled, due, lock, dials>>

SetDone(w) ==
  /\ pc[w] = "setDone"
  /\ session' = "done"
  /\ Finish(w, job[w])
  /\ UNCHANGED <<queueVars, phoneVars, bounds, log, rolled, due, lock, passes>>

\* A dial-time gate (non-US, hours, cadence, DID over-contact, in progress
\* elsewhere) turns the record away: setItemIfPending, then on with the queue,
\* or a fresh read of it when another worker took the row first.
GateSkip(w) ==
  /\ pc[w] = "pick"
  /\ \E r \in NextItems(job[w]) :
       /\ row[r].person \in Gated
       /\ \/ /\ st[r] = "pending"
             /\ st' = [st EXCEPT ![r] = "skipped"]
             /\ Goto(w, "pick", [job[w] EXCEPT !.pend = @ \ {r}])
          \/ /\ st[r] # "pending"
             /\ Goto(w, "reload", job[w])
             /\ UNCHANGED st
  /\ UNCHANGED <<phoneVars, runVars, bounds, row, sid, ended, canceled, log, rolled, due, lock>>

Reload(w) ==
  /\ pc[w] = "reload"
  /\ IF InFlight # {} THEN Finish(w, job[w])
                      ELSE Goto(w, "pick", [job[w] EXCEPT !.pend = Pending])
  /\ UNCHANGED <<queueVars, phoneVars, runVars, bounds, log, rolled, due, lock>>

\* pickDid found no number to dial from: an unconditional pause.
NoNumbers(w) ==
  /\ pc[w] = "pick"
  /\ Eligible(job[w]) # {}
  /\ Fault("noNumbers")
  /\ session' = "paused"
  /\ Finish(w, job[w])
  /\ UNCHANGED <<queueVars, phoneVars, log, rolled, due, lock, passes>>

\* mutant: the claim trusts the snapshot's row.
ClaimableBlind(r) == session = "active"

\* mutant: the claim does not re-read the run.
ClaimableEnded(r) == st[r] = "pending"

Claimable(r) == st[r] = "pending" /\ session = "active"

\* The claim transaction: under the session's advisory lock, pending -> dialing
\* if the row is still pending and the run still active.
Claim(w) ==
  /\ pc[w] = "pick"
  /\ lock = {}
  /\ \E r \in NextItems(job[w]) :
       \/ /\ Claimable(r)
          /\ st' = [st EXCEPT ![r] = "dialing"]
          /\ Goto(w, "originate", [job[w] EXCEPT !.row = r])
       \/ /\ ~Claimable(r)
          /\ Finish(w, job[w])
          /\ UNCHANGED st
  /\ UNCHANGED <<phoneVars, runVars, bounds, row, sid, ended, canceled, log, rolled, due, lock>>

Originate(w) ==
  /\ pc[w] = "originate"
  /\ LET r == job[w].row IN
       /\ call' = [call EXCEPT ![r] = "ringing"]
       /\ dials' = [dials EXCEPT ![r] = @ + 1]
       /\ Goto(w, "stamp", [NoJob EXCEPT !.row = r, !.amd = job[w].amd])
  /\ UNCHANGED <<queueVars, runVars, bounds, log, rolled, due, lock, msgs>>

\* Twilio refuses the destination: skip the row if it is still ours.
OriginateRefused(w) ==
  /\ pc[w] = "originate"
  /\ Fault("refuse")
  /\ job[w].refusals + 1 < MaxRefusals
  /\ LET r == job[w].row
         j == [job[w] EXCEPT !.row = 0, !.refusals = @ + 1]
     IN \/ /\ st[r] = "dialing"
           /\ st' = [st EXCEPT ![r] = "skipped"]
           /\ Goto(w, "refused", [j EXCEPT !.pend = @ \ {r}])
        \/ /\ st[r] # "dialing"
           /\ Goto(w, "refusedLost", j)
           /\ UNCHANGED st
  /\ UNCHANGED <<phoneVars, runVars, row, sid, ended, canceled, log, rolled, due, lock>>

\* Re-read the run after a refusal: it may have been stopped or paused.
AfterRefusal(w) ==
  /\ pc[w] \in {"refused", "refusedLost"}
  /\ IF session # "active" THEN Finish(w, job[w])
     ELSE Goto(w, IF pc[w] = "refused" THEN "pick" ELSE "reload", job[w])
  /\ UNCHANGED <<queueVars, phoneVars, runVars, bounds, log, rolled, due, lock>>

\* mutant: the rollback does not check that the row is still ours.
RolledBackBlind(r) == [st EXCEPT ![r] = "pending"]

RolledBack(r) == IF st[r] = "dialing" THEN [st EXCEPT ![r] = "pending"] ELSE st

\* Any other failure, and the refusal at the limit: back to pending if the row
\* is still ours, and the handler throws.
OriginateFailed(w) ==
  /\ pc[w] = "originate"
  /\ Fault("fail") \/ (job[w].refusals + 1 >= MaxRefusals /\ Fault("refuse"))
  /\ st' = RolledBack(job[w].row)
  /\ Finish(w, job[w])
  /\ UNCHANGED <<phoneVars, runVars, row, sid, ended, canceled, log, rolled, due, lock>>

\* mutant: the call id is kept only while the run is active.
StampedIfActive(r) == st[r] = "dialing" /\ session = "active"

Stamped(r) == st[r] = "dialing"

\* The stamp transaction: callId onto the row if it is still dialing, the
\* attempt row regardless, and the run's status read last.
Stamp(w) ==
  /\ pc[w] = "stamp"
  /\ LET r == job[w].row IN
       /\ sid' = [sid EXCEPT ![r] = Stamped(r)]
       /\ log' = [log EXCEPT ![r] = "dialed"]
       /\ IF ~Stamped(r) \/ session \in Over
            THEN Goto(w, "hangUp", job[w])
            ELSE Finish(w, job[w])
  /\ UNCHANGED <<phoneVars, runVars, bounds, st, row, ended, canceled, rolled, due, lock>>

\* telephony.hangup of the row's call, and back into the advance for the
\* buttons that go on dialing.
HangUp(w) ==
  /\ pc[w] \in {"hangUp", "hangUpAdvance"}
  /\ EndCalls({job[w].row})
  /\ IF pc[w] = "hangUp" THEN Finish(w, job[w]) ELSE Goto(w, "advance", Onward(job[w]))
  /\ UNCHANGED <<queueVars, runVars, bounds, log, rolled, due, lock, dials>>

AmdHangUp(w) ==
  /\ pc[w] = "amdHangUp"
  /\ EndCalls({job[w].amd})
  /\ Goto(w, "idle", NoJob)
  /\ UNCHANGED <<queueVars, runVars, bounds, log, rolled, due, lock, dials>>

Advance(w) ==
  \/ ReadSession(w) \/ LoadQueue(w) \/ RunOut(w) \/ ReleaseAtEnd(w) \/ SetDone(w)
  \/ GateSkip(w) \/ Reload(w) \/ NoNumbers(w) \/ Claim(w) \/ Originate(w)
  \/ OriginateRefused(w) \/ AfterRefusal(w) \/ OriginateFailed(w) \/ Stamp(w)
  \/ HangUp(w) \/ AmdHangUp(w)

-----------------------------------------------------------------------------
(* The rep's buttons and the server timers.  Each begins on an idle worker  *)
(* with its first read; a press that would read, decide nothing and return  *)
(* is left out.                                                             *)

Begin(w, step, j) ==
  /\ pc[w] = "idle"
  /\ Goto(w, step, [j EXCEPT !.due = due])

\* startSession: the ready -> active claim with the run's settings, the queue
\* cut to the run size, and the first advance.
LastKept(size) ==
  {r \in Pending : Cardinality({q \in Pending : row[q].ord <= row[r].ord}) = size}

Start(w) ==
  /\ session = "ready"
  /\ Begin(w, "advance", NoJob)
  /\ session' = "active"
  /\ passes' \in Passes
  /\ \E size \in Sizes :
       st' = [r \in Rows |-> IF st[r] # "absent" /\ \E k \in LastKept(size) : row[r].ord > row[k].ord
                             THEN "trimmed" ELSE st[r]]
  /\ UNCHANGED <<phoneVars, bounds, row, sid, ended, canceled, log, rolled, due, lock>>

\* Start pressed on a run already active: the claim is lost, advance again.
StartAgain(w) ==
  /\ session = "active"
  /\ Press("start")
  /\ Begin(w, "advance", NoJob)
  /\ UNCHANGED <<queueVars, phoneVars, runVars, log, rolled, due, lock>>

Pause(w) ==
  /\ session = "active"
  /\ Press("pause")
  /\ Begin(w, "setPaused", NoJob)
  /\ UNCHANGED <<queueVars, phoneVars, runVars, log, rolled, due, lock>>

SetPaused(w) ==
  /\ pc[w] = "setPaused"
  /\ session' = "paused"
  /\ Finish(w, job[w])
  /\ UNCHANGED <<queueVars, phoneVars, bounds, log, rolled, due, lock, passes>>

Resume(w) ==
  /\ session = "paused"
  /\ Press("resume")
  /\ Begin(w, "setActive", NoJob)
  /\ UNCHANGED <<queueVars, phoneVars, runVars, log, rolled, due, lock>>

SetActive(w) ==
  /\ pc[w] = "setActive"
  /\ session' = "active"
  /\ Goto(w, "advance", Onward(job[w]))
  /\ UNCHANGED <<queueVars, phoneVars, bounds, log, rolled, due, lock, passes>>

\* skipCurrent, repNext: read the queue; settle the row in flight with an
\* unconditional write; hang its call up if the snapshot had a callId; advance.
Skip(w) ==
  /\ Press("skip")
  /\ \/ /\ InFlight = {} /\ session = "active"
        /\ Begin(w, "advance", NoJob)
     \/ \E r \in InFlight : Begin(w, "setSkipped", [NoJob EXCEPT !.row = r, !.sid = sid[r]])
  /\ UNCHANGED <<queueVars, phoneVars, runVars, log, rolled, due, lock>>

RepNext(w) ==
  /\ Press("next")
  /\ \/ /\ InFlight = {} /\ session = "active"
        /\ Begin(w, "advance", NoJob)
     \/ \E r \in InFlight :
          /\ st[r] = "connected"
          /\ Begin(w, "setDoneRow", [NoJob EXCEPT !.row = r, !.sid = sid[r]])
  /\ UNCHANGED <<queueVars, phoneVars, runVars, log, rolled, due, lock>>

SettleCurrent(w) ==
  /\ pc[w] \in {"setSkipped", "setDoneRow"}
  /\ st' = [st EXCEPT ![job[w].row] = IF pc[w] = "setSkipped" THEN "skipped" ELSE "done"]
  /\ IF job[w].sid THEN Goto(w, "hangUpAdvance", job[w])
                   ELSE Goto(w, "advance", Onward(job[w]))
  /\ UNCHANGED <<phoneVars, runVars, bounds, row, sid, ended, canceled, log, rolled, due, lock>>

\* stopSession: read the run and its queue; release the room if the run was
\* live; stop the run, unconditionally; hang up a ringing dial of the snapshot.
Stop(w) ==
  /\ Press("stop")
  /\ LET step == IF session \in Live THEN "releaseAtStop" ELSE "setStopped" IN
     \/ InFlight = {} /\ Begin(w, step, NoJob)
     \/ \E r \in InFlight :
          Begin(w, step, IF st[r] = "dialing" /\ sid[r] THEN [NoJob EXCEPT !.row = r] ELSE NoJob)
  /\ UNCHANGED <<queueVars, phoneVars, runVars, log, rolled, due, lock>>

ReleaseAtStop(w) ==
  /\ pc[w] \in {"releaseAtStop", "releaseIdle"}
  /\ EndCalls(InRoom)
  /\ Goto(w, IF pc[w] = "releaseAtStop" THEN "setStopped" ELSE "findDial", job[w])
  /\ UNCHANGED <<queueVars, runVars, bounds, log, rolled, due, lock, dials>>

\* mutant: the hang-up is not limited to a ringing dial of the snapshot.
SetStoppedBlind(w) ==
  /\ pc[w] = "setStopped"
  /\ session' = "stopped"
  /\ Goto(w, "hangUp", job[w])
  /\ UNCHANGED <<queueVars, phoneVars, bounds, log, rolled, due, lock, passes>>

SetStopped(w) ==
  /\ pc[w] = "setStopped"
  /\ session' = "stopped"
  /\ IF job[w].row # 0 THEN Goto(w, "hangUp", job[w]) ELSE Finish(w, job[w])
  /\ UNCHANGED <<queueVars, phoneVars, bounds, log, rolled, due, lock, passes>>

\* The idle cut (stopIdleRunsTick, stopIdleSession): with no live dial at its
\* re-check, stop the run if it is still live, release the room, then look for
\* a dial that started meanwhile.
IdleCheck(w) ==
  /\ session \in Live
  /\ \A r \in Rows : st[r] # "dialing" /\ ~Talking(r)
  /\ Press("idle")
  /\ Begin(w, "cutIdle", NoJob)
  /\ UNCHANGED <<queueVars, phoneVars, runVars, log, rolled, due, lock>>

CutIdle(w) ==
  /\ pc[w] = "cutIdle"
  /\ \/ /\ session \in Live
        /\ session' = "stopped"
        /\ Goto(w, "releaseIdle", job[w])
     \/ /\ session \notin Live
        /\ Finish(w, job[w])
        /\ UNCHANGED session
  /\ UNCHANGED <<queueVars, phoneVars, bounds, log, rolled, due, lock, passes>>

FindDial(w) ==
  /\ pc[w] = "findDial"
  /\ \/ \E r \in InFlight : st[r] = "dialing" /\ sid[r] /\ Goto(w, "hangUp", [job[w] EXCEPT !.row = r])
     \/ InFlight = {} /\ Finish(w, job[w])
     \/ \E r \in InFlight : ~(st[r] = "dialing" /\ sid[r]) /\ Finish(w, job[w])
  /\ UNCHANGED <<queueVars, phoneVars, runVars, bounds, log, rolled, due, lock>>

\* endCurrent: pause, unconditionally, then settle and hang up the connected row.
EndCall(w) ==
  /\ session \in Live
  /\ Press("end")
  /\ \/ InFlight = {} /\ Begin(w, "pauseToEnd", NoJob)
     \/ \E r \in InFlight :
          Begin(w, "pauseToEnd",
                IF st[r] = "connected" THEN [NoJob EXCEPT !.row = r, !.sid = sid[r]] ELSE NoJob)
  /\ UNCHANGED <<queueVars, phoneVars, runVars, log, rolled, due, lock>>

PauseToEnd(w) ==
  /\ pc[w] = "pauseToEnd"
  /\ session' = "paused"
  /\ IF job[w].row # 0 THEN Goto(w, "endRow", job[w]) ELSE Finish(w, job[w])
  /\ UNCHANGED <<queueVars, phoneVars, bounds, log, rolled, due, lock, passes>>

EndRow(w) ==
  /\ pc[w] = "endRow"
  /\ st' = [st EXCEPT ![job[w].row] = "done"]
  /\ IF job[w].sid THEN Goto(w, "hangUp", job[w]) ELSE Finish(w, job[w])
  /\ UNCHANGED <<phoneVars, runVars, bounds, row, sid, ended, canceled, log, rolled, due, lock>>

\* Insert row q as a copy of row r.
Insert(q, columns) == FreshRow(q) /\ row' = [row EXCEPT ![q] = columns]

\* redialCurrent: the connected row whose prospect hung up is closed and a copy
\* queued at its ordinal, in one compare-and-swap transaction; then advance.
Redial(w) ==
  /\ Press("redial")
  /\ session \in Live
  /\ \E r \in InFlight :
       /\ st[r] = "connected" /\ ended[r]
       /\ Begin(w, "redial", [NoJob EXCEPT !.row = r])
  /\ UNCHANGED <<queueVars, phoneVars, runVars, log, rolled, due, lock>>

RedialCopy(r) == [row[r] EXCEPT !.redial = TRUE, !.floor = FALSE]

RedialTx(w) ==
  /\ pc[w] = "redial"
  /\ LET r == job[w].row IN
     \/ /\ st[r] = "connected" /\ ended[r] /\ session \in Live
        /\ \E q \in Rows :
             /\ Insert(q, RedialCopy(r))
             /\ st' = [st EXCEPT ![r] = "done", ![q] = "pending"]
     \/ /\ ~(st[r] = "connected" /\ ended[r] /\ session \in Live)
        /\ UNCHANGED <<st, row>>
  /\ Goto(w, "advance", Onward(job[w]))
  /\ UNCHANGED <<phoneVars, runVars, bounds, sid, ended, canceled, log, rolled, due, lock>>

\* takeCallback: one transaction under the advisory lock.  Its reads come
\* first; its guarded writes take effect together when it commits.
TakeCallback(w) ==
  /\ Press("callback")
  /\ lock = {}
  /\ session \in Live
  /\ lock' = {w}
  /\ \/ InFlight = {} /\ Begin(w, "takeCallback", NoJob)
     \/ \E r \in InFlight :
          /\ ~Talking(r)
          /\ Begin(w, "takeCallback",
                   IF st[r] = "dialing" THEN [NoJob EXCEPT !.row = r, !.sid = sid[r]] ELSE NoJob)
  /\ UNCHANGED <<queueVars, phoneVars, runVars, log, rolled, due>>

\* callbackRequeue: the cancelled row again, at its ordinal, behind a floor.
\* mutant: queued at the end, as a miss is.
CallbackCopyAtEnd(r) == [row[r] EXCEPT !.ord = LastOrdinal + 1, !.floor = TRUE]

CallbackCopy(r) == [row[r] EXCEPT !.floor = TRUE]

TakeCallbackTx(w) ==
  /\ pc[w] = "takeCallback"
  /\ lock' = {}
  /\ LET r == job[w].row IN
     \/ /\ session \notin Live
        /\ Finish(w, job[w])
        /\ UNCHANGED <<session, st, row, canceled>>
     \/ /\ session \in Live /\ r = 0
        /\ session' = "paused"
        /\ Finish(w, job[w])
        /\ UNCHANGED <<st, row, canceled>>
     \/ /\ session \in Live /\ r # 0 /\ st[r] = "dialing"
        /\ session' = "paused"
        /\ canceled' = [canceled EXCEPT ![r] = TRUE]
        /\ \E q \in Rows :
             /\ Insert(q, CallbackCopy(r))
             /\ st' = [st EXCEPT ![r] = "skipped", ![q] = "pending"]
        /\ IF job[w].sid THEN Goto(w, "hangUp", job[w]) ELSE Finish(w, job[w])
     \/ /\ session \in Live /\ r # 0 /\ st[r] # "dialing"
        /\ session' = IF \E q \in InFlight : Talking(q) THEN session ELSE "paused"
        /\ Finish(w, job[w])
        /\ UNCHANGED <<st, row, canceled>>
  /\ UNCHANGED <<phoneVars, bounds, sid, ended, log, rolled, due, passes>>

\* pauseRunThatLostItsLeg: one guarded statement.
LegLost ==
  /\ session = "active"
  /\ Press("legLost")
  /\ session' = "paused"
  /\ UNCHANGED <<queueVars, phoneVars, log, rolled, due, lock, passes, pc, job>>

\* nudgeDueRetries: a due retry of a polled, active run.
Nudge(w) ==
  /\ session = "active"
  /\ \E r \in due : st[r] = "pending"
  /\ Begin(w, "advance", NoJob)
  /\ UNCHANGED <<queueVars, phoneVars, runVars, bounds, log, rolled, due, lock>>

Buttons(w) ==
  \/ Start(w) \/ StartAgain(w) \/ Pause(w) \/ SetPaused(w) \/ Resume(w) \/ SetActive(w)
  \/ Skip(w) \/ RepNext(w) \/ SettleCurrent(w) \/ Stop(w) \/ ReleaseAtStop(w) \/ SetStopped(w)
  \/ IdleCheck(w) \/ CutIdle(w) \/ FindDial(w) \/ EndCall(w) \/ PauseToEnd(w) \/ EndRow(w)
  \/ Redial(w) \/ RedialTx(w) \/ TakeCallback(w) \/ TakeCallbackTx(w) \/ Nudge(w)

-----------------------------------------------------------------------------
(* handleDialOutcome, entered by onDialerAmd and onDialerStatus.           *)

\* What a callback does first.  The row is looked up by callId: a call nobody
\* stamped yet matches no row.
\* mutant: a plain end of the call is not mapped to an outcome.
EntryNoEnd(r, outcome) ==
  CASE sid[r] /\ Talking(r) /\ outcome # "connected" -> "stampEnded"
    [] sid[r] /\ st[r] = "skipped" /\ outcome = "connected" -> "hangUp"
    [] sid[r] /\ st[r] = "dialing" /\ outcome # "ended" -> "readRun"
    [] OTHER -> "return"

Entry(r, outcome) ==
  CASE sid[r] /\ Talking(r) /\ outcome # "connected" -> "stampEnded"
    [] sid[r] /\ st[r] = "skipped" /\ outcome = "connected" -> "hangUp"
    [] sid[r] /\ st[r] = "dialing" -> "readRun"
    [] OTHER -> "return"

Deliver(w) ==
  /\ pc[w] = "idle"
  /\ \E m \in msgs :
       LET r == m.call
           j == [NoJob EXCEPT !.row = r, !.due = due, !.outcome = m.outcome,
                              !.amd = IF m.outcome = "machine" THEN r ELSE 0]
       IN /\ LateCallbacks => log[r] # "none"
          /\ \/ msgs' = msgs \ {m} /\ UNCHANGED bounds
             \/ Fault("redeliver") /\ UNCHANGED msgs
          /\ IF Entry(r, m.outcome) = "return" THEN Finish(w, j)
             ELSE Goto(w, Entry(r, m.outcome), j)
  /\ UNCHANGED <<queueVars, runVars, log, rolled, due, lock, call, dials>>

StampEnded(w) ==
  /\ pc[w] = "stampEnded"
  /\ ended' = [ended EXCEPT ![job[w].row] = TRUE]
  /\ Finish(w, job[w])
  /\ UNCHANGED <<phoneVars, runVars, bounds, st, row, sid, canceled, log, rolled, due, lock>>

\* mutant: the run's last pass is always the second.
RequeueTwice(r) == row[r].attempt < 2 /\ session \in Live /\ ~row[r].redial

\* mutant: no last pass.
RequeueAlways(r) == session \in Live /\ ~row[r].redial

\* A miss before the run's last pass, in a live run, of a row that is no redial.
Requeue(r) == row[r].attempt < passes /\ session \in Live /\ ~row[r].redial

ReadRun(w) ==
  /\ pc[w] = "readRun"
  /\ LET j == job[w] IN
     CASE j.outcome = "connected" /\ session \in Live -> Goto(w, "connect", j)
       [] j.outcome = "connected" /\ session \notin Live -> Goto(w, "cutLate", j)
       [] j.outcome = "canceled" -> Goto(w, "miss", [j EXCEPT !.requeue = Requeue(j.row)])
       [] OTHER -> Goto(w, "history", [j EXCEPT !.requeue = Requeue(j.row)])
  /\ UNCHANGED <<queueVars, phoneVars, runVars, bounds, log, rolled, due, lock>>

\* Answered after the run was over: settle as the Stop's cut, then hang up.
CutLate(w) ==
  /\ pc[w] = "cutLate"
  /\ LET r == job[w].row IN
     \/ /\ st[r] = "dialing"
        /\ st' = [st EXCEPT ![r] = "no_connect"]
        /\ canceled' = [canceled EXCEPT ![r] = TRUE]
        /\ Goto(w, "hangUp", job[w])
     \/ /\ st[r] # "dialing"
        /\ Finish(w, job[w])
        /\ UNCHANGED <<st, canceled>>
  /\ UNCHANGED <<phoneVars, runVars, bounds, row, sid, ended, log, rolled, due, lock>>

\* mutant: the swap to connected is unconditional.
ConnectBlind(w) ==
  /\ pc[w] = "connect"
  /\ st' = [st EXCEPT ![job[w].row] = "connected"]
  /\ log' = [log EXCEPT ![job[w].row] = "connected"]
  /\ Goto(w, "bridge", job[w])
  /\ UNCHANGED <<phoneVars, runVars, bounds, row, sid, ended, canceled, rolled, due, lock>>

\* dialing -> connected and stampConnected, in one transaction.
Connect(w) ==
  /\ pc[w] = "connect"
  /\ LET r == job[w].row IN
     \/ /\ st[r] = "dialing"
        /\ st' = [st EXCEPT ![r] = "connected"]
        /\ log' = [log EXCEPT ![r] = "connected"]
        /\ Goto(w, "bridge", job[w])
     \/ /\ st[r] # "dialing"
        /\ Goto(w, "lostConnect", job[w])
        /\ UNCHANGED <<st, log>>
  /\ UNCHANGED <<phoneVars, runVars, bounds, row, sid, ended, canceled, rolled, due, lock>>

LostConnect(w) ==
  /\ pc[w] = "lostConnect"
  /\ IF st[job[w].row] = "skipped" THEN Goto(w, "hangUp", job[w]) ELSE Finish(w, job[w])
  /\ UNCHANGED <<queueVars, phoneVars, runVars, bounds, log, rolled, due, lock>>

\* bridgeToRep re-points the call at the rep's room; Twilio refuses it for a
\* call that has ended.
Bridge(w) ==
  /\ pc[w] = "bridge"
  /\ LET r == job[w].row IN
       call' = IF call[r] = "human" THEN [call EXCEPT ![r] = "bridged"] ELSE call
  /\ Finish(w, job[w])
  /\ UNCHANGED <<queueVars, runVars, bounds, log, rolled, due, lock, dials, msgs>>

\* rolloverDue: the rep dialed this person often enough, skips and cancels
\* aside, and never connected.
\* mutant: skipped and cancelled dials count.
OwnDialsAll(p) == {r \in Rows : row[r].person = p /\ log[r] # "none"}

OwnDials(p) == {r \in Rows : row[r].person = p /\ log[r] # "none" /\ st[r] # "skipped" /\ ~canceled[r]}

\* mutant: somebody reached rolls over too.
RolloverDueReached(p) == Cardinality(OwnDials(p)) >= passes

RolloverDue(p) ==
  /\ Cardinality(OwnDials(p)) >= passes
  /\ \A r \in OwnDials(p) : log[r] # "connected"

ReadHistory(w) ==
  /\ pc[w] = "history"
  /\ LET roll == RolloverDue(row[job[w].row].person) IN
     \/ Goto(w, "miss", [job[w] EXCEPT !.roll = roll]) /\ UNCHANGED bounds
     \/ Goto(w, "miss", job[w]) /\ Fault("history")
  /\ UNCHANGED <<queueVars, phoneVars, runVars, log, rolled, due, lock>>

\* mutant: a settled miss does not advance the run.
AfterMissStay(w, j) == Finish(w, j)

AfterMiss(w, j) == Goto(w, "advance", Onward(j))

RetryCopy(r) == [row[r] EXCEPT !.ord = LastOrdinal + 1, !.attempt = 2, !.floor = TRUE]

\* The miss transaction: settle, queue the end-of-run retry, enqueue the
\* rollover; then advance.
Miss(w) ==
  /\ pc[w] = "miss"
  /\ LET r == job[w].row
         j == job[w]
     IN
     \/ /\ st[r] = "dialing"
        /\ canceled' = [canceled EXCEPT ![r] = j.outcome = "canceled"]
        /\ rolled' = IF j.roll THEN rolled \cup {row[r].person} ELSE rolled
        /\ \/ /\ j.requeue
              /\ \E q \in Rows : /\ Insert(q, RetryCopy(r))
                                 /\ st' = [st EXCEPT ![r] = "no_connect", ![q] = "pending"]
           \/ /\ ~j.requeue
              /\ st' = [st EXCEPT ![r] = "no_connect"]
              /\ UNCHANGED row
        /\ AfterMiss(w, j)
     \/ /\ st[r] # "dialing"
        /\ Finish(w, j)
        /\ UNCHANGED <<st, row, canceled, rolled>>
  /\ UNCHANGED <<phoneVars, runVars, bounds, sid, ended, log, due, lock>>

Callbacks(w) ==
  \/ Deliver(w) \/ StampEnded(w) \/ ReadRun(w) \/ CutLate(w) \/ Connect(w)
  \/ LostConnect(w) \/ Bridge(w) \/ ReadHistory(w) \/ Miss(w)

-----------------------------------------------------------------------------
(* The environment: Twilio, the people called, the clock, the process.     *)

Reports(r, outcome) == msgs' = msgs \cup {[call |-> r, outcome |-> outcome]}

PersonAnswers(r) ==
  /\ call[r] = "ringing" /\ row[r].person \in Humans
  /\ call' = [call EXCEPT ![r] = "human"]
  /\ Reports(r, "connected")

MachineAnswers(r) ==
  /\ call[r] = "ringing" /\ row[r].person \in Machines
  /\ call' = [call EXCEPT ![r] = "machine"]
  /\ Reports(r, "machine")

\* Nobody answers, busy, failed; or whoever answered is gone (the hold lasts 30 s).
CallEnds(r) ==
  /\ call[r] \in {"ringing", "human", "machine", "bridged"}
  /\ call' = [call EXCEPT ![r] = "over"]
  /\ Reports(r, "ended")

Phones ==
  /\ \E r \in Rows : PersonAnswers(r) \/ MachineAnswers(r) \/ CallEnds(r)
  /\ UNCHANGED <<queueVars, runVars, bounds, log, rolled, due, lock, pc, job, dials>>

\* Five minutes pass for a retry.  Floors are stamped as rows are inserted, so
\* they pass in insertion order.
FloorPasses ==
  /\ \E r \in Rows :
       /\ row[r].floor /\ r \notin due
       /\ \A q \in Rows : q < r /\ row[q].floor => q \in due
       /\ due' = due \cup {r}
  /\ UNCHANGED <<queueVars, phoneVars, runVars, bounds, log, rolled, lock, pc, job>>

\* The process dies in the middle of a handler: nothing uncommitted survives.
Crash(w) ==
  /\ pc[w] # "idle"
  /\ Fault("crash")
  /\ Goto(w, "idle", NoJob)
  /\ lock' = lock \ {w}
  /\ UNCHANGED <<queueVars, phoneVars, runVars, log, rolled, due>>

Next ==
  \/ \E w \in Workers : Advance(w) \/ Buttons(w) \/ Callbacks(w) \/ Crash(w)
  \/ LegLost \/ Phones \/ FloorPasses

Spec == Init /\ [][Next]_vars

\* A handler in progress goes on, unless it throws.
Step(w) == pc[w] # "idle" /\ (Advance(w) \/ Buttons(w) \/ Callbacks(w))

\* Handlers run to their end; Twilio ends every call and delivers every
\* callback; time passes; and, while the rep's softphone polls the run, the
\* retry nudge comes round.  Any number of handlers run at once in the code, so
\* one is eventually free for a callback or a tick: strong fairness.
Fairness ==
  /\ \A w \in Workers : WF_vars(Step(w))
  /\ \A r \in Rows : WF_vars(CallEnds(r) /\ Phones)
  /\ SF_vars(\E w \in Workers : Deliver(w))
  /\ SF_vars(\E w \in Workers : Nudge(w))
  /\ WF_vars(FloorPasses)

FairSpec == Spec /\ Fairness

-----------------------------------------------------------------------------
(* Properties.                                                             *)

Row == [ord : 0 .. MaxRows, person : 0 .. N, attempt : 0 .. 2, redial : BOOLEAN, floor : BOOLEAN]
Job == [row : 0 .. MaxRows, sid : BOOLEAN, pend : SUBSET Rows, due : SUBSET Rows,
        outcome : Outcomes \cup {"none"}, requeue : BOOLEAN, roll : BOOLEAN,
        refusals : Nat, amd : 0 .. MaxRows]
Steps == {"idle", "advance", "load", "pick", "release", "setDone", "reload", "originate",
          "refused", "refusedLost", "stamp", "hangUp", "hangUpAdvance", "amdHangUp",
          "setPaused", "setActive", "setSkipped", "setDoneRow", "releaseAtStop", "releaseIdle",
          "setStopped", "cutIdle", "findDial", "pauseToEnd", "endRow", "redial",
          "takeCallback", "stampEnded", "readRun", "cutLate", "connect", "lostConnect",
          "bridge", "history", "miss"}
\* Steps that act on a row of the queue.
RowSteps == {"originate", "stamp", "hangUp", "hangUpAdvance", "setSkipped", "setDoneRow",
             "endRow", "redial", "stampEnded", "readRun", "cutLate", "connect",
             "lostConnect", "bridge", "history", "miss"}

TypeRun ==
  /\ session \in SessionStatus
  /\ passes \in {1, 2}
  /\ rolled \subseteq 0 .. N
  /\ due \subseteq Rows
  /\ lock \subseteq Workers
  /\ presses \in Nat /\ faults \in Nat
TypeQueue ==
  /\ st \in [Rows -> ItemStatus]
  /\ row \in [Rows -> Row]
  /\ sid \in [Rows -> BOOLEAN]
  /\ ended \in [Rows -> BOOLEAN]
  /\ canceled \in [Rows -> BOOLEAN]
  /\ log \in [Rows -> {"none", "dialed", "connected"}]
\* Rows are inserted in order, each at an ordinal no later than its place.
TypeOrder ==
  /\ \A r \in Rows : row[r].ord <= r
  /\ \A q, r \in Rows : q < r /\ st[q] = "absent" => st[r] = "absent"
TypePhones ==
  /\ call \in [Rows -> CallStatus]
  /\ dials \in [Rows -> Nat]
  /\ msgs \subseteq [call : Rows, outcome : Outcomes]
TypeWorkers ==
  /\ pc \in [Workers -> Steps]
  /\ job \in [Workers -> Job]
  /\ \A w \in Workers : pc[w] \in RowSteps => job[w].row # 0
  /\ \A w \in Workers : pc[w] = "amdHangUp" => job[w].amd # 0
  /\ \A w \in Workers : job[w].row # 0 => st[job[w].row] # "absent"

\* Every variable has its type, and a worker at a step on a row has a row: no
\* handler hangs up, settles or dials a row it never read (engine.ts, throughout).
TypeOK == TypeRun /\ TypeQueue /\ TypeOrder /\ TypePhones /\ TypeWorkers

\* A queue row rings its person's phone at most once, whatever advances race
\* for it, are refused, fail and roll back, or are retried (advanceSession's
\* claim, its rollback and its skips).
DialedOnce == \A r \in Rows : dials[r] <= 1

\* A settled row is never dialable or live again: no rollback, late callback or
\* stale button revives it (setItemIfDialing, setItemIfPending, the swaps of
\* handleDialOutcome, redialCurrent and takeCallback).
SettledStays ==
  [][\A r \in Rows : st[r] \in Settled => st'[r] \notin {"pending", "dialing", "connected"}]_vars

\* "The one item a run can have live at a time" (state.ts inFlightItem).
OneCallPerRun == \A r, q \in InFlight : r = q

\* The run never dials a person on its own more often than Calls per person
\* allows: redials are the rep's, and a dial cancelled for a callback is not
\* one of the tries (handleDialOutcome requeue, callbackRequeue).
OwnTries(p) == {r \in Rows : /\ row[r].person = p /\ ~row[r].redial /\ dials[r] > 0
                             /\ ~(st[r] = "skipped" /\ canceled[r])}
NoExtraDial == \A p \in People : Cardinality(OwnTries(p)) <= passes

\* A follow-up rolls over only when the person was dialed Calls-per-person times,
\* cancelled dials aside, and never reached (on a call the rep did not skip).
\* It is still so when the miss commits, although rolloverDue read the history
\* before it (handleDialOutcome).
RolloverEarned ==
  [][\A p \in rolled' \ rolled :
       /\ Cardinality({r \in Rows : row[r].person = p /\ log'[r] # "none" /\ ~canceled'[r]}) >= passes
       /\ \A r \in Rows : row[r].person = p /\ log'[r] = "connected" => st'[r] = "skipped"]_vars

\* firstPassTotal is fixed for the life of a started session (routes/dialer.ts).
FirstPassTotal == Cardinality({row[r].ord : r \in
                    {q \in Present : row[q].attempt = 1 /\ ~row[q].redial}})
FirstPassTotalFixed == [][session # "ready" => FirstPassTotal' = FirstPassTotal]_vars

Quiet == msgs = {} /\ \A w \in Workers : pc[w] = "idle"

\* Once every callback has been handled, a row still `dialing` is a phone still
\* ringing: no call's end was lost (handleDialOutcome; the stamp of callId).
NoStuckDial == Quiet => \A r \in Rows : st[r] = "dialing" => call[r] = "ringing"

\* Once every callback has been handled, a connected row whose call is over
\* carries prospectEndedAt, so the rep is offered Redial (handleDialOutcome).
HangUpSeen == Quiet => \A r \in Rows : st[r] = "connected" /\ call[r] = "over" => ended[r]

\* A Stop is not undone: a Resume that read the run before it does not make the
\* run dial again (resumeSession, engine.ts:645-648).
StopStays == [][session = "stopped" => session' # "active"]_vars

\* At most one prospect is in the rep's room (repNext, skipCurrent).
OneProspect == \A r, q \in InRoom : r = q

\* Once a run is over and its handlers are through, nobody is left in the rep's
\* room (stopSession, which releases the room and hangs up a ringing dial only).
RoomReleased == Quiet /\ session \in Over => InRoom = {}

\* A live run never stalls: it dials on until it ends, stops, or waits for the
\* rep on a connected row (advanceSession after every miss, nudgeDueRetries).
NeverStalls ==
  session = "active" ~> session # "active" \/ \E r \in Rows : st[r] = "connected"

\* Every dial settles (onDialerStatus maps every terminal status).
DialSettles == \A r \in Rows : st[r] = "dialing" ~> st[r] # "dialing"

\* No two workers ever hold the right to dial one row, and nobody holds it on a
\* row that is still in the queue or has rung: the claim's swap grants it, the
\* rollback hands it back.  Inductive, and why DialedOnce holds.
Holder(w, r) == pc[w] = "originate" /\ job[w].row = r
Ownership ==
  /\ \A w \in Workers, r \in Rows : Holder(w, r) => st[r] # "pending" /\ dials[r] = 0
  /\ \A v, w \in Workers, r \in Rows : Holder(v, r) /\ Holder(w, r) => v = w
  /\ \A r \in Rows : st[r] \in {"absent", "pending"} => dials[r] = 0
  /\ DialedOnce

LifeOf(status) ==
  CASE status = "absent" -> "absent"
    [] status = "pending" -> "queued"
    [] status \in {"dialing", "connected"} -> "live"
    [] OTHER -> "closed"
Life == [r \in Rows |-> LifeOf(st[r])]
Right == {r \in Rows : \E w \in Workers : Holder(w, r)}

\* The run implements the ledger: a row is dialed once, by the one worker that
\* claimed it while the run was active.
Ledger == INSTANCE DialLedger WITH run <- session, life <- Life, right <- Right, rang <- dials
KeepsLedger == Ledger!LSpec
=============================================================================
