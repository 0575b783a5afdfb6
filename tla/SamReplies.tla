------------------------------ MODULE SamReplies ------------------------------
(***************************************************************************)
(* A seller's reply (outreach-api email/inbound.ts, inbound-decide.ts) on  *)
(* the queue of stored webhook events (email/events.ts): the tick leases   *)
(* due events, reads the reply back from Resend, stores it once, and in    *)
(* one transaction decides, asks Sam's writer, acts and marks it handled.  *)
(* The replies here are of one seller's conversation.  One step is one     *)
(* statement, one request or one transaction; the writer's call, minutes   *)
(* long, runs inside the handling transaction and is a step of its own.    *)
(***************************************************************************)
EXTENDS Naturals, FiniteSets

CONSTANTS
  Ticks,        \* event ticks that may run at once
  Events,       \* resend_webhook_events rows
  Replies,      \* emails a seller sent
  Names,        \* which reply each event announces
  Batch,        \* RECEIVED_BATCH
  MaxAttempts,  \* MAX_EVENT_ATTEMPTS
  MaxChanges,   \* bound: what people and the tenant change meanwhile
  Faults, MaxFaults

ASSUME RepliesAssumption ==
  /\ Events # {} /\ "nobody" \notin Ticks /\ Names \in [Events -> Replies]
  /\ Batch \in Nat /\ MaxAttempts \in Nat \ {0} /\ MaxChanges \in Nat /\ MaxFaults \in Nat

VARIABLES
  event,     \* resend_webhook_events
  reply,     \* what each reply is, and email_messages (direction in)
  lock,      \* who holds the stored reply's row lock
  seller,    \* the conversation, and whether its address may be emailed
  emailOn, crowded,  \* Sam's email is on; LOOP_GUARD_EMAILS are out
  timeline, acted, queued,  \* per reply: timeline events, transactions, answers
  pc, mem, todo,
  changes, faults

vars == <<event, reply, lock, seller, emailOn, crowded, timeline, acted, queued,
          pc, mem, todo, changes, faults>>
effects == <<timeline, acted, queued>>
world == <<seller, emailOn, crowded, changes>>

\* What a reply says: to the unsubscribe mailbox (however automatic), an
\* automatic answer, a request to stop, words of somebody else, or of the seller.
Kinds == {"mailbox", "auto", "stop", "other", "words"}
Ended == {"done", "ignored", "failed"}
Writer == {"send", "draft_rejected", "flag", "opt_out", "no_reply", "failed"}
Decisions == {"record_only", "opt_out", "flag", "ask_sam"}
Steps == {"idle", "scan", "fetch", "lookup", "insert", "lock", "decide", "act", "ask", "peek",
          "alert", "settleDone", "settleIgnored", "retry", "dead"}
InTransaction == {"decide", "act", "ask"}
AnyEvent == CHOOSE e \in Events : TRUE
NoMem == [ev |-> AnyEvent, st |-> "open", person |-> FALSE, flag |-> FALSE, on |-> TRUE, decision |-> "record_only"]

Init ==
  /\ event = [e \in Events |-> [st |-> "pending", tries |-> 0, due |-> TRUE]]
  /\ reply \in [Replies -> [kind : Kinds, stored : {FALSE}, handled : {FALSE}]]
  /\ lock = [r \in Replies |-> "nobody"]
  /\ seller = [status |-> "open", person |-> FALSE, flag |-> FALSE, barred |-> FALSE]
  /\ emailOn = TRUE /\ crowded = FALSE
  /\ timeline = [r \in Replies |-> 0] /\ acted = [r \in Replies |-> 0]
  /\ queued = [r \in Replies |-> 0]
  /\ pc = [k \in Ticks |-> "idle"] /\ mem = [k \in Ticks |-> NoMem] /\ todo = [k \in Ticks |-> {}]
  /\ changes = 0 /\ faults = 0

Fault(f) == f \in Faults /\ faults < MaxFaults /\ faults' = faults + 1
At(k, step) == pc[k] = step
Goto(k, step, m) == pc' = [pc EXCEPT ![k] = step] /\ mem' = [mem EXCEPT ![k] = m]
Step(k, step) == Goto(k, step, IF step \in {"idle", "scan"} THEN NoMem ELSE mem[k])
Ev(k) == event[mem[k].ev]
R(k) == Names[mem[k].ev]
Holding(e) == \E k \in Ticks : e \in todo[k] \/ (pc[k] \notin {"idle", "scan"} /\ mem[k].ev = e)
Plus(f, r) == f' = [f EXCEPT ![r] = @ + 1]

-----------------------------------------------------------------------------
(* The lease or the backoff ends; the people and the tenant.               *)

DueAgain(e) ==
  /\ event[e].st = "pending" /\ ~event[e].due
  /\ event' = [event EXCEPT ![e].due = TRUE]
  /\ IF Holding(e) THEN Fault("overrun") ELSE UNCHANGED faults
  /\ UNCHANGED <<reply, lock, effects, world, pc, mem, todo>>

Change == changes < MaxChanges /\ changes' = changes + 1
Outside == UNCHANGED <<event, reply, lock, effects, pc, mem, todo, faults>>

\* stopSeller elsewhere (the unsubscribe page, a call); a booking; a person; a
\* flag raised elsewhere; the address suppressed or opted out in Salesforce.
SellerMoves ==
  /\ Change
  /\ \/ seller.status # "stopped" /\ seller' = [seller EXCEPT !.status = "stopped"]
     \/ seller.status = "open" /\ seller' = [seller EXCEPT !.status = "booked"]
     \/ ~seller.person /\ seller' = [seller EXCEPT !.person = TRUE]
     \/ ~seller.flag /\ seller' = [seller EXCEPT !.flag = TRUE]
     \/ ~seller.barred /\ seller' = [seller EXCEPT !.barred = TRUE]
  /\ Outside /\ UNCHANGED <<emailOn, crowded>>

\* setHandler back to Sam clears the flag.
GiveBack ==
  /\ Change /\ (seller.person \/ seller.flag)
  /\ seller' = [seller EXCEPT !.person = FALSE, !.flag = FALSE]
  /\ Outside /\ UNCHANGED <<emailOn, crowded>>

TenantMoves ==
  /\ Change
  /\ \/ emailOn' = ~emailOn /\ crowded' = crowded
     \/ crowded' = ~crowded /\ emailOn' = emailOn
  /\ Outside /\ UNCHANGED seller

-----------------------------------------------------------------------------
(* processEmailEvents: claimDue leases, then each event in turn.           *)

\* mutant: the claim is a status, which nobody takes back after a crash.
TakenForGood(r) == [r EXCEPT !.st = "taken", !.due = FALSE]
\* The lease: next_attempt_at ten minutes out.
Leased(r) == [r EXCEPT !.due = FALSE]

ClaimDue(k) ==
  /\ At(k, "idle")
  /\ \E S \in SUBSET {e \in Events : event[e].st = "pending" /\ event[e].due} :
       /\ Cardinality(S) <= Batch
       /\ S = {} => \A e \in Events : ~(event[e].st = "pending" /\ event[e].due)
       /\ event' = [e \in Events |-> IF e \in S THEN Leased(event[e]) ELSE event[e]]
       /\ todo' = [todo EXCEPT ![k] = S]
  /\ Goto(k, "scan", NoMem)
  /\ UNCHANGED <<reply, lock, effects, world, faults>>

NextEvent(k) ==
  /\ At(k, "scan") /\ todo[k] # {}
  /\ \E e \in todo[k] :
       /\ todo' = [todo EXCEPT ![k] = @ \ {e}]
       /\ Goto(k, "fetch", [NoMem EXCEPT !.ev = e])
  /\ UNCHANGED <<event, reply, lock, effects, world, faults>>

EndTick(k) ==
  /\ At(k, "scan") /\ todo[k] = {}
  /\ Step(k, "idle")
  /\ UNCHANGED <<event, reply, lock, effects, world, todo, faults>>

Unchanged(k) == UNCHANGED <<event, reply, lock, effects, world, todo>>

\* fetchReceived: the email; not yet, or no answer (retry); gone (ignored).
Fetch(k) ==
  /\ At(k, "fetch")
  /\ \/ Step(k, "lookup") /\ UNCHANGED faults
     \/ Fault("unreadable") /\ Step(k, "retry")
     \/ Fault("gone") /\ Step(k, "settleIgnored")
  /\ Unchanged(k)

\* storeReply: the row already there, or the insert and its timeline event,
\* which a conflict on (direction, resend_id) rolls back.
Lookup(k) ==
  /\ At(k, "lookup")
  /\ Step(k, IF reply[R(k)].stored THEN "lock" ELSE "insert")
  /\ Unchanged(k) /\ UNCHANGED faults

Insert(k) ==
  /\ At(k, "insert")
  /\ reply' = [reply EXCEPT ![R(k)].stored = TRUE]
  /\ IF reply[R(k)].stored THEN UNCHANGED timeline ELSE Plus(timeline, R(k))
  /\ Step(k, "lock")
  /\ UNCHANGED <<event, lock, acted, queued, world, todo, faults>>

\* mutant: the lock does not ask whether the reply was handled.
LockableRow(r) == lock[r] = "nobody"
Lockable(r) == lock[r] = "nobody" /\ ~reply[r].handled

\* lockUnhandled: for update skip locked, with the conversation as it is now.
Lock(k) ==
  /\ At(k, "lock")
  /\ IF Lockable(R(k))
     THEN /\ lock' = [lock EXCEPT ![R(k)] = k]
          /\ Goto(k, "decide", [mem[k] EXCEPT !.st = seller.status, !.person = seller.person,
                                              !.flag = seller.flag, !.on = emailOn])
     ELSE lock' = lock /\ Step(k, "peek")
  /\ UNCHANGED <<event, reply, effects, world, todo, faults>>

\* mutant: a seller a person already has is recorded before anything is read.
DecisionPersonFirst(k) ==
  IF mem[k].person THEN "record_only"
  ELSE CASE reply[R(k)].kind \in {"mailbox", "stop"} -> "opt_out"
         [] reply[R(k)].kind = "auto" -> "record_only"
         [] OTHER -> "ask_sam"

\* decideInbound: the first rule that applies; barred and crowded are read now.
Decision(k) ==
  LET m == mem[k] kind == reply[R(k)].kind IN
  IF kind \in {"mailbox", "stop"} THEN "opt_out"
  ELSE IF kind = "auto" \/ m.st = "stopped" THEN "record_only"
  ELSE IF kind = "other" \/ seller.barred \/ m.st = "booked" THEN "flag"
  ELSE IF m.person \/ m.flag THEN "record_only"
  ELSE IF crowded \/ ~m.on THEN "flag"
  ELSE "ask_sam"
Decide(k) ==
  /\ At(k, "decide")
  /\ Goto(k, IF Decision(k) = "ask_sam" THEN "ask" ELSE "act",
           [NoMem EXCEPT !.ev = mem[k].ev, !.decision = Decision(k)])
  /\ Unchanged(k) /\ UNCHANGED faults

\* The transaction commits: what was done, handled_at and the lock together.
Commit(k, newSeller, answer) ==
  /\ seller' = newSeller
  /\ reply' = [reply EXCEPT ![R(k)].handled = TRUE]
  /\ lock' = [lock EXCEPT ![R(k)] = "nobody"]
  /\ Plus(acted, R(k))
  /\ IF answer THEN Plus(queued, R(k)) ELSE UNCHANGED queued
  /\ Step(k, IF newSeller.flag /\ ~seller.flag THEN "alert" ELSE "settleDone")
  /\ UNCHANGED <<event, timeline, emailOn, crowded, changes, todo, faults>>

Stopped == [seller EXCEPT !.status = "stopped"]
Flagged == [seller EXCEPT !.flag = TRUE]

\* act, when nobody is asked.
Act(k) ==
  /\ At(k, "act")
  /\ Commit(k, CASE mem[k].decision = "opt_out" -> Stopped [] mem[k].decision = "flag" -> Flagged
                 [] OTHER -> seller, FALSE)

\* askSam: what the writer said, or that she said nothing usable.
Ask(k) ==
  /\ At(k, "ask")
  /\ \E said \in Writer :
       Commit(k, CASE said \in {"draft_rejected", "flag", "failed"} -> Flagged
                   [] said = "opt_out" -> Stopped
                   [] OTHER -> seller, said \in {"send", "flag"})

\* mutant: a reply another tick holds counts as done.
PeekDone(k) ==
  /\ At(k, "peek")
  /\ Step(k, "settleDone")
  /\ Unchanged(k) /\ UNCHANGED faults

\* notLockedOutcome.
Peek(k) ==
  /\ At(k, "peek")
  /\ Step(k, IF reply[R(k)].handled THEN "settleDone" ELSE "retry")
  /\ Unchanged(k) /\ UNCHANGED faults

\* raiseNeedsPerson, after the commit; alertDeadLetter, after the last attempt.
Alert(k) ==
  /\ At(k, "alert") \/ At(k, "dead")
  /\ Step(k, IF At(k, "alert") THEN "settleDone" ELSE "scan")
  /\ Unchanged(k) /\ UNCHANGED faults

\* settle and reschedule write only a row still pending.
Settle(k) ==
  /\ At(k, "settleDone") \/ At(k, "settleIgnored")
  /\ event' = IF Ev(k).st # "pending" THEN event
              ELSE [event EXCEPT ![mem[k].ev].st = IF At(k, "settleDone") THEN "done" ELSE "ignored"]
  /\ Step(k, "scan")
  /\ UNCHANGED <<reply, lock, effects, world, todo, faults>>

\* reschedule: backoff, or the last attempt and then the dead letter's alert.
Reschedule(k) ==
  /\ At(k, "retry")
  /\ LET last == Ev(k).tries + 1 >= MaxAttempts IN
     /\ event' = IF Ev(k).st # "pending" THEN event
                 ELSE [event EXCEPT ![mem[k].ev] = [st |-> IF last THEN "failed" ELSE "pending",
                                                    tries |-> Ev(k).tries + 1, due |-> FALSE]]
     /\ Step(k, IF Ev(k).st = "pending" /\ last THEN "dead" ELSE "scan")
  /\ UNCHANGED <<reply, lock, effects, world, todo, faults>>

\* mutant: a throw keeps the reply's lock.
UnlockNothing(k) == lock' = lock
\* A throw rolls the transaction back and counts an attempt; a crash rolls it
\* back and leaves the event to its lease.
Unlock(k) == lock' = [r \in Replies |-> IF lock[r] = k THEN "nobody" ELSE lock[r]]
Throw(k) ==
  /\ pc[k] \in {"lookup", "insert", "lock", "peek"} \cup InTransaction /\ Fault("db")
  /\ Unlock(k) /\ Step(k, "retry")
  /\ UNCHANGED <<event, reply, effects, world, todo>>

Crash(k) ==
  /\ ~At(k, "idle") /\ Fault("crash")
  /\ Unlock(k) /\ Step(k, "idle")
  /\ todo' = [todo EXCEPT ![k] = {}]
  /\ UNCHANGED <<event, reply, effects, world>>

-----------------------------------------------------------------------------
Tick(k) ==
  \/ ClaimDue(k) \/ NextEvent(k) \/ EndTick(k) \/ Fetch(k) \/ Lookup(k) \/ Insert(k) \/ Lock(k)
  \/ Decide(k) \/ Act(k) \/ Ask(k) \/ Peek(k) \/ Alert(k) \/ Settle(k) \/ Reschedule(k)
Next ==
  \/ \E k \in Ticks : Tick(k) \/ Throw(k) \/ Crash(k)
  \/ \E e \in Events : DueAgain(e)
  \/ SellerMoves \/ GiveBack \/ TenantMoves

Spec == Init /\ [][Next]_vars

\* The tick comes round, requests return or time out, leases and backoffs end.
Fairness == (\A k \in Ticks : WF_vars(Tick(k))) /\ (\A e \in Events : WF_vars(DueAgain(e)))
FairSpec == Spec /\ Fairness

-----------------------------------------------------------------------------
EventRow == [st : Ended \cup {"pending"}, tries : Nat, due : BOOLEAN]
Seller == [status : {"open", "booked", "stopped"}, person : BOOLEAN, flag : BOOLEAN, barred : BOOLEAN]
Mem == [ev : Events, st : {"open", "booked", "stopped"}, person : BOOLEAN,
        flag : BOOLEAN, on : BOOLEAN, decision : Decisions]

TypeRows ==
  /\ event \in [Events -> EventRow]
  /\ reply \in [Replies -> [kind : Kinds, stored : BOOLEAN, handled : BOOLEAN]]
  /\ timeline \in [Replies -> Nat] /\ acted \in [Replies -> Nat] /\ queued \in [Replies -> Nat]
TypeWorld ==
  /\ seller \in Seller /\ emailOn \in BOOLEAN /\ crowded \in BOOLEAN
  /\ changes \in Nat /\ faults \in Nat
TypeTicks ==
  /\ lock \in [Replies -> Ticks \cup {"nobody"}]
  /\ pc \in [Ticks -> Steps] /\ todo \in [Ticks -> SUBSET Events] /\ mem \in [Ticks -> Mem]

\* Every variable has its type, and every lock the transaction it is held in.
TypeOK ==
  /\ TypeRows /\ TypeWorld /\ TypeTicks
  /\ \A r \in Replies : lock[r] # "nobody" => pc[lock[r]] \in InTransaction

\* inbound.ts:13-22: a reply is on the timeline once and handled once, and one
\* answer at most is queued, whatever is delivered twice, overlaps or dies.
HandledOnce == \A r \in Replies : timeline[r] <= 1 /\ acted[r] <= 1 /\ queued[r] <= 1

\* inbound-decide.ts:5-6: once a reply that asks to stop is handled, the seller
\* is stopped and stays stopped, and Sam queued no answer to it.
OptOutHonoured ==
  \A r \in Replies :
    reply[r].handled /\ reply[r].kind \in {"mailbox", "stop"} => seller.status = "stopped" /\ queued[r] = 0

\* inbound.ts:16-21, events.ts:14-15: an event is done only once its reply is
\* handled: nothing is settled for a reply another tick may still roll back.
DoneMeansHandled == \A e \in Events : event[e].st = "done" => reply[Names[e]].handled

\* events.ts:8-16: every event ends done, ignored or failed.
EventEnds == \A e \in Events : <>(event[e].st \in Ended)
=============================================================================
