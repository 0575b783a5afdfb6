------------------------------- MODULE SamOutbox -------------------------------
(***************************************************************************)
(* Sam's email outbox (outreach-api email/send.ts, outbox.ts, the delivery *)
(* half of events.ts): the emails of one conversation, the ticks that send *)
(* them through Resend, the gates a due email passes, and what changes     *)
(* them meanwhile.  Ticks may overlap: the queue's policy keeps one job    *)
(* active but cannot stop a handler (jobs/queues.ts:12-19).  One step is   *)
(* one statement or one request; one look-back of the daily cap.           *)
(***************************************************************************)
EXTENDS Naturals, FiniteSets

CONSTANTS
  Workers,      \* send ticks that may run at once
  Emails,       \* email_messages rows, direction out
  Purposes,     \* of "first", "reply", "holding", "practice"
  Practices,    \* is it a practice conversation?  a set of BOOLEAN
  Cap,          \* EMAIL_DAILY_CAP
  MaxAttempts,  \* MAX_SEND_ATTEMPTS
  MaxChanges,   \* bound: changes people, sellers and Salesforce make
  Faults, MaxFaults

ASSUME OutboxAssumption ==
  /\ Emails # {} /\ "nobody" \notin Workers
  /\ Practices \subseteq BOOLEAN
  /\ Cap \in Nat /\ MaxAttempts \in Nat \ {0} /\ MaxChanges \in Nat /\ MaxFaults \in Nat

VARIABLES
  practice,    \* the conversation is an admin's practice conversation
  tenant,      \* organizations.settings.samEmail
  seller,      \* the conversation, the address, the plan and record, the hours
  row,         \* email_messages
  known,       \* Resend's memory of the key email:<id>
  copies,      \* emails Resend delivered, per row
  unheard,     \* rows whose acceptance the tick never recorded
  pc, mem, due, late,  \* late: the keys past their window at a tick's now
  helped,      \* a person has taken this seller over or given them back
  excused,     \* answers canceled while the seller was held back too
  changes, faults

vars == <<practice, tenant, seller, row, known, copies, unheard, pc, mem, due, late,
          helped, excused, changes, faults>>
resend == <<known, copies, unheard>>
world == <<tenant, seller, helped, changes>>
tick == <<due, late>>

RowStatus == {"none", "queued", "sending", "sent", "delivered", "bounced", "complained", "failed", "canceled"}
Answers == {"reply", "holding"}
TenantBlocks == {"disabled", "paused"}
Blocks == TenantBlocks \cup {"ok", "seller", "daily_cap", "outside_window"}
Steps == {"idle", "list", "scan", "facts", "address", "count", "act", "send", "sent", "retry", "rejected"}
PastFacts == {"address", "count", "act", "send", "sent", "retry", "rejected"}

\* why: last_error, when it is a block; old: of the key (23 hours after
\* first_attempt_at); stale: STALE_CLAIM_MS after claimed_at; by: claimed_at.
NoRow == [st |-> "none", purpose |-> "first", tries |-> 0, due |-> FALSE, by |-> "nobody",
          first |-> FALSE, old |-> FALSE, stale |-> FALSE, id |-> FALSE, why |-> "ok"]
AnyEmail == CHOOSE e \in Emails : TRUE
\* A tick's row: the claim's attempt, the verdict, and whether the seller's own
\* rules hold it back; escaped: the seller was stopped after these facts.
NoMem == [row |-> AnyEmail, tries |-> 0, first |-> FALSE, block |-> "ok", held |-> FALSE, escaped |-> FALSE]

Init ==
  /\ practice \in Practices
  /\ tenant = [enabled |-> TRUE, paused |-> FALSE]
  /\ seller \in [status : {"open"}, person : {FALSE}, flag : {FALSE}, warm : {TRUE},
                 barred : {FALSE}, hours : BOOLEAN]
  /\ row = [e \in Emails |-> NoRow]
  /\ known = [e \in Emails |-> "no"] /\ copies = [e \in Emails |-> 0] /\ unheard = {}
  /\ pc = [w \in Workers |-> "idle"] /\ mem = [w \in Workers |-> NoMem]
  /\ due = [w \in Workers |-> {}] /\ late = [w \in Workers |-> {}]
  /\ helped = FALSE /\ excused = {} /\ changes = 0 /\ faults = 0

Fault(f) == f \in Faults /\ faults < MaxFaults /\ faults' = faults + 1
At(w, step) == pc[w] = step
Goto(w, step, m) ==
  /\ pc' = [pc EXCEPT ![w] = step]
  /\ mem' = [mem EXCEPT ![w] = m]
  /\ UNCHANGED practice
Row(w) == row[mem[w].row]
\* holds: the row is sending and claimed_at is still this claim's.
Holds(w) == Row(w).st = "sending" /\ Row(w).by = w
Outside == UNCHANGED <<practice, pc, mem, tick, excused, faults>>

-----------------------------------------------------------------------------
(* Queueing an email: queueEmail, queueEmailOnce.                          *)

Pending == \E e \in Emails : row[e].st \in {"queued", "sending"}
Fits(p) == IF practice THEN p # "first" ELSE p # "practice"

Queue(e, p) ==
  /\ row[e].st = "none" /\ Fits(p)
  /\ p \in {"first", "practice"} => ~Pending
  /\ row' = [row EXCEPT ![e] = [NoRow EXCEPT !.st = "queued", !.purpose = p, !.due = practice \/ seller.hours]]
  /\ Outside /\ UNCHANGED <<resend, world>>

-----------------------------------------------------------------------------
(* Time: a wait ends, a claim goes stale, a key gets old, Resend forgets.  *)

Due(e) ==
  /\ row[e].st = "queued" /\ ~row[e].due
  /\ row' = [row EXCEPT ![e].due = TRUE]
  /\ Outside /\ UNCHANGED <<resend, world>>

\* STALE_CLAIM_MS after the claim's now, its tick dead or merely slow.
Stale(e) ==
  /\ row[e].st = "sending" /\ ~row[e].stale
  /\ row' = [row EXCEPT ![e].stale = TRUE]
  /\ IF \E w \in Workers : pc[w] \in PastFacts \cup {"facts"} /\ mem[w].row = e /\ row[e].by = w
     THEN Fault("slow") ELSE UNCHANGED faults
  /\ UNCHANGED <<practice, resend, world, pc, mem, tick, excused>>

\* IDEMPOTENCY_WINDOW_MS after first_attempt_at.
KeyAges(e) ==
  /\ row[e].st \in {"queued", "sending"} /\ row[e].first /\ ~row[e].old
  /\ row' = [row EXCEPT ![e].old = TRUE]
  /\ Outside /\ UNCHANGED <<resend, world>>

\* Resend keeps a key 24 hours from the attempt it took: an hour more than the
\* row's window, and no tick lasts an hour.
Forget(e) ==
  /\ known[e] = "yes" /\ (row[e].first => row[e].old)
  /\ \A w \in Workers : At(w, "idle") \/ e \in late[w]
  /\ known' = [known EXCEPT ![e] = "forgotten"]
  /\ Outside /\ UNCHANGED <<row, copies, unheard, world>>

-----------------------------------------------------------------------------
(* The people, the seller and Salesforce.                                  *)

Change == changes < MaxChanges /\ changes' = changes + 1
Stopping == mem' = [w \in Workers |-> IF pc[w] \in PastFacts THEN [mem[w] EXCEPT !.escaped = TRUE] ELSE mem[w]]

\* setSamEmailEnabled: turning it on clears a pause.
Switch ==
  /\ Change
  /\ tenant' = IF tenant.enabled THEN [tenant EXCEPT !.enabled = FALSE]
               ELSE [enabled |-> TRUE, paused |-> FALSE]
  /\ Outside /\ UNCHANGED <<row, resend, seller, helped>>

\* setHandler: to a person; back to Sam, which clears the flag.
TakeOver ==
  /\ Change /\ ~seller.person
  /\ seller' = [seller EXCEPT !.person = TRUE] /\ helped' = TRUE
  /\ Outside /\ UNCHANGED <<row, resend, tenant>>

GiveBack ==
  /\ Change /\ (seller.person \/ seller.flag)
  /\ seller' = [seller EXCEPT !.person = FALSE, !.flag = FALSE] /\ helped' = TRUE
  /\ Outside /\ UNCHANGED <<row, resend, tenant>>

\* setStatusFromCall: an appointment books an open conversation.
Book ==
  /\ Change /\ seller.status = "open"
  /\ seller' = [seller EXCEPT !.status = "booked"]
  /\ Outside /\ UNCHANGED <<row, resend, tenant, helped>>

\* stopSeller, opted out; of a practice conversation only the row.
StoppedBy(reasonSuppresses) ==
  [seller EXCEPT !.status = "stopped", !.barred = @ \/ (reasonSuppresses /\ ~practice)]

Stop ==
  /\ Change /\ seller.status # "stopped"
  /\ \E suppresses \in BOOLEAN : seller' = StoppedBy(suppresses)
  /\ Stopping
  /\ UNCHANGED <<practice, pc, tick, excused, faults, row, resend, tenant, helped>>

\* A flag raised elsewhere, the address suppressed or opted out in Salesforce,
\* the plan's approval gone or the record closed.
Spoil ==
  /\ Change
  /\ \E f \in {"flag", "barred", "warm"} :
       /\ seller[f] = (f = "warm")
       /\ seller' = [seller EXCEPT ![f] = ~@]
  /\ Outside /\ UNCHANGED <<row, resend, tenant, helped>>

HoursOpen ==
  /\ ~seller.hours /\ seller' = [seller EXCEPT !.hours = TRUE]
  /\ Outside /\ UNCHANGED <<row, resend, tenant, helped, changes>>

HoursClose ==
  /\ Change /\ seller.hours
  /\ seller' = [seller EXCEPT !.hours = FALSE]
  /\ Outside /\ UNCHANGED <<row, resend, tenant, helped>>

-----------------------------------------------------------------------------
(* sendDueEmails: reap, list, then claim, gate and send one row at a time. *)

\* mutant: a stale claim stays with the tick that took it.
ReapedNone(r) == r

\* reapStaleClaims, as of the tick's now.
Reaped(r) ==
  IF r.st # "sending" \/ ~r.stale THEN r
  ELSE IF (r.first /\ r.old) \/ r.tries >= MaxAttempts
  THEN [r EXCEPT !.st = "failed", !.stale = FALSE]
  ELSE [r EXCEPT !.st = "queued", !.by = "nobody", !.due = TRUE, !.stale = FALSE]

Reap(w) ==
  /\ At(w, "idle")
  /\ row' = [e \in Emails |-> Reaped(row[e])]
  /\ late' = [late EXCEPT ![w] = {e \in Emails : row[e].first /\ row[e].old}]
  /\ Goto(w, "list", NoMem)
  /\ UNCHANGED <<resend, world, due, excused, faults>>

List(w) ==
  /\ At(w, "list")
  /\ due' = [due EXCEPT ![w] = {e \in Emails : row[e].st = "queued" /\ row[e].due}]
  /\ Goto(w, "scan", NoMem)
  /\ UNCHANGED <<row, resend, world, late, excused, faults>>

\* mutant: the claim does not stamp claimed_at.
ClaimUndated(w) ==
  /\ At(w, "scan")
  /\ \E e \in due[w] :
       /\ due' = [due EXCEPT ![w] = @ \ {e}]
       /\ IF row[e].st = "queued" /\ row[e].due
          THEN /\ row' = [row EXCEPT ![e].st = "sending", ![e].tries = @ + 1, ![e].stale = FALSE]
               /\ Goto(w, "facts", [NoMem EXCEPT !.row = e, !.tries = row[e].tries + 1, !.first = row[e].first])
          ELSE row' = row /\ Goto(w, "scan", NoMem)
  /\ UNCHANGED <<resend, world, late, excused, faults>>

Claim(w) ==
  /\ At(w, "scan")
  /\ \E e \in due[w] :
       /\ due' = [due EXCEPT ![w] = @ \ {e}]
       /\ IF row[e].st = "queued" /\ row[e].due
          THEN /\ row' = [row EXCEPT ![e].st = "sending", ![e].tries = @ + 1, ![e].by = w, ![e].stale = FALSE]
               /\ Goto(w, "facts", [NoMem EXCEPT !.row = e, !.tries = row[e].tries + 1, !.first = row[e].first])
          ELSE row' = row /\ Goto(w, "scan", NoMem)
  /\ UNCHANGED <<resend, world, late, excused, faults>>

EndTick(w) ==
  /\ At(w, "scan") /\ due[w] = {}
  /\ late' = [late EXCEPT ![w] = {}]
  /\ Goto(w, "idle", NoMem)
  /\ UNCHANGED <<row, resend, world, due, excused, faults>>

-----------------------------------------------------------------------------
(* evaluateSend: loadFacts, sellerHold, capOrWindow; the first rule wins.  *)

SwitchBlock == IF ~tenant.enabled THEN "disabled" ELSE IF tenant.paused THEN "paused" ELSE "ok"

\* Rules 3 to 7, from the one read of loadFacts.
ConversationHolds(p) ==
  \/ p = "first" /\ ~seller.warm
  \/ seller.status = "stopped"
  \/ seller.status = "booked" /\ p # "holding"
  \/ seller.person
  \/ seller.flag /\ p \in {"first", "reply"}

\* mutant: the gates are passed once, not before every attempt.
ReadFactsOnce(w) ==
  /\ At(w, "facts")
  /\ Goto(w, IF mem[w].tries > 1 THEN "act" ELSE "address",
          [mem[w] EXCEPT !.block = IF mem[w].tries > 1 THEN "ok" ELSE SwitchBlock,
                         !.held = ~practice /\ ConversationHolds(Row(w).purpose)])
  /\ UNCHANGED <<row, resend, world, tick, excused, faults>>

ReadFacts(w) ==
  /\ At(w, "facts")
  /\ Goto(w, "address", [mem[w] EXCEPT !.block = SwitchBlock,
                                       !.held = ~practice /\ ConversationHolds(Row(w).purpose)])
  /\ UNCHANGED <<row, resend, world, tick, excused, faults>>

\* Rules 2, 8 and 9: hasApprovedPlan and addressBlocks, read after the rest.
ReadAddress(w) ==
  /\ At(w, "address")
  /\ LET held == mem[w].held \/ (~practice /\ (seller.barred \/ (Row(w).purpose = "first" /\ ~seller.warm)))
         block == IF mem[w].block # "ok" THEN mem[w].block ELSE IF held THEN "seller" ELSE "ok"
     IN Goto(w, IF block = "ok" THEN "count" ELSE "act", [mem[w] EXCEPT !.held = held, !.block = block])
  /\ UNCHANGED <<row, resend, world, tick, excused, faults>>

\* mutant: an email on its way does not count yet.
OutSettled == {e \in Emails : row[e].st \in {"sent", "delivered"}}

\* emailsOutInLastDay, but for the tick's own row.
Out == {e \in Emails : row[e].st \in {"sending", "sent", "delivered"}}

ReadCount(w) ==
  /\ At(w, "count")
  /\ Goto(w, "act", [mem[w] EXCEPT !.block =
       IF Cardinality(Out \ {mem[w].row}) >= Cap THEN "daily_cap"
       ELSE IF ~practice /\ ~seller.hours THEN "outside_window" ELSE "ok"])
  /\ UNCHANGED <<row, resend, world, tick, excused, faults>>

-----------------------------------------------------------------------------
(* wait, cancel, deliver: every write only while the claim holds the row.  *)

\* mutant: the write does not ask for the claim.
SettleBlind(w, r) == row' = [row EXCEPT ![mem[w].row] = r]

Settle(w, r) == row' = IF Holds(w) THEN [row EXCEPT ![mem[w].row] = r] ELSE row
NextRow(w) == Goto(w, "scan", NoMem)
Requeued(r) == [r EXCEPT !.st = "queued", !.due = FALSE, !.by = "nobody", !.stale = FALSE]
Failed(r) == [r EXCEPT !.st = "failed", !.stale = FALSE]

\* mutant: only the reaper looks at the key's age.
KeyUnchecked(w) == FALSE

KeyExpired(w) == mem[w].first /\ mem[w].row \in late[w]

\* Outside the hours: the attempt is given back, unless the opening comes after
\* the key's window.
Wait(w) ==
  /\ At(w, "act") /\ mem[w].block = "outside_window"
  /\ \E tooLate \in BOOLEAN :
       /\ tooLate => mem[w].first
       /\ KeyExpired(w) => tooLate
       /\ Settle(w, IF tooLate THEN Failed(Row(w))
                    ELSE [Requeued(Row(w)) EXCEPT !.tries = IF @ = 0 THEN 0 ELSE @ - 1])
  /\ NextRow(w)
  /\ UNCHANGED <<resend, world, tick, excused, faults>>

\* mutant: the cap's cancel asks nobody to answer.
NeedsPersonTenant(w) ==
  /\ mem[w].block \in TenantBlocks
  /\ Row(w).purpose \in Answers /\ ~practice /\ ~mem[w].held

NeedsPerson(w) ==
  /\ mem[w].block \in TenantBlocks \cup {"daily_cap"}
  /\ Row(w).purpose \in Answers /\ ~practice /\ ~mem[w].held

\* cancel and, in its transaction, the flag of an answer nobody else holds back.
Cancel(w) ==
  /\ At(w, "act") /\ mem[w].block \in TenantBlocks \cup {"seller", "daily_cap"}
  /\ Settle(w, [Row(w) EXCEPT !.st = "canceled", !.why = mem[w].block, !.stale = FALSE])
  /\ seller' = [seller EXCEPT !.flag = @ \/ (Holds(w) /\ NeedsPerson(w))]
  /\ excused' = IF mem[w].held THEN excused \cup {mem[w].row} ELSE excused
  /\ NextRow(w)
  /\ UNCHANGED <<resend, tenant, helped, changes, tick, faults>>

\* deliver: a blank or an expired row fails; commitToSend dates the key.
FailBeforeSend(w) ==
  /\ At(w, "act") /\ mem[w].block = "ok"
  /\ IF KeyExpired(w) THEN UNCHANGED faults ELSE Fault("blank")
  /\ Settle(w, Failed(Row(w)))
  /\ NextRow(w)
  /\ UNCHANGED <<resend, world, tick, excused>>

Commit(w) ==
  /\ At(w, "act") /\ mem[w].block = "ok" /\ ~KeyExpired(w)
  /\ Settle(w, [Row(w) EXCEPT !.first = TRUE])
  /\ IF Holds(w) THEN Goto(w, "send", mem[w]) ELSE NextRow(w)
  /\ UNCHANGED <<resend, world, tick, excused, faults>>

\* Resend answers a repeat from the first attempt while it knows the key.
Accept(e) ==
  /\ copies' = IF known[e] = "yes" THEN copies ELSE [copies EXCEPT ![e] = @ + 1]
  /\ known' = [known EXCEPT ![e] = "yes"]

Send(w) ==
  /\ At(w, "send")
  /\ Accept(mem[w].row)
  /\ Goto(w, "sent", mem[w])
  /\ UNCHANGED <<row, unheard, world, tick, excused, faults>>

\* A timeout, a network failure or an unreadable 200, after Resend took it.
SendUnanswered(w) ==
  /\ At(w, "send") /\ Fault("lost")
  /\ Accept(mem[w].row) /\ unheard' = unheard \cup {mem[w].row}
  /\ Goto(w, "retry", mem[w])
  /\ UNCHANGED <<row, world, tick, excused>>

\* 429, 5xx or a request still in flight: retry; another 4xx: rejected.
SendRefused(w) ==
  /\ At(w, "send") /\ Fault("error")
  /\ \E answer \in {"retry", "rejected"} : Goto(w, answer, mem[w])
  /\ UNCHANGED <<row, resend, world, tick, excused>>

\* applyAnswer.
MarkSent(w) ==
  /\ At(w, "sent")
  /\ Settle(w, [Row(w) EXCEPT !.st = "sent", !.id = TRUE, !.stale = FALSE])
  /\ unheard' = IF Holds(w) THEN unheard \ {mem[w].row} ELSE unheard \cup {mem[w].row}
  /\ NextRow(w)
  /\ UNCHANGED <<known, copies, world, tick, excused, faults>>

Retry(w) ==
  /\ At(w, "retry") \/ At(w, "rejected")
  /\ Settle(w, IF At(w, "retry") /\ mem[w].tries < MaxAttempts THEN Requeued(Row(w)) ELSE Failed(Row(w)))
  /\ NextRow(w)
  /\ UNCHANGED <<resend, world, tick, excused, faults>>

\* A throw leaves the row sending and goes on; a crash ends the tick.
Missed(w) == unheard' = IF At(w, "sent") THEN unheard \cup {mem[w].row} ELSE unheard
Throw(w) ==
  /\ pc[w] \in PastFacts \cup {"facts"} /\ pc[w] # "send" /\ Fault("db")
  /\ Missed(w) /\ NextRow(w)
  /\ UNCHANGED <<row, known, copies, world, tick, excused>>

Crash(w) ==
  /\ ~At(w, "idle") /\ Fault("crash")
  /\ Missed(w) /\ Goto(w, "idle", NoMem)
  /\ due' = [due EXCEPT ![w] = {}] /\ late' = [late EXCEPT ![w] = {}]
  /\ UNCHANGED <<row, known, copies, world, excused>>

-----------------------------------------------------------------------------
(* handleDeliveryEvent: in any order, more than once, matched by resend_id. *)

Move(e, st, from) == row[e].id /\ row[e].st \in from /\ row' = [row EXCEPT ![e].st = st]

Delivered(e) ==
  /\ Move(e, "delivered", {"sending", "sent"})
  /\ Outside /\ UNCHANGED <<resend, world>>

\* email.failed, email.suppressed.
Undelivered(e) ==
  /\ Change /\ Move(e, "failed", {"sending", "sent"})
  /\ Outside /\ UNCHANGED <<resend, tenant, seller, helped>>

Bounced(e) ==
  /\ Change /\ Move(e, "bounced", {"sending", "sent", "delivered", "failed"})
  /\ seller' = [seller EXCEPT !.barred = @ \/ ~practice]
  /\ Outside /\ UNCHANGED <<resend, tenant, helped>>

\* applyComplaint, one transaction: stop, suppress, pause and switch off.
Complained(e) ==
  /\ Change /\ Move(e, "complained", {"sending", "sent", "delivered", "bounced", "failed"})
  /\ seller' = StoppedBy(TRUE) /\ Stopping
  /\ tenant' = [enabled |-> FALSE, paused |-> TRUE]
  /\ UNCHANGED <<practice, resend, helped, pc, tick, excused, faults>>

-----------------------------------------------------------------------------
Tick(w) == Reap(w) \/ List(w) \/ Claim(w) \/ EndTick(w)
Work(w) ==
  \/ ReadFacts(w) \/ ReadAddress(w) \/ ReadCount(w) \/ Wait(w) \/ Cancel(w)
  \/ (KeyExpired(w) /\ FailBeforeSend(w)) \/ Commit(w) \/ Send(w) \/ MarkSent(w) \/ Retry(w)
Failure(w) ==
  \/ (~KeyExpired(w) /\ FailBeforeSend(w))
  \/ SendUnanswered(w) \/ SendRefused(w) \/ Throw(w) \/ Crash(w)
Events == \E e \in Emails : Delivered(e) \/ Undelivered(e) \/ Bounced(e) \/ Complained(e)
People == Switch \/ TakeOver \/ GiveBack \/ Book \/ Stop \/ Spoil \/ HoursOpen \/ HoursClose
Time == \E e \in Emails : Due(e) \/ Stale(e) \/ KeyAges(e) \/ Forget(e)

Next ==
  \/ \E w \in Workers : Tick(w) \/ Work(w) \/ Failure(w)
  \/ \E e \in Emails : \E p \in Purposes : Queue(e, p)
  \/ Events \/ People \/ Time

Spec == Init /\ [][Next]_vars

\* The tick comes round, its statements and requests return, waits and stale
\* claims run out, and the seller's morning comes.
Fairness ==
  /\ \A w \in Workers : WF_vars(Tick(w) \/ Work(w))
  /\ \A e \in Emails : WF_vars(Due(e)) /\ WF_vars(Stale(e))
  /\ WF_vars(HoursOpen)
FairSpec == Spec /\ Fairness

-----------------------------------------------------------------------------
EmailRow == [st : RowStatus, purpose : Purposes \cup {"first"}, tries : Nat, due : BOOLEAN,
             by : Workers \cup {"nobody"}, first : BOOLEAN, old : BOOLEAN,
             stale : BOOLEAN, id : BOOLEAN, why : Blocks]
Seller == [status : {"open", "booked", "stopped"}, person : BOOLEAN, flag : BOOLEAN,
           warm : BOOLEAN, barred : BOOLEAN, hours : BOOLEAN]
Mem == [row : Emails, tries : Nat, first : BOOLEAN, block : Blocks, held : BOOLEAN, escaped : BOOLEAN]

TypeWorld ==
  /\ practice \in BOOLEAN
  /\ tenant \in [enabled : BOOLEAN, paused : BOOLEAN] /\ seller \in Seller
  /\ helped \in BOOLEAN /\ changes \in Nat /\ faults \in Nat
TypeRows ==
  /\ row \in [Emails -> EmailRow]
  /\ \A e \in Emails : row[e].st = "sending" => row[e].by # "nobody"
TypeResend ==
  /\ known \in [Emails -> {"no", "yes", "forgotten"}]
  /\ copies \in [Emails -> Nat] /\ unheard \subseteq Emails
TypeTicks ==
  /\ pc \in [Workers -> Steps] /\ mem \in [Workers -> Mem]
  /\ due \in [Workers -> SUBSET Emails] /\ late \in [Workers -> SUBSET Emails]
  /\ excused \subseteq Emails

\* Every variable has its type, and a row being sent its claim.
TypeOK == TypeWorld /\ TypeRows /\ TypeResend /\ TypeTicks

\* send.ts:14-23: one copy of an email to the seller, whatever is lost, dies or
\* overlaps, and however long it waits.
SentOnce == \A e \in Emails : copies[e] <= 1

\* send.ts:11-13: emails the outbox knows to be out never pass the cap, in
\* whatever order two ticks claim and count.
CapHolds == Cardinality({e \in Emails : row[e].st \in {"sent", "delivered"}}) <= Cap

\* send.ts:11-13, the same of the emails that reached the seller, though the answer
\* of one was lost and it is queued again.
NoFourth == Cardinality({e \in Emails : copies[e] > 0}) <= Cap

\* send.ts:25-33: an answer canceled for the switch, the pause or the cap has a
\* person on it, unless the seller was held back anyway.
AnswerHeld ==
  \A e \in Emails :
    row[e].st = "canceled" /\ row[e].purpose \in Answers /\ row[e].why # "seller" /\ ~practice
      => e \in excused \/ seller.flag \/ helped

\* outbox.ts:7-10, send.ts:11: a copy goes out after the seller stopped only if
\* its gates had been passed before.
StopHolds ==
  [][\A e \in Emails : copies'[e] > copies[e] /\ seller.status = "stopped" /\ ~practice
       => \E w \in Workers : mem[w].row = e /\ mem[w].escaped]_vars

\* send.ts:4-7, events.ts:16-19: a late answer or event never brings back a row
\* that is over, nor one that is out.
Rank(st) == CASE st = "none" -> 0 [] st \in {"queued", "sending"} -> 1 [] st = "sent" -> 2
              [] st = "delivered" -> 3 [] st \in {"failed", "canceled"} -> 4 [] st = "bounced" -> 5
              [] st = "complained" -> 6
RowForward == [][\A e \in Emails : Rank(row'[e].st) >= Rank(row[e].st)]_vars

\* send.ts:21-23, 111-118: every queued email is sent, failed or canceled.
EmailSettles == \A e \in Emails : row[e].st = "queued" ~> row[e].st \notin {"none", "queued", "sending"}
=============================================================================
