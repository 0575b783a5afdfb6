------------------------------ MODULE TextQueue ------------------------------
(***************************************************************************)
(* Inbound texts (sms/inbound-text-worker.ts): each text becomes a         *)
(* Salesforce Task and an alert email to its rep; a backfilled batch gets  *)
(* one digest email instead.  Each replica runs one tick at a time, two    *)
(* replicas overlap at a deploy.  One step is one statement or one         *)
(* Salesforce request.  The texts here are of one sender to one rep within *)
(* one hour, the scope of the flood guard, and of one batch.               *)
(***************************************************************************)
EXTENDS Naturals, FiniteSets

CONSTANTS
  Replicas,   \* processes that run the tick
  Texts,      \* inbound_messages rows
  MaxTries,   \* MAX_TRIES
  Faults, MaxFaults

VARIABLES
  backfill,   \* the texts are a backfilled batch
  text,       \* inbound_messages
  digest,     \* inbound_text_digests: the batch's row
  tried,      \* create requests issued, per text
  made,       \* Tasks in Salesforce, per text
  mails,      \* alert emails sent, per text
  delivered,  \* digest emails sent
  unheard,    \* Tasks and alerts whose answer or stamp was lost, per text
  overrun,    \* texts whose claim outlived STUCK_AFTER_MS
  pc, mem, todo, stuck,
  faults

TextAssumption == Texts # {} /\ MaxTries \in Nat

vars == <<backfill, text, digest, tried, made, mails, delivered, unheard, overrun,
          pc, mem, todo, stuck, faults>>
sent == <<tried, made, mails, unheard>>
post == <<digest, delivered>>
lists == <<todo, stuck>>

TextStatus == {"pending", "in_flight", "done", "failed"}
Terminal == {"done", "failed"}
DigestStatus == {"none", "pending", "sending", "sent", "failed", "unknown"}
RowSteps == {"match", "create", "stampTask", "alert", "email", "stampEmail", "close", "catch"}
DigestSteps == {"reapDigest", "queue", "scanDigest", "readDigest", "claimDigest", "post",
                "digestSent", "digestUnknown"}
Steps == {"idle", "final", "scan"} \cup RowSteps \cup DigestSteps

NewText == [st |-> "pending", tries |-> 0, task |-> FALSE, alert |-> "none", due |-> TRUE, old |-> FALSE]
NoDigest == [st |-> "none", tries |-> 0, due |-> TRUE, old |-> FALSE]
AnyText == CHOOSE t \in Texts : TRUE
\* The row AS CLAIMED, and this attempt; back: where its alert leads, the row's
\* close or, for an alert after giving up, the tick's loop that gave up.
NoMem == [row |-> AnyText, tries |-> 0, task |-> FALSE, owes |-> FALSE, lost |-> FALSE,
          auth |-> FALSE, back |-> "close"]

Init ==
  /\ backfill \in BOOLEAN
  /\ text = [t \in Texts |-> NewText]
  /\ digest = NoDigest
  /\ tried = [t \in Texts |-> 0] /\ made = [t \in Texts |-> 0]
  /\ mails = [t \in Texts |-> 0] /\ unheard = [t \in Texts |-> 0]
  /\ delivered = 0 /\ overrun = {}
  /\ pc = [w \in Replicas |-> "idle"]
  /\ mem = [w \in Replicas |-> NoMem]
  /\ todo = [w \in Replicas |-> {}] /\ stuck = [w \in Replicas |-> {}]
  /\ faults = 0

Fault(f) == f \in Faults /\ faults < MaxFaults /\ faults' = faults + 1
At(w, step) == pc[w] = step
Goto(w, step, m) ==
  /\ pc' = [pc EXCEPT ![w] = step]
  /\ mem' = [mem EXCEPT ![w] = m]
  /\ UNCHANGED backfill
\* patchRow: the columns named, and updatedAt; no condition but the id.
Patch(t, new) == text' = [text EXCEPT ![t] = [new EXCEPT !.old = FALSE]]
Row(w) == text[mem[w].row]
Plus(f, t) == f' = [f EXCEPT ![t] = @ + 1]
HeldBy(w, t) == pc[w] \in RowSteps /\ mem[w].row = t /\ mem[w].back = "close"

OwesAlert(t) == text[t].alert = "none" /\ ~backfill
Memory(t) == [NoMem EXCEPT !.row = t, !.tries = text[t].tries, !.task = text[t].task, !.owes = OwesAlert(t)]

-----------------------------------------------------------------------------
(* Time.                                                                   *)

TextDue(t) ==
  /\ text[t].st = "pending" /\ ~text[t].due
  /\ text' = [text EXCEPT ![t].due = TRUE]
  /\ UNCHANGED <<backfill, post, sent, overrun, pc, mem, lists, faults>>

\* STUCK_AFTER_MS after the claim: its holder died, or is slower than the
\* limit allows for.
TextStale(t) ==
  /\ text[t].st = "in_flight" /\ ~text[t].old
  /\ text' = [text EXCEPT ![t].old = TRUE]
  /\ IF \E w \in Replicas : HeldBy(w, t)
     THEN Fault("overrun") /\ overrun' = overrun \cup {t}
     ELSE UNCHANGED <<overrun, faults>>
  /\ UNCHANGED <<backfill, post, sent, pc, mem, lists>>

DigestDue ==
  /\ digest.st = "pending" /\ ~digest.due
  /\ digest' = [digest EXCEPT !.due = TRUE]
  /\ UNCHANGED <<backfill, text, delivered, sent, overrun, pc, mem, lists, faults>>

\* DIGEST_STUCK_AFTER_MS after the claim, whoever may still hold it.
DigestStale ==
  /\ digest.st = "sending" /\ ~digest.old
  /\ digest' = [digest EXCEPT !.old = TRUE]
  /\ UNCHANGED <<backfill, text, delivered, sent, overrun, pc, mem, lists, faults>>

-----------------------------------------------------------------------------
(* runInboundTextTick: reap, alert for the rows given up, scan, claim.     *)

Old == {t \in Texts : text[t].st = "in_flight" /\ text[t].old}

\* reapStuckInboundTexts, failExhaustedStuckInboundTexts.
Reap(w) ==
  /\ At(w, "idle")
  /\ text' = [t \in Texts |->
       IF t \notin Old THEN text[t]
       ELSE [text[t] EXCEPT !.st = IF text[t].tries < MaxTries THEN "pending" ELSE "failed", !.old = FALSE]]
  /\ stuck' = [stuck EXCEPT ![w] =
       {[Memory(t) EXCEPT !.back = "final"] : t \in {i \in Old : text[i].tries >= MaxTries /\ OwesAlert(i)}}]
  /\ Goto(w, "final", NoMem)
  /\ UNCHANGED <<post, sent, overrun, todo, faults>>

\* finalAlert for a row the capped reaper failed.
FinalAlert(w) ==
  /\ At(w, "final")
  /\ \E m \in stuck[w] :
       /\ stuck' = [stuck EXCEPT ![w] = @ \ {m}]
       /\ Goto(w, "alert", m)
  /\ UNCHANGED <<text, post, sent, overrun, todo, faults>>

Scan(w) ==
  /\ At(w, "final") /\ stuck[w] = {}
  /\ todo' = [todo EXCEPT ![w] = {t \in Texts : text[t].st = "pending" /\ text[t].due}]
  /\ Goto(w, "scan", NoMem)
  /\ UNCHANGED <<text, post, sent, overrun, stuck, faults>>

Claimable(t) == text[t].st = "pending" /\ text[t].due
Claimed(t) == [text[t] EXCEPT !.st = "in_flight", !.tries = @ + 1]

\* claimInboundText returns the row as claimed.
Claim(w) ==
  /\ At(w, "scan")
  /\ \E t \in todo[w] :
       /\ Claimable(t) /\ text[t].tries < MaxTries
       /\ Patch(t, Claimed(t))
       /\ todo' = [todo EXCEPT ![w] = @ \ {t}]
       /\ Goto(w, "match", [Memory(t) EXCEPT !.tries = @ + 1])
  /\ UNCHANGED <<post, sent, overrun, stuck, faults>>

\* A claim past the cap gives up (giveUpReclaimed): failed, then the alert.
GiveUp(w) ==
  /\ At(w, "scan")
  /\ \E t \in todo[w] :
       /\ Claimable(t) /\ text[t].tries >= MaxTries
       /\ Patch(t, [Claimed(t) EXCEPT !.st = "failed"])
       /\ todo' = [todo EXCEPT ![w] = @ \ {t}]
       /\ IF OwesAlert(t) THEN Goto(w, "alert", [Memory(t) EXCEPT !.back = "scan"])
                          ELSE Goto(w, "scan", NoMem)
  /\ UNCHANGED <<post, sent, overrun, stuck, faults>>

Lose(w) ==
  /\ At(w, "scan")
  /\ \E t \in todo[w] :
       /\ ~Claimable(t)
       /\ todo' = [todo EXCEPT ![w] = @ \ {t}]
  /\ UNCHANGED <<backfill, text, post, sent, overrun, pc, mem, stuck, faults>>

EndScan(w) ==
  /\ At(w, "scan") /\ todo[w] = {}
  /\ Goto(w, "reapDigest", NoMem)
  /\ UNCHANGED <<text, post, sent, overrun, lists, faults>>

-----------------------------------------------------------------------------
(* processInboundText: Task, stamp, alert, stamp, close.                   *)

AfterTask(m) == IF m.owes THEN "alert" ELSE "close"

\* matchSender and the rep's own id.
Match(w) ==
  /\ At(w, "match")
  /\ Goto(w, IF mem[w].task THEN AfterTask(mem[w]) ELSE "create", mem[w])
  /\ UNCHANGED <<text, post, sent, overrun, lists, faults>>

Create(w) ==
  /\ At(w, "create")
  /\ Plus(tried, mem[w].row) /\ Plus(made, mem[w].row)
  /\ Goto(w, "stampTask", mem[w])
  /\ UNCHANGED <<text, post, mails, unheard, overrun, lists, faults>>

\* createTaskOrGiveUp: a failure that a later try may mend goes to the catch;
\* a refusal for good, or the last try's, still alerts the rep.
GiveUpTask(w, permanent) ==
  IF ~permanent /\ mem[w].tries < MaxTries THEN Goto(w, "catch", mem[w])
  ELSE Goto(w, AfterTask(mem[w]), [mem[w] EXCEPT !.lost = TRUE])

CreateRefused(w) ==
  /\ At(w, "create") /\ Fault("error")
  /\ \E permanent \in BOOLEAN : GiveUpTask(w, permanent)
  /\ Plus(tried, mem[w].row)
  /\ UNCHANGED <<text, post, made, mails, unheard, overrun, lists>>

CreateUnanswered(w) ==
  /\ At(w, "create") /\ Fault("lost")
  /\ GiveUpTask(w, FALSE)
  /\ Plus(tried, mem[w].row) /\ Plus(made, mem[w].row) /\ Plus(unheard, mem[w].row)
  /\ UNCHANGED <<text, post, mails, overrun, lists>>

\* mutant: the Task's id is stamped when the row is closed.
StampTaskLate(w) ==
  /\ At(w, "stampTask")
  /\ Goto(w, AfterTask(mem[w]), [mem[w] EXCEPT !.task = TRUE])
  /\ UNCHANGED <<text, post, sent, overrun, lists, faults>>

StampTask(w) ==
  /\ At(w, "stampTask")
  /\ Patch(mem[w].row, [Row(w) EXCEPT !.task = TRUE])
  /\ Goto(w, AfterTask(mem[w]), [mem[w] EXCEPT !.task = TRUE])
  /\ UNCHANGED <<post, sent, overrun, lists, faults>>

AlertedRecently == \E t \in Texts : text[t].alert = "emailed"
\* mutant: the guard holds back the alert of a text that was not logged too.
GuardAll(w) == AlertedRecently
GuardedAlert(w) == mem[w].task /\ AlertedRecently

AfterAlert(w) == Goto(w, mem[w].back, IF mem[w].back = "close" THEN mem[w] ELSE NoMem)

\* alertRep: one email per rep and sender in an hour, but a text that could
\* not be logged is always told.
SkipAlert(w) ==
  /\ At(w, "alert") /\ GuardedAlert(w)
  /\ Patch(mem[w].row, [Row(w) EXCEPT !.alert = "skipped"])
  /\ AfterAlert(w)
  /\ UNCHANGED <<post, sent, overrun, lists, faults>>

ToEmail(w) ==
  /\ At(w, "alert") /\ ~GuardedAlert(w)
  /\ Goto(w, "email", mem[w])
  /\ UNCHANGED <<text, post, sent, overrun, lists, faults>>

Email(w) ==
  /\ At(w, "email")
  /\ Plus(mails, mem[w].row)
  /\ Goto(w, "stampEmail", mem[w])
  /\ UNCHANGED <<text, post, tried, made, unheard, overrun, lists, faults>>

AlertFailed(w, auth) ==
  IF mem[w].back = "close" THEN Goto(w, "catch", [mem[w] EXCEPT !.auth = auth]) ELSE AfterAlert(w)

EmailUnanswered(w) ==
  /\ At(w, "email") /\ Fault("lost")
  /\ Plus(mails, mem[w].row) /\ Plus(unheard, mem[w].row)
  /\ AlertFailed(w, FALSE)
  /\ UNCHANGED <<text, post, tried, made, overrun, lists>>

EmailRefused(w) ==
  /\ At(w, "email")
  /\ \E auth \in BOOLEAN : Fault(IF auth THEN "auth" ELSE "error") /\ AlertFailed(w, auth)
  /\ UNCHANGED <<text, post, sent, overrun, lists>>

StampEmail(w) ==
  /\ At(w, "stampEmail")
  /\ Patch(mem[w].row, [Row(w) EXCEPT !.alert = "emailed"])
  /\ AfterAlert(w)
  /\ UNCHANGED <<post, sent, overrun, lists, faults>>

Close(w) ==
  /\ At(w, "close")
  /\ Patch(mem[w].row, [Row(w) EXCEPT !.st = IF mem[w].lost THEN "failed" ELSE "done"])
  /\ Goto(w, "scan", NoMem)
  /\ UNCHANGED <<post, sent, overrun, lists, faults>>

\* Salesforce is unreachable, or no longer authorized (which no retry mends).
RequestFails(w) ==
  /\ At(w, "match") \/ At(w, "create")
  /\ mem[w].task => mem[w].owes
  /\ \E auth \in BOOLEAN :
       /\ pc[w] = "create" => auth
       /\ Fault(IF auth THEN "auth" ELSE "error")
       /\ Goto(w, "catch", [mem[w] EXCEPT !.auth = auth])
  /\ UNCHANGED <<text, post, sent, overrun, lists>>

Catch(w) ==
  /\ At(w, "catch")
  /\ IF mem[w].auth \/ mem[w].tries >= MaxTries
     THEN Patch(mem[w].row, [Row(w) EXCEPT !.st = "failed"])
     ELSE Patch(mem[w].row, [Row(w) EXCEPT !.st = "pending", !.due = FALSE])
  /\ Goto(w, "scan", NoMem)
  /\ UNCHANGED <<post, sent, overrun, lists, faults>>

-----------------------------------------------------------------------------
(* The digest: read everything, claim, send; an unclear answer is final.   *)

NextDigest(w, step, d) ==
  /\ digest' = [d EXCEPT !.old = FALSE]
  /\ Goto(w, step, NoMem)
  /\ UNCHANGED <<text, sent, overrun, lists>>

\* reapStuckSendingDigests.
ReapDigest(w) ==
  /\ At(w, "reapDigest")
  /\ Goto(w, "queue", NoMem)
  /\ digest' = IF digest.st = "sending" /\ digest.old
               THEN [digest EXCEPT !.st = "unknown", !.old = FALSE] ELSE digest
  /\ UNCHANGED <<text, sent, overrun, lists, delivered, faults>>

BatchReady == backfill /\ \A t \in Texts : text[t].st \in Terminal
\* queueReadyDigests.
QueueDigest(w) ==
  /\ At(w, "queue")
  /\ digest' = IF digest.st = "none" /\ BatchReady THEN [digest EXCEPT !.st = "pending"] ELSE digest
  /\ Goto(w, "scanDigest", NoMem)
  /\ UNCHANGED <<text, sent, overrun, lists, delivered, faults>>

ScanDigest(w) ==
  /\ At(w, "scanDigest")
  /\ IF digest.st = "pending" /\ digest.due
     THEN Goto(w, "readDigest", [NoMem EXCEPT !.tries = digest.tries]) ELSE Goto(w, "idle", NoMem)
  /\ UNCHANGED <<text, post, sent, overrun, lists, faults>>

ReadDigest(w) ==
  /\ At(w, "readDigest")
  /\ Goto(w, "claimDigest", mem[w])
  /\ UNCHANGED <<text, post, sent, overrun, lists, faults>>

\* A failed try: back off, or give up.  seen is the count before the try.
Backoff(seen) ==
  [digest EXCEPT !.st = IF seen + 1 >= MaxTries THEN "failed" ELSE "pending",
                 !.tries = seen + 1, !.due = FALSE]

\* mutant: the write of a failed read is unconditional.
Unclaimed(w) == TRUE
\* patchDigestPreClaim: only onto the pending row this replica read.
StillPending(w) == digest.st = "pending" /\ digest.tries = mem[w].tries

ReadDigestFails(w) ==
  /\ At(w, "readDigest")
  /\ \E f \in {"error", "auth"} :
       /\ Fault(f)
       /\ NextDigest(w, "idle",
            IF ~StillPending(w) THEN digest
            ELSE IF f = "auth" THEN [digest EXCEPT !.st = "failed"] ELSE Backoff(mem[w].tries))
  /\ UNCHANGED delivered

\* claimDigestForSending.
ClaimDigest(w) ==
  /\ At(w, "claimDigest")
  /\ IF digest.st = "pending" /\ digest.due
     THEN digest' = [digest EXCEPT !.st = "sending", !.old = FALSE] /\ Goto(w, "post", mem[w])
     ELSE digest' = digest /\ Goto(w, "idle", NoMem)
  /\ UNCHANGED <<text, sent, overrun, lists, delivered, faults>>

Post(w) ==
  /\ At(w, "post")
  /\ delivered' = delivered + 1
  /\ Goto(w, "digestSent", mem[w])
  /\ UNCHANGED <<text, digest, sent, overrun, lists, faults>>

\* A timeout, a broken connection or a 5xx: it may have gone out.
PostUnclear(w) ==
  /\ At(w, "post") /\ Fault("lost")
  /\ delivered' \in {delivered, delivered + 1}
  /\ Goto(w, "digestUnknown", mem[w])
  /\ UNCHANGED <<text, digest, sent, overrun, lists>>

\* A definite refusal; the claim is this replica's, so its write is not guarded.
PostRefused(w) ==
  /\ At(w, "post")
  /\ \E f \in {"error", "auth"} :
       /\ Fault(f)
       /\ NextDigest(w, "idle", IF f = "auth" THEN [digest EXCEPT !.st = "failed"] ELSE Backoff(mem[w].tries))
  /\ UNCHANGED delivered

DigestClosed(w) ==
  /\ \/ At(w, "digestSent") /\ NextDigest(w, "idle", [digest EXCEPT !.st = "sent"])
     \/ At(w, "digestUnknown") /\ NextDigest(w, "idle", [digest EXCEPT !.st = "unknown"])
  /\ UNCHANGED <<delivered, faults>>

Crash(w) ==
  /\ pc[w] # "idle" /\ Fault("crash")
  /\ IF pc[w] \in {"stampTask", "stampEmail"} THEN Plus(unheard, mem[w].row) ELSE UNCHANGED unheard
  /\ Goto(w, "idle", NoMem)
  /\ todo' = [todo EXCEPT ![w] = {}] /\ stuck' = [stuck EXCEPT ![w] = {}]
  /\ UNCHANGED <<text, post, tried, made, mails, overrun>>

Tick(w) == Reap(w) \/ FinalAlert(w) \/ Scan(w) \/ Claim(w) \/ GiveUp(w) \/ Lose(w) \/ EndScan(w)
Process(w) ==
  \/ Match(w) \/ Create(w) \/ StampTask(w) \/ SkipAlert(w) \/ ToEmail(w) \/ Email(w)
  \/ StampEmail(w) \/ Close(w) \/ Catch(w)
Digest(w) ==
  \/ ReapDigest(w) \/ QueueDigest(w) \/ ScanDigest(w) \/ ReadDigest(w) \/ ClaimDigest(w)
  \/ Post(w) \/ DigestClosed(w)
Failure(w) ==
  \/ CreateRefused(w) \/ CreateUnanswered(w) \/ EmailUnanswered(w) \/ EmailRefused(w)
  \/ RequestFails(w) \/ ReadDigestFails(w) \/ PostUnclear(w) \/ PostRefused(w) \/ Crash(w)
Time == DigestDue \/ DigestStale \/ \E t \in Texts : TextDue(t) \/ TextStale(t)

Next == (\E w \in Replicas : Tick(w) \/ Process(w) \/ Digest(w) \/ Failure(w)) \/ Time
Spec == Init /\ [][Next]_vars

\* The tick comes round every five seconds, requests return, and time passes.
Fairness ==
  /\ \A w \in Replicas : WF_vars(Tick(w) \/ Process(w) \/ Digest(w))
  /\ \A t \in Texts : WF_vars(TextDue(t)) /\ WF_vars(TextStale(t))
  /\ WF_vars(DigestDue) /\ WF_vars(DigestStale)
FairSpec == Spec /\ Fairness

-----------------------------------------------------------------------------
Mem == [row : Texts, tries : Nat, task : BOOLEAN, owes : BOOLEAN, lost : BOOLEAN,
        auth : BOOLEAN, back : {"close", "final", "scan"}]

\* Every variable has its type.
TypeOK ==
  /\ backfill \in BOOLEAN
  /\ text \in [Texts -> [st : TextStatus, tries : Nat, task : BOOLEAN,
                         alert : {"none", "emailed", "skipped"}, due : BOOLEAN, old : BOOLEAN]]
  /\ digest \in [st : DigestStatus, tries : Nat, due : BOOLEAN, old : BOOLEAN]
  /\ tried \in [Texts -> Nat] /\ made \in [Texts -> Nat]
  /\ mails \in [Texts -> Nat] /\ unheard \in [Texts -> Nat]
  /\ delivered \in Nat /\ overrun \subseteq Texts /\ faults \in Nat
  /\ pc \in [Replicas -> Steps] /\ mem \in [Replicas -> Mem]
  /\ todo \in [Replicas -> SUBSET Texts] /\ stuck \in [Replicas -> SUBSET Mem]

\* inbound-text-worker.ts:651-668: the digest email goes out at most once,
\* whatever times out, dies or overlaps, and even if the reaper is early.
DigestOnce == delivered <= 1

\* inbound-text-worker.ts:82-88, 549-554: a text that crashes or hangs its
\* worker every time costs Salesforce MAX_TRIES creates, no more.
TriesCapped == \A t \in Texts : tried[t] <= MaxTries

\* inbound-text-worker.ts:496, 606-613: one Task and one alert per text, but for
\* an answer or a stamp that was lost, or a claim that outlived its limit.
ToldOnce ==
  \A t \in Texts \ overrun : made[t] <= 1 + unheard[t] /\ mails[t] <= 1 + unheard[t]

\* inbound-text-worker.ts:406-410: a text ends done only with its Task logged and
\* its alert sent, held back by the flood guard, or left to the digest; and the
\* guard never holds back a text that has no Task.
NothingSilent ==
  \A t \in Texts :
    /\ text[t].st = "done" => made[t] > 0 /\ ~OwesAlert(t)
    /\ text[t].alert = "skipped" => made[t] > 0

\* inbound-text-worker.ts:702-709: a digest is queued only for a batch whose
\* every text is final, and stays so.
DigestAfterBatch ==
  digest.st # "none" => overrun # {} \/ \A t \in Texts : text[t].st \in Terminal

\* inbound-text-worker.ts:534-570, 670-675: in the end every text is done or
\* failed, and a batch's digest is sent, failed or known to be unclear.
Told ==
  /\ \A t \in Texts : text[t].st \in Terminal
  /\ backfill => digest.st \in {"sent", "failed", "unknown"}
AllTold == <>Told
=============================================================================
