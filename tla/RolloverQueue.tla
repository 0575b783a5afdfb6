---------------------------- MODULE RolloverQueue ----------------------------
(***************************************************************************)
(* The follow-up rollover jobs (salesforce/followup-worker.ts,             *)
(* followup-enqueue.ts).  A job moves one person's open tasks of a day to  *)
(* a later day: create one copy, stamp its id, complete the originals.     *)
(* Each replica of the service runs one tick at a time; a deploy runs two  *)
(* replicas side by side.  One step is one statement or one Salesforce     *)
(* request, and every write of a job but the claim is unconditional.       *)
(*                                                                         *)
(* A person's same-kind tasks of the day are Slots; slot 1 is the one the  *)
(* rep dialed.  Jobs of different persons share no task.                   *)
(***************************************************************************)
EXTENDS Naturals, FiniteSets

CONSTANTS
  Replicas,     \* processes that run the tick
  Jobs,         \* (user, record, day) keys
  Slots,        \* a person's tasks of the day
  MaxAttempts,  \* MAX_ATTEMPTS
  Faults,       \* the failures this instance exercises
  MaxFaults,    \* bound: failures
  MaxHands      \* bound: tasks the rep completes by hand

ASSUME RolloverAssumption ==
  /\ IsFiniteSet(Replicas) /\ Jobs # {}
  /\ Slots \subseteq Nat /\ 1 \in Slots
  /\ MaxAttempts \in Nat \ {0} /\ MaxFaults \in Nat /\ MaxHands \in Nat

VARIABLES
  up,       \* the replicas running
  job,      \* followup_rollover_jobs
  open,     \* the person's originals open in Salesforce
  moved,    \* originals the worker completed
  copies,   \* copies of the person's task in Salesforce
  unheard,  \* copies whose id never reached the job: answer, process or write lost
  pc, batch, mem,  \* per replica: next step, jobs listed, the job in hand
  faults, hands

vars == <<up, job, open, moved, copies, unheard, pc, batch, mem, faults, hands>>
salesforce == <<open, moved, copies, unheard>>

JobStatus == {"none", "pending", "in_flight", "succeeded", "failed"}
Notes == {"none", "no-task", "not-owner", "no-day", "reconnect", "error"}
SettledStatus == {"succeeded", "failed"}
Steps == {"idle", "list", "batch", "start", "findTask", "clearSet", "pickDay",
          "create", "stamp", "complete", "succeed", "catch"}
\* Steps at which a replica has a job in hand.
Busy == Steps \ {"idle", "list", "batch"}

NoJob == [st |-> "none", tries |-> 0, copy |-> FALSE, clear |-> {}, note |-> "none",
          due |-> TRUE, old |-> FALSE, bySource |-> FALSE]
AnyJob == CHOOSE j \in Jobs : TRUE
\* What a replica remembers of a job: the row as LISTED, and this attempt.
NoMem == [job |-> AnyJob, tries |-> 0, copy |-> FALSE, clear |-> {}, bySource |-> FALSE,
          made |-> FALSE, left |-> {}, err |-> "none"]

Init ==
  /\ up \in (SUBSET Replicas) \ {{}}
  /\ job \in [Jobs -> {[NoJob EXCEPT !.bySource = b] : b \in BOOLEAN}]
  /\ open = [j \in Jobs |-> Slots]
  /\ moved = [j \in Jobs |-> {}]
  /\ copies = [j \in Jobs |-> 0]
  /\ unheard = [j \in Jobs |-> 0]
  /\ pc = [w \in Replicas |-> "idle"]
  /\ batch = [w \in Replicas |-> {}]
  /\ mem = [w \in Replicas |-> NoMem]
  /\ faults = 0 /\ hands = 0

Fault(f) == f \in Faults /\ faults < MaxFaults /\ faults' = faults + 1 /\ UNCHANGED hands
Bounds == UNCHANGED <<faults, hands>>

At(w, step) == w \in up /\ pc[w] = step
Goto(w, step, m) ==
  /\ pc' = [pc EXCEPT ![w] = step]
  /\ mem' = [mem EXCEPT ![w] = m]
  /\ UNCHANGED <<up, batch>>
\* patchJob: the columns of p, and updatedAt; no condition but the id.
Patch(j, new) == job' = [job EXCEPT ![j] = [new EXCEPT !.old = FALSE]]
\* The job's last write: the replica turns to the rest of its batch.
Close(w, new) == Patch(mem[w].job, new) /\ Goto(w, "batch", NoMem)

HeldBy(w, j) == pc[w] \in Busy /\ mem[w].job = j
Row(w) == job[mem[w].job]

-----------------------------------------------------------------------------
(* The table outside the tick.                                             *)

\* enqueueFollowupRollover, in the transaction that settles a miss.
Enqueue(j) ==
  /\ job[j].st = "none"
  /\ job' = [job EXCEPT ![j].st = "pending"]
  /\ Bounds /\ UNCHANGED <<up, salesforce, pc, batch, mem>>

\* nextAttemptAt passes.
Due(j) ==
  /\ job[j].st = "pending" /\ ~job[j].due
  /\ job' = [job EXCEPT ![j].due = TRUE]
  /\ Bounds /\ UNCHANGED <<up, salesforce, pc, batch, mem>>

\* updatedAt is STUCK_AFTER_MS ago.  Every request under a claim has a timeout
\* below that limit together, so nobody still works on the job.
Stale(j) ==
  /\ job[j].st = "in_flight" /\ ~job[j].old
  /\ \A w \in Replicas : ~HeldBy(w, j)
  /\ job' = [job EXCEPT ![j].old = TRUE]
  /\ Bounds /\ UNCHANGED <<up, salesforce, pc, batch, mem>>

RepCompletes(j, s) ==
  /\ hands < MaxHands /\ hands' = hands + 1
  /\ s \in open[j]
  /\ open' = [open EXCEPT ![j] = @ \ {s}]
  /\ UNCHANGED <<up, job, moved, copies, unheard, pc, batch, mem, faults>>

-----------------------------------------------------------------------------
(* runFollowupTick.                                                        *)

Reap(w) ==
  /\ At(w, "idle")
  /\ job' = [j \in Jobs |-> IF job[j].st = "in_flight" /\ job[j].old
                            THEN [job[j] EXCEPT !.st = "pending", !.old = FALSE] ELSE job[j]]
  /\ Goto(w, "list", NoMem)
  /\ Bounds /\ UNCHANGED salesforce

Listed(j) == [NoMem EXCEPT !.job = j, !.tries = job[j].tries, !.copy = job[j].copy,
                           !.clear = job[j].clear, !.bySource = job[j].bySource]

List(w) ==
  /\ At(w, "list")
  /\ batch' = [batch EXCEPT ![w] = {Listed(j) : j \in {i \in Jobs : job[i].st = "pending" /\ job[i].due}}]
  /\ pc' = [pc EXCEPT ![w] = "batch"]
  /\ Bounds /\ UNCHANGED <<up, job, salesforce, mem>>

\* mutant: a blind claim by id.
ClaimBlind(w) ==
  /\ At(w, "batch")
  /\ \E m \in batch[w] :
       /\ Patch(m.job, [job[m.job] EXCEPT !.st = "in_flight", !.tries = @ + 1])
       /\ batch' = [batch EXCEPT ![w] = @ \ {m}]
       /\ mem' = [mem EXCEPT ![w] = [m EXCEPT !.tries = @ + 1]]
       /\ pc' = [pc EXCEPT ![w] = "start"]
  /\ Bounds /\ UNCHANGED <<up, salesforce>>

\* The claim re-checks the status; the job is then processed as it was LISTED.
Claim(w) ==
  /\ At(w, "batch")
  /\ \E m \in batch[w] :
       /\ job[m.job].st = "pending"
       /\ Patch(m.job, [job[m.job] EXCEPT !.st = "in_flight", !.tries = @ + 1])
       /\ batch' = [batch EXCEPT ![w] = @ \ {m}]
       /\ mem' = [mem EXCEPT ![w] = [m EXCEPT !.tries = @ + 1]]
       /\ pc' = [pc EXCEPT ![w] = "start"]
  /\ Bounds /\ UNCHANGED <<up, salesforce>>

Lose(w) ==
  /\ At(w, "batch")
  /\ \E m \in batch[w] :
       /\ job[m.job].st # "pending"
       /\ batch' = [batch EXCEPT ![w] = @ \ {m}]
  /\ Bounds /\ UNCHANGED <<up, job, salesforce, pc, mem>>

EndTick(w) ==
  /\ At(w, "batch") /\ batch[w] = {}
  /\ Goto(w, "idle", NoMem)
  /\ Bounds /\ UNCHANGED <<job, salesforce>>

-----------------------------------------------------------------------------
(* processRolloverJob.                                                     *)

\* mutant: a retry looks the task up again though the copy exists.
StartOver(w) ==
  /\ At(w, "start")
  /\ Goto(w, "findTask", mem[w])
  /\ Bounds /\ UNCHANGED <<job, salesforce>>

\* With the copy's id stamped, only completing is left, from the stamped set.
Start(w) ==
  /\ At(w, "start")
  /\ IF mem[w].copy THEN Goto(w, "complete", [mem[w] EXCEPT !.left = mem[w].clear])
                    ELSE Goto(w, "findTask", mem[w])
  /\ Bounds /\ UNCHANGED <<job, salesforce>>

\* The template: the task the rep dialed, or any of the person's open tasks.
Templates(w) == IF mem[w].bySource THEN open[mem[w].job] \cap {1} ELSE open[mem[w].job]

FindTask(w) ==
  /\ At(w, "findTask") /\ Templates(w) # {}
  /\ Goto(w, "clearSet", [mem[w] EXCEPT !.clear = Templates(w)])
  /\ Bounds /\ UNCHANGED <<job, salesforce>>

NothingToRoll(w) ==
  /\ At(w, "findTask")
  /\ Templates(w) = {}
  /\ Close(w, [Row(w) EXCEPT !.st = "succeeded", !.note = "no-task"])
  /\ Bounds /\ UNCHANGED salesforce

\* mayCreateTaskOn refuses: the record is another rep's.
NotOwner(w) ==
  /\ At(w, "clearSet")
  /\ Close(w, [Row(w) EXCEPT !.st = "succeeded", !.note = "not-owner"])
  /\ Bounds /\ UNCHANGED salesforce

\* The clear set: the template and its open siblings (listOpenFollowUps, read
\* already where no task was named).
ClearSet(w) ==
  /\ At(w, "clearSet")
  /\ Goto(w, "pickDay", [mem[w] EXCEPT !.clear = @ \cup open[mem[w].job]])
  /\ Bounds /\ UNCHANGED <<job, salesforce>>

NoDay(w) ==
  /\ At(w, "pickDay")
  /\ Close(w, [Row(w) EXCEPT !.st = "failed", !.note = "no-day"])
  /\ Bounds /\ UNCHANGED salesforce

\* mutant: only the template is stamped.
PickDayTemplate(w) ==
  /\ At(w, "pickDay")
  /\ Patch(mem[w].job, [Row(w) EXCEPT !.clear = {CHOOSE s \in mem[w].clear : TRUE}])
  /\ Goto(w, "create", mem[w])
  /\ Bounds /\ UNCHANGED salesforce

\* Pre-stamp of the day and the clear set, before the create.
PickDay(w) ==
  /\ At(w, "pickDay")
  /\ Patch(mem[w].job, [Row(w) EXCEPT !.clear = mem[w].clear])
  /\ Goto(w, "create", mem[w])
  /\ Bounds /\ UNCHANGED salesforce

\* mutant: the originals are completed before the copy is created.
CreateLast(w) ==
  /\ At(w, "create")
  /\ Goto(w, "complete", [mem[w] EXCEPT !.left = mem[w].clear, !.made = TRUE])
  /\ Bounds /\ UNCHANGED <<job, salesforce>>

Create(w) ==
  /\ At(w, "create")
  /\ copies' = [copies EXCEPT ![mem[w].job] = @ + 1]
  /\ Goto(w, "stamp", mem[w])
  /\ Bounds /\ UNCHANGED <<job, open, moved, unheard>>

\* The copy lands, its answer does not: a timeout, a broken connection.
CreateUnanswered(w) ==
  /\ At(w, "create") /\ Fault("lost")
  /\ copies' = [copies EXCEPT ![mem[w].job] = @ + 1]
  /\ unheard' = [unheard EXCEPT ![mem[w].job] = @ + 1]
  /\ Goto(w, "catch", [mem[w] EXCEPT !.err = "error"])
  /\ UNCHANGED <<job, open, moved>>

StampCopy(w) ==
  /\ At(w, "stamp")
  /\ Patch(mem[w].job, [Row(w) EXCEPT !.copy = TRUE])
  /\ Goto(w, "complete", [mem[w] EXCEPT !.made = TRUE, !.left = mem[w].clear])
  /\ Bounds /\ UNCHANGED salesforce

StampLost(w) ==
  /\ At(w, "stamp") /\ Fault("db")
  /\ unheard' = [unheard EXCEPT ![mem[w].job] = @ + 1]
  /\ Goto(w, "catch", [mem[w] EXCEPT !.err = "error"])
  /\ UNCHANGED <<job, open, moved, copies>>

\* completeTasks, one PATCH; a task already gone is skipped.
Complete(w) ==
  /\ At(w, "complete")
  /\ \E s \in mem[w].left :
       /\ moved' = [moved EXCEPT ![mem[w].job] = @ \cup ({s} \cap open[mem[w].job])]
       /\ open' = [open EXCEPT ![mem[w].job] = @ \ {s}]
       /\ Goto(w, "complete", [mem[w] EXCEPT !.left = @ \ {s}])
  /\ Bounds /\ UNCHANGED <<job, copies, unheard>>

Succeed(w) ==
  /\ At(w, "complete") /\ mem[w].left = {}
  /\ Close(w, [Row(w) EXCEPT !.st = "succeeded", !.note = "none"])
  /\ Bounds /\ UNCHANGED salesforce

\* A request of the attempt fails: refused, timed out, or unauthorized.
RequestFails(w) ==
  /\ w \in up /\ pc[w] \in {"findTask", "clearSet", "pickDay", "create", "complete"}
  /\ \E e \in {"error", "reconnect"} :
       /\ mem[w].left = {} /\ pc[w] = "complete" => e = "error"
       /\ Fault(e) /\ Goto(w, "catch", [mem[w] EXCEPT !.err = e])
  /\ UNCHANGED <<job, salesforce>>

CopyExists(w) == mem[w].copy \/ mem[w].made
\* The catch: unauthorized before the copy, or out of attempts, is final.
Catch(w) ==
  /\ At(w, "catch")
  /\ IF \/ mem[w].err = "reconnect" /\ ~CopyExists(w)
        \/ mem[w].tries >= MaxAttempts
     THEN Close(w, [Row(w) EXCEPT !.st = "failed", !.note = mem[w].err])
     ELSE Close(w, [Row(w) EXCEPT !.st = "pending", !.note = mem[w].err, !.due = FALSE])
  /\ Bounds /\ UNCHANGED salesforce

\* The catch's own write fails: the job stays in flight with nobody at it.
CatchLost(w) ==
  /\ At(w, "catch") /\ Fault("db")
  /\ Goto(w, "batch", NoMem)
  /\ UNCHANGED <<job, salesforce>>

\* The process dies (and its replacement starts idle).
Crash(w) ==
  /\ w \in up /\ pc[w] # "idle" /\ Fault("crash")
  /\ unheard' = [unheard EXCEPT ![mem[w].job] = @ + IF pc[w] = "stamp" THEN 1 ELSE 0]
  /\ pc' = [pc EXCEPT ![w] = "idle"]
  /\ mem' = [mem EXCEPT ![w] = NoMem]
  /\ batch' = [batch EXCEPT ![w] = {}]
  /\ UNCHANGED <<up, job, open, moved, copies>>

Tick(w) == Reap(w) \/ List(w) \/ Claim(w) \/ Lose(w) \/ EndTick(w)
Process(w) ==
  \/ Start(w) \/ FindTask(w) \/ NothingToRoll(w) \/ NotOwner(w) \/ ClearSet(w)
  \/ NoDay(w) \/ PickDay(w) \/ Create(w) \/ StampCopy(w) \/ Complete(w) \/ Succeed(w) \/ Catch(w)
Failure(w) == CreateUnanswered(w) \/ StampLost(w) \/ RequestFails(w) \/ CatchLost(w) \/ Crash(w)
Table(j) == Enqueue(j) \/ Due(j) \/ Stale(j) \/ \E s \in Slots : RepCompletes(j, s)

Next == (\E w \in Replicas : Tick(w) \/ Process(w) \/ Failure(w)) \/ (\E j \in Jobs : Table(j))
Spec == Init /\ [][Next]_vars

\* The tick comes round every five seconds, requests return, and time passes.
Fairness ==
  /\ \A w \in Replicas : WF_vars(Tick(w)) /\ WF_vars(Process(w))
  /\ \A j \in Jobs : WF_vars(Due(j)) /\ WF_vars(Stale(j))
FairSpec == Spec /\ Fairness

-----------------------------------------------------------------------------
Mem == [job : Jobs, tries : Nat, copy : BOOLEAN, clear : SUBSET Slots, bySource : BOOLEAN,
        made : BOOLEAN, left : SUBSET Slots, err : {"none", "error", "reconnect"}]
JobRow == [st : JobStatus, tries : Nat, copy : BOOLEAN, clear : SUBSET Slots, note : Notes,
           due : BOOLEAN, old : BOOLEAN, bySource : BOOLEAN]

\* Every variable has its type.
TypeOK ==
  /\ up \subseteq Replicas
  /\ job \in [Jobs -> JobRow]
  /\ open \in [Jobs -> SUBSET Slots] /\ moved \in [Jobs -> SUBSET Slots]
  /\ copies \in [Jobs -> Nat] /\ unheard \in [Jobs -> Nat]
  /\ pc \in [Replicas -> Steps]
  /\ batch \in [Replicas -> SUBSET Mem]
  /\ mem \in [Replicas -> Mem]
  /\ faults \in Nat /\ hands \in Nat

\* followup-worker.ts:14-15: an original is completed only when the copy that
\* replaces it exists, so no failure at any step loses the follow-up.
CoveredByCopy == \A j \in Jobs : moved[j] # {} => copies[j] > 0

\* followup-worker.ts:14-16, 30-40: a person gets a second copy only for a first whose id
\* the code never saw.
NoSecondCopy == \A j \in Jobs : copies[j] <= 1 + unheard[j]
\* The same of one replica by itself, no deploy overlapping.
NoSecondCopyAlone == Cardinality(up) = 1 => NoSecondCopy

\* followup-worker.ts:349-351, 420, 529-545: a job that succeeds with a copy has
\* left none of the day's tasks open, whatever failed and was retried on the
\* way; and with the copy made, a lone replica gives up only when the attempts
\* run out.
MovedWhole ==
  \A j \in Jobs :
    /\ job[j].st = "succeeded" /\ job[j].note = "none" => copies[j] > 0 /\ open[j] = {}
    /\ Cardinality(up) = 1 /\ job[j].st = "failed" /\ job[j].copy => job[j].tries >= MaxAttempts

\* Unconditional writes by id never reopen a job that has settled.
JobStaysSettled ==
  [][\A j \in Jobs : job[j].st \in SettledStatus => job'[j] = job[j]]_vars

\* Every job settles: retried while it may be, reaped when its holder died.
JobSettles == \A j \in Jobs : job[j].st = "pending" ~> job[j].st \in SettledStatus
=============================================================================
