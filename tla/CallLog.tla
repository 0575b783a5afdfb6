------------------------------- MODULE CallLog -------------------------------
(***************************************************************************)
(* How one call reaches Salesforce (salesforce/sync.ts, routes/calls.ts,   *)
(* routes/telephony.ts, routes/inbound.ts): the rep's disposition, the     *)
(* sync job, the sweeps that rescue what was missed, and the recording     *)
(* link.  A replica of the service runs one sync tick at a time; requests  *)
(* and callbacks are handlers beside it.  One step is one statement or one *)
(* Salesforce request.  Calls share no row, so one call is the instance.   *)
(***************************************************************************)
EXTENDS Naturals, Sequences, FiniteSets

CONSTANTS
  Replicas,     \* processes that run the sync tick
  Handlers,     \* requests of the rep and callbacks of Twilio
  RepChoices,   \* dispositions the rep may choose
  MaxAttempts,  \* MAX_ATTEMPTS
  MaxRequests,  \* bound: requests and callbacks
  Faults, MaxFaults

VARIABLES
  inbound,  \* calls.direction = 'inbound'
  call,     \* the calls row
  job,      \* its salesforce_sync_jobs row
  tasks,    \* the Tasks the backend created, in order
  posts,    \* Chatter items posted
  pc, mem,
  unheard,  \* Tasks and posts whose id never reached the row
  cut,      \* a handler died between its write of the disposition and its enqueue
  raced,    \* a disposition was written inside a sync's or a sweep's window or
            \* over another request's, or its correction failed
  asked, faults

CallAssumption ==
  /\ IsFiniteSet(Replicas) /\ Replicas \cap Handlers = {}
  /\ RepChoices \cap {"none", "auto"} = {} /\ MaxAttempts \in Nat

vars == <<inbound, call, job, tasks, posts, pc, mem, unheard, cut, raced, asked, faults>>
ghosts == <<unheard, cut, raced>>
outside == <<tasks, posts>>

Workers == Replicas \cup Handlers
Dispositions == {"none", "auto"} \cup RepChoices
LinkStates == {"none", "present", "rejected"}
JobStatus == {"none", "pending", "in_flight", "succeeded", "failed"}
SettledStatus == {"succeeded", "failed"}

\* failed: calls.status = 'failed', which no sweep takes for a real dial.
NoCall == [ended |-> FALSE, failed |-> FALSE, dispo |-> "none", task |-> 0, feed |-> FALSE,
           rec |-> FALSE, synced |-> FALSE, client |-> FALSE, aged |-> FALSE, quiet |-> FALSE]
NoJob == [st |-> "none", tries |-> 0, due |-> TRUE, old |-> FALSE, notOwner |-> FALSE]
\* dispo, task, feed: the row as READ; choice, skip: the request; n: the Task made.
NoMem == [dispo |-> "none", task |-> 0, feed |-> FALSE, choice |-> "none", skip |-> FALSE,
          n |-> 0, tries |-> 0, fatal |-> FALSE]

Init ==
  /\ inbound \in BOOLEAN
  /\ call = NoCall /\ job = NoJob
  /\ tasks = <<>> /\ posts = 0
  /\ pc = [w \in Workers |-> "idle"]
  /\ mem = [w \in Workers |-> NoMem]
  /\ unheard = 0 /\ cut = FALSE /\ raced = FALSE
  /\ asked = 0 /\ faults = 0

Fault(f) == f \in Faults /\ faults < MaxFaults /\ faults' = faults + 1 /\ UNCHANGED asked
Request == asked < MaxRequests /\ asked' = asked + 1 /\ UNCHANGED faults
Bounds == UNCHANGED <<asked, faults>>

At(w, step) == pc[w] = step
Goto(w, step, m) ==
  /\ pc' = [pc EXCEPT ![w] = step]
  /\ mem' = [mem EXCEPT ![w] = m]
  /\ UNCHANGED inbound
\* Every write of the call bumps updatedAt, which the link sweep waits out.
SetCall(new) == call' = [new EXCEPT !.quiet = FALSE]
\* enqueueSyncForCall: one job per call, whatever its state.
Enqueued == [job EXCEPT !.st = IF @ = "none" THEN "pending" ELSE @]

-----------------------------------------------------------------------------
(* The world.                                                              *)

\* The call ends: an outbound one by a status callback (telephony.ts:705-708),
\* perhaps `failed`; an inbound one by its dial result or voicemail, which logs it,
\* late or not.  Once the call has its job the report changes nothing more.
End(h) ==
  /\ At(h, "idle") /\ h \in Handlers
  /\ ~call.ended \/ (inbound /\ job.st = "none")
  /\ \E failed \in BOOLEAN \ (IF inbound THEN {TRUE} ELSE {}) :
       SetCall([call EXCEPT !.ended = TRUE, !.failed = failed])
  /\ Goto(h, IF inbound THEN "enqueue" ELSE "idle", NoMem)
  /\ Bounds /\ UNCHANGED <<job, outside, ghosts>>

\* LOG_GRACE_MS after the end, or INBOUND_STALE_MS after the start.  This age and
\* the next matter only to a row that its sweep would take.
Undisposed == call.ended /\ ~call.failed /\ call.task = 0 /\ call.dispo = "none"
Age ==
  /\ ~call.aged /\ (Undisposed \/ (inbound /\ ~call.ended))
  /\ call' = [call EXCEPT !.aged = TRUE]
  /\ Bounds /\ UNCHANGED <<inbound, job, outside, pc, mem, ghosts>>

\* RECORDING_LINK_SWEEP_GRACE_MS since the row was last touched.
Unpushed == call.rec /\ call.task # 0 /\ ~call.synced
Quiet ==
  /\ ~call.quiet /\ Unpushed
  /\ call' = [call EXCEPT !.quiet = TRUE]
  /\ Bounds /\ UNCHANGED <<inbound, job, outside, pc, mem, ghosts>>

Due ==
  /\ job.st = "pending" /\ ~job.due
  /\ job' = [job EXCEPT !.due = TRUE]
  /\ Bounds /\ UNCHANGED <<inbound, call, outside, pc, mem, ghosts>>

\* Steps under a claim.
Syncing == {"read", "gate", "create", "stamp", "chatter", "feed", "fresh",
            "link", "linkStamp", "finish", "fail"}
Stale ==
  /\ job.st = "in_flight" /\ ~job.old
  /\ \A w \in Replicas : pc[w] \notin Syncing
  /\ job' = [job EXCEPT !.old = TRUE]
  /\ Bounds /\ UNCHANGED <<inbound, call, outside, pc, mem, ghosts>>

-----------------------------------------------------------------------------
(* Requests and callbacks.                                                 *)

\* POST /calls/:id/disposition.  skip: the client has already saved the Task
\* through Open CTI.  A real disposition is not submitted over.
Dispose(h) ==
  /\ At(h, "idle") /\ h \in Handlers /\ Request
  /\ call.dispo \in {"none", "auto"}
  /\ \E d \in RepChoices, skip \in BOOLEAN :
       Goto(h, "setDispo", [NoMem EXCEPT !.task = call.task, !.choice = d, !.skip = skip])
  /\ UNCHANGED <<call, job, outside, ghosts>>

\* A window: a sync holds a disposition it read and has not stamped its Task,
\* or a sweep found the call undisposed and has not marked it.
Window == \E w \in Replicas : pc[w] \in {"gate", "create", "stamp", "mark"}

\* The row completed with the rep's choice.
Disposed(h) ==
  [call EXCEPT !.dispo = mem[h].choice, !.ended = TRUE, !.failed = FALSE, !.client = @ \/ mem[h].skip]

\* mutant: the correction is left to the sync.
SetDispoOnly(h) ==
  /\ At(h, "setDispo")
  /\ SetCall(Disposed(h))
  /\ raced' = (raced \/ Window \/ mem[h].task # call.task \/ call.dispo \in RepChoices)
  /\ Goto(h, IF mem[h].skip THEN "idle" ELSE "enqueue", NoMem)
  /\ Bounds /\ UNCHANGED <<job, outside, unheard, cut>>

SetDispo(h) ==
  /\ At(h, "setDispo")
  /\ SetCall(Disposed(h))
  /\ raced' = (raced \/ Window \/ mem[h].task # call.task \/ call.dispo \in RepChoices)
  /\ Goto(h, IF mem[h].skip THEN "idle" ELSE IF mem[h].task # 0 THEN "correct" ELSE "enqueue",
          IF mem[h].skip THEN NoMem ELSE mem[h])
  /\ Bounds /\ UNCHANGED <<job, outside, unheard, cut>>

\* The Task exists already: the correction goes straight onto it, or is lost
\* with a warning (with none, when Salesforce rejects a field of it).
Correct(h) ==
  /\ At(h, "correct")
  /\ tasks' = [tasks EXCEPT ![mem[h].task].dispo = mem[h].choice]
  /\ Goto(h, "idle", NoMem)
  /\ Bounds /\ UNCHANGED <<call, job, posts, ghosts>>

CorrectFails(h) ==
  /\ At(h, "correct") /\ Fault("patch")
  /\ raced' = TRUE
  /\ Goto(h, "idle", NoMem)
  /\ UNCHANGED <<call, job, outside, unheard, cut>>

Enqueue(w) ==
  /\ At(w, "enqueue")
  /\ job' = Enqueued
  /\ Goto(w, "idle", NoMem)
  /\ Bounds /\ UNCHANGED <<call, outside, ghosts>>

\* POST /calls/:id/ensure-logged.
EnsureLogged(h) ==
  /\ At(h, "idle") /\ h \in Handlers /\ Request
  /\ call.task = 0
  /\ Goto(h, "enqueue", NoMem)
  /\ UNCHANGED <<call, job, outside, ghosts>>

\* The recording webhook: store the recording, then push its link.
Recorded(h) ==
  /\ At(h, "idle") /\ h \in Handlers /\ ~call.rec
  /\ SetCall([call EXCEPT !.rec = TRUE])
  /\ Goto(h, "push", NoMem)
  /\ Bounds /\ UNCHANGED <<job, outside, ghosts>>

\* pushRecordingLinkToTask (by the webhook, and by the link sweep).
Push(w) ==
  /\ At(w, "push")
  /\ IF call.task = 0 THEN Goto(w, "idle", NoMem) ELSE Goto(w, "pushLink", [NoMem EXCEPT !.n = call.task])
  /\ Bounds /\ UNCHANGED <<call, job, outside, ghosts>>

\* The PATCH of the link onto the Task, in a sync or pushed, and its stamp.
\* Salesforce takes the link, or rejects the field (INVALID_FIELD, sync.ts:627-636
\* and 693-702): that is stamped too, since no retry could mend it.
PatchLink(w) ==
  /\ \/ At(w, "link") /\ Goto(w, "linkStamp", mem[w])
     \/ At(w, "pushLink") /\ Goto(w, "pushStamp", mem[w])
  /\ \E answer \in {"present", "rejected"} :
       tasks' = [tasks EXCEPT ![mem[w].n].link = IF @ = "present" THEN @ ELSE answer]
  /\ Bounds /\ UNCHANGED <<call, job, posts, ghosts>>

PatchLinkFails(w) ==
  /\ Fault("patch")
  /\ \/ At(w, "link") /\ Goto(w, "finish", mem[w])
     \/ At(w, "pushLink") /\ Goto(w, "idle", NoMem)
  /\ UNCHANGED <<call, job, outside, ghosts>>

StampLink(w) ==
  /\ \/ At(w, "linkStamp") /\ Goto(w, "finish", mem[w])
     \/ At(w, "pushStamp") /\ Goto(w, "idle", NoMem)
  /\ SetCall([call EXCEPT !.synced = TRUE])
  /\ Bounds /\ UNCHANGED <<job, outside, ghosts>>

-----------------------------------------------------------------------------
(* runSyncTick: reap, rescue, sweep, drain, links.                         *)

\* reapStuckJobs.
Reap(w) ==
  /\ At(w, "idle") /\ w \in Replicas
  /\ job' = IF job.st = "in_flight" /\ job.old THEN [job EXCEPT !.st = "pending", !.old = FALSE] ELSE job
  /\ Goto(w, "reapInbound", NoMem)
  /\ Bounds /\ UNCHANGED <<call, outside, ghosts>>

\* mutant: a stale inbound call is left in progress.
LeaveInbound(w) ==
  /\ At(w, "reapInbound")
  /\ Goto(w, "sweep", NoMem)
  /\ Bounds /\ UNCHANGED <<call, job, outside, ghosts>>

\* reapStaleInboundCalls: one statement ends the call, the next logs it.
ReapInbound(w) ==
  /\ At(w, "reapInbound")
  /\ IF inbound /\ ~call.ended /\ call.aged
     THEN SetCall([call EXCEPT !.ended = TRUE]) /\ Goto(w, "rescue", NoMem)
     ELSE Goto(w, "sweep", NoMem) /\ UNCHANGED call
  /\ Bounds /\ UNCHANGED <<job, outside, ghosts>>

Rescue(w) ==
  /\ At(w, "rescue")
  /\ job' = Enqueued
  /\ Goto(w, "sweep", NoMem)
  /\ Bounds /\ UNCHANGED <<call, outside, ghosts>>

\* sweepUnloggedCalls finds the call, marks it by id, and enqueues it.
Sweep(w) ==
  /\ At(w, "sweep")
  /\ IF Undisposed /\ call.aged
     THEN Goto(w, "mark", NoMem) ELSE Goto(w, "list", NoMem)
  /\ Bounds /\ UNCHANGED <<call, job, outside, ghosts>>

Mark(w) ==
  /\ At(w, "mark")
  /\ SetCall([call EXCEPT !.dispo = "auto"])
  /\ Goto(w, "marked", NoMem)
  /\ Bounds /\ UNCHANGED <<job, outside, ghosts>>

EnqueueMarked(w) ==
  /\ At(w, "marked")
  /\ job' = Enqueued
  /\ Goto(w, "list", NoMem)
  /\ Bounds /\ UNCHANGED <<call, outside, ghosts>>

List(w) ==
  /\ At(w, "list")
  /\ Goto(w, IF job.st = "pending" /\ job.due THEN "claim" ELSE "links", [NoMem EXCEPT !.tries = job.tries])
  /\ Bounds /\ UNCHANGED <<call, job, outside, ghosts>>

\* By id, whatever the job's status is by now.
Claim(w) ==
  /\ At(w, "claim")
  /\ job' = [job EXCEPT !.st = "in_flight", !.old = FALSE]
  /\ Goto(w, "read", mem[w])
  /\ Bounds /\ UNCHANGED <<call, outside, ghosts>>

\* mutant: no repair of links.
SweepNoLinks(w) ==
  /\ At(w, "links")
  /\ Goto(w, "idle", NoMem)
  /\ Bounds /\ UNCHANGED <<call, job, outside, ghosts>>

\* sweepUnpushedRecordingLinks.
SweepLinks(w) ==
  /\ At(w, "links")
  /\ Goto(w, IF Unpushed /\ call.quiet THEN "push" ELSE "idle", NoMem)
  /\ Bounds /\ UNCHANGED <<call, job, outside, ghosts>>

-----------------------------------------------------------------------------
(* syncOne.                                                                *)

\* mutant: a call that has its Task is synced again.
ReadCallAgain(w) ==
  /\ At(w, "read")
  /\ Goto(w, IF inbound THEN "create" ELSE "gate",
          [mem[w] EXCEPT !.dispo = call.dispo, !.feed = call.feed])
  /\ Bounds /\ UNCHANGED <<call, job, outside, ghosts>>

ReadCall(w) ==
  /\ At(w, "read")
  /\ Goto(w, IF call.task # 0 THEN "finish" ELSE IF inbound THEN "create" ELSE "gate",
          [mem[w] EXCEPT !.dispo = call.dispo, !.feed = call.feed])
  /\ Bounds /\ UNCHANGED <<call, job, outside, ghosts>>

GatePasses(w) ==
  /\ At(w, "gate")
  /\ Goto(w, "create", mem[w])
  /\ Bounds /\ UNCHANGED <<call, job, outside, ghosts>>

\* The rep neither owns nor manages the record: no Task, and the job says why.
NotOwner(w) ==
  /\ At(w, "gate")
  /\ job' = [job EXCEPT !.st = "succeeded", !.notOwner = TRUE, !.old = FALSE]
  /\ Goto(w, "links", NoMem)
  /\ Bounds /\ UNCHANGED <<call, outside, ghosts>>

MakeTask(w) == tasks' = Append(tasks, [dispo |-> mem[w].dispo, link |-> "none"])

Create(w) ==
  /\ At(w, "create")
  /\ MakeTask(w)
  /\ Goto(w, "stamp", [mem[w] EXCEPT !.n = Len(tasks) + 1])
  /\ Bounds /\ UNCHANGED <<call, job, posts, ghosts>>

CreateUnanswered(w) ==
  /\ At(w, "create") /\ Fault("lost")
  /\ MakeTask(w)
  /\ unheard' = unheard + 1
  /\ Goto(w, "fail", mem[w])
  /\ UNCHANGED <<call, job, posts, cut, raced>>

StampTask(w) ==
  /\ At(w, "stamp")
  /\ SetCall([call EXCEPT !.task = mem[w].n])
  /\ Goto(w, "chatter", mem[w])
  /\ Bounds /\ UNCHANGED <<job, outside, ghosts>>

\* A post that fails is logged and left; one that lands stamps its id.
Chatter(w) ==
  /\ At(w, "chatter")
  /\ IF mem[w].dispo # "none" /\ ~mem[w].feed
     THEN posts' = posts + 1 /\ Goto(w, "feed", mem[w])
     ELSE Goto(w, "fresh", mem[w]) /\ UNCHANGED posts
  /\ Bounds /\ UNCHANGED <<call, job, tasks, ghosts>>

StampFeed(w) ==
  /\ At(w, "feed")
  /\ SetCall([call EXCEPT !.feed = TRUE])
  /\ Goto(w, "fresh", mem[w])
  /\ Bounds /\ UNCHANGED <<job, outside, ghosts>>

\* The recording, read again: it may have come while the create was out.
Fresh(w) ==
  /\ At(w, "fresh")
  /\ Goto(w, IF call.rec THEN "link" ELSE "finish", mem[w])
  /\ Bounds /\ UNCHANGED <<call, job, outside, ghosts>>

Finish(w) ==
  /\ At(w, "finish")
  /\ job' = [job EXCEPT !.st = "succeeded", !.notOwner = FALSE, !.old = FALSE]
  /\ Goto(w, "links", NoMem)
  /\ Bounds /\ UNCHANGED <<call, outside, ghosts>>

\* mutant: the answer of the create is not looked at.
RequestFailsUnread(w) ==
  /\ At(w, "create") /\ Fault("error")
  /\ Goto(w, "stamp", [mem[w] EXCEPT !.n = Len(tasks) + 1])
  /\ UNCHANGED <<call, job, outside, ghosts>>

\* Salesforce refuses a lookup or the create.
RequestFails(w) ==
  /\ At(w, "gate") \/ At(w, "create")
  /\ \/ Fault("error") /\ Goto(w, "fail", mem[w])
     \/ Fault("auth") /\ Goto(w, "fail", [mem[w] EXCEPT !.fatal = TRUE])
  /\ UNCHANGED <<call, job, outside, ghosts>>

Fail(w) ==
  /\ At(w, "fail")
  /\ job' = [job EXCEPT
       !.st = IF mem[w].fatal \/ mem[w].tries + 1 >= MaxAttempts THEN "failed" ELSE "pending",
       !.tries = mem[w].tries + 1, !.due = FALSE, !.old = FALSE]
  /\ Goto(w, "links", NoMem)
  /\ Bounds /\ UNCHANGED <<call, outside, ghosts>>

\* The process (or the request) dies between two statements.
Crash(w) ==
  /\ pc[w] # "idle" /\ Fault("crash")
  /\ unheard' = unheard + IF pc[w] \in {"stamp", "feed"} THEN 1 ELSE 0
  /\ cut' = (cut \/ (pc[w] \in {"enqueue", "marked", "rescue"} /\ call.dispo # "none"))
  /\ raced' = (raced \/ pc[w] = "correct")
  /\ Goto(w, "idle", NoMem)
  /\ UNCHANGED <<call, job, outside>>

Tick(w) ==
  \/ Reap(w) \/ ReapInbound(w) \/ Rescue(w) \/ Sweep(w) \/ Mark(w) \/ EnqueueMarked(w)
  \/ List(w) \/ Claim(w) \/ SweepLinks(w)
Sync(w) ==
  \/ ReadCall(w) \/ GatePasses(w) \/ NotOwner(w) \/ Create(w) \/ StampTask(w) \/ Chatter(w)
  \/ StampFeed(w) \/ Fresh(w) \/ Finish(w) \/ Fail(w)
Push_(w) == Push(w) \/ PatchLink(w) \/ StampLink(w)
Ask(h) == Dispose(h) \/ EnsureLogged(h)
Handle(h) == SetDispo(h) \/ Correct(h) \/ Enqueue(h)
Failure(w) ==
  CorrectFails(w) \/ PatchLinkFails(w) \/ CreateUnanswered(w) \/ RequestFails(w) \/ Crash(w)
World == Age \/ Quiet \/ Due \/ Stale

Next ==
  \/ \E w \in Replicas : Tick(w) \/ Sync(w)
  \/ \E h \in Handlers : End(h) \/ Recorded(h) \/ Ask(h) \/ Handle(h)
  \/ \E w \in Workers : Push_(w) \/ Failure(w)
  \/ World
Spec == Init /\ [][Next]_vars

\* The tick comes round, requests return, time passes.
Fairness ==
  /\ \A w \in Replicas : WF_vars(Tick(w)) /\ WF_vars(Sync(w))
  /\ \A h \in Handlers : WF_vars(Handle(h))
  /\ \A w \in Workers : WF_vars(Push_(w))
  /\ WF_vars(Age) /\ WF_vars(Quiet) /\ WF_vars(Due) /\ WF_vars(Stale)
FairSpec == Spec /\ Fairness

-----------------------------------------------------------------------------
Alone == Cardinality(Replicas) = 1

\* Every variable has its type.
TypeOK ==
  /\ inbound \in BOOLEAN
  /\ call \in [ended : BOOLEAN, failed : BOOLEAN, dispo : Dispositions, task : 0 .. Len(tasks),
               feed : BOOLEAN, rec : BOOLEAN, synced : BOOLEAN, client : BOOLEAN, aged : BOOLEAN, quiet : BOOLEAN]
  /\ job \in [st : JobStatus, tries : Nat, due : BOOLEAN, old : BOOLEAN, notOwner : BOOLEAN]
  /\ tasks \in Seq([dispo : Dispositions, link : LinkStates])
  /\ posts \in Nat /\ unheard \in Nat /\ cut \in BOOLEAN /\ raced \in BOOLEAN
  /\ \A w \in Workers : mem[w].n \in 0 .. Len(tasks) /\ mem[w].task \in 0 .. Len(tasks)

\* calls.ts:593-597, sync.ts:554-560: through retries, reaps, sweeps and safety
\* nets a replica by itself makes a second Task, or a second Chatter post, only
\* when it never learnt of the first.
LoggedOnce == Alone => Len(tasks) <= 1 + unheard /\ posts <= 1 + unheard

\* calls.ts:538-542: the rep's disposition reaches the Task unless it was
\* written inside the window of a sync or a sweep, two requests wrote theirs one
\* over the other, or its PATCH did not happen.
DispositionReaches ==
  Alone /\ ~raced /\ ~call.client /\ call.task # 0 /\ call.dispo \in RepChoices
    /\ (\A w \in Workers : pc[w] \notin {"correct", "setDispo"})
    => tasks[call.task].dispo = call.dispo

\* sync.ts:94-98: with nobody at work on it, a call that has its disposition has
\* its job too, or the client logged it.
NotStranded ==
  (\A w \in Workers : pc[w] = "idle") /\ call.dispo # "none" /\ ~call.client => job.st # "none"

\* sync.ts:94-98, 138-147: every call that ends otherwise than `failed`, and every
\* inbound one whether or not its end is ever reported, is logged, decided
\* against, or its job failed for good, unless a handler died between disposing
\* and enqueueing it.
Logged == call.task # 0 \/ call.client \/ cut \/ job.st = "failed" \/ job.notOwner
ToLog == inbound \/ (call.ended /\ ~call.failed)
CallLogged == ToLog ~> Logged

\* sync.ts:611-626, 736-750: a recording's link gets onto the Task of record in
\* the end, and the stamp says so, unless Salesforce rejected its field.  Then the
\* stamp is there without the link, so that the row does not clog the sweep.
LinkReaches == (call.rec /\ call.task # 0) ~> (call.synced /\ tasks[call.task].link # "none")
=============================================================================
