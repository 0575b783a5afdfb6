--------------------------- MODULE CallLog_proofs ---------------------------
(***************************************************************************)
(* What the call log promises whatever the replicas, handlers, faults and  *)
(* bounds: one Task and one post but for one whose id was lost, and the    *)
(* rep's disposition on the Task outside the windows.                      *)
(*                                                                         *)
(* A replica at work on the call is shown to hold what the row says: no    *)
(* Task yet (LogR), the row's disposition (HeldDispo).  The other steps    *)
(* leave that alone (Beside, Calm); a handler that corrects the Task       *)
(* carries what the row says, too (Correcting).                            *)
(***************************************************************************)
EXTENDS CallLog, FiniteSetTheorems, TLAPS

TaskRow == [dispo : Dispositions, link : LinkStates]
CallRow(k) == [ended : BOOLEAN, failed : BOOLEAN, dispo : Dispositions, task : 0 .. k, feed : BOOLEAN,
               rec : BOOLEAN, synced : BOOLEAN, client : BOOLEAN, aged : BOOLEAN, quiet : BOOLEAN]
JobRow == [st : JobStatus, tries : Nat, due : BOOLEAN, old : BOOLEAN, notOwner : BOOLEAN]
Memo(k) == [dispo : Dispositions, task : 0 .. k, feed : BOOLEAN, choice : {"none"} \cup RepChoices,
            skip : BOOLEAN, n : 0 .. k, tries : Nat, fatal : BOOLEAN]

HandlerSteps == {"idle", "setDispo", "correct", "enqueue", "push", "pushLink", "pushStamp"}
ReplicaSteps == {"idle", "reapInbound", "rescue", "sweep", "mark", "marked", "list", "claim", "links",
                 "push", "pushLink", "pushStamp"} \cup Syncing
\* The steps a worker may be at.
StepsOf(w) == IF w \in Replicas THEN ReplicaSteps ELSE HandlerSteps

TypeRows ==
  /\ inbound \in BOOLEAN /\ job \in JobRow
  /\ tasks \in Seq(TaskRow) /\ call \in CallRow(Len(tasks))
TypeCounts ==
  /\ posts \in Nat /\ unheard \in Nat /\ asked \in Nat /\ faults \in Nat
  /\ cut \in BOOLEAN /\ raced \in BOOLEAN
TypeWorkers ==
  /\ pc \in [Workers -> ReplicaSteps \cup HandlerSteps] /\ mem \in [Workers -> Memo(Len(tasks))]
  /\ \A w \in Workers : pc[w] \in StepsOf(w) /\ (pc[w] = "setDispo" => mem[w].choice \in RepChoices)
Types == TypeRows /\ TypeCounts /\ TypeWorkers

-----------------------------------------------------------------------------
(* The pieces steps are made of.                                           *)

LEMMA MemoGrows ==
  ASSUME NEW k \in Nat, NEW l \in Nat, k <= l
  PROVE  Memo(k) \subseteq Memo(l) /\ CallRow(k) \subseteq CallRow(l)
BY DEF Memo, CallRow

LEMMA NoMemType == ASSUME NEW k \in Nat PROVE NoMem \in Memo(k)
BY DEF NoMem, Memo, Dispositions

LEMMA MemoUpdate ==
  ASSUME NEW k \in Nat, NEW m \in Memo(k)
  PROVE  /\ \A d \in Dispositions, b \in BOOLEAN : [m EXCEPT !.dispo = d, !.feed = b] \in Memo(k)
         /\ \A n \in 0 .. k : [m EXCEPT !.n = n] \in Memo(k)
         /\ \A n \in Nat : [m EXCEPT !.tries = n] \in Memo(k)
         /\ [m EXCEPT !.fatal = TRUE] \in Memo(k)
         /\ \A t \in 0 .. k, d \in RepChoices, b \in BOOLEAN :
              /\ [m EXCEPT !.task = t, !.choice = d, !.skip = b] \in Memo(k)
              /\ [m EXCEPT !.task = t, !.choice = d, !.skip = b].choice = d
BY DEF Memo

LEMMA CallUpdate ==
  ASSUME NEW k \in Nat, NEW c \in CallRow(k)
  PROVE  /\ \A b \in BOOLEAN : /\ [c EXCEPT !.ended = b] \in CallRow(k) /\ [c EXCEPT !.aged = b] \in CallRow(k)
                               /\ [c EXCEPT !.quiet = b] \in CallRow(k) /\ [c EXCEPT !.rec = b] \in CallRow(k)
                               /\ [c EXCEPT !.synced = b] \in CallRow(k) /\ [c EXCEPT !.feed = b] \in CallRow(k)
         /\ \A d \in Dispositions : [c EXCEPT !.dispo = d] \in CallRow(k)
         /\ \A d \in Dispositions, b \in BOOLEAN :
              [c EXCEPT !.dispo = d, !.ended = TRUE, !.failed = FALSE, !.client = @ \/ b] \in CallRow(k)
         /\ \A n \in 0 .. k : [c EXCEPT !.task = n] \in CallRow(k)
BY DEF CallRow

\* The call has ended: the row written by a report of its end.
EndedAs(f) == [call EXCEPT !.ended = TRUE, !.failed = f]
Ends == SetCall(EndedAs(TRUE)) \/ SetCall(EndedAs(FALSE))

LEMMA EndEnds == ASSUME NEW h, End(h) PROVE Ends
<1>1. PICK f \in BOOLEAN : SetCall([call EXCEPT !.ended = TRUE, !.failed = f])
  BY DEF End
<1>2. f = TRUE \/ f = FALSE
  OBVIOUS
<1> QED
  BY <1>1, <1>2 DEF Ends, EndedAs

LEMMA EndsKeep ==
  ASSUME NEW k \in Nat, call \in CallRow(k), Ends
  PROVE  /\ call' \in CallRow(k) /\ call'.dispo = call.dispo /\ call'.task = call.task
         /\ call'.feed = call.feed /\ call'.client = call.client
<1>1. ASSUME NEW f \in BOOLEAN, SetCall(EndedAs(f))
      PROVE  /\ call' \in CallRow(k) /\ call'.dispo = call.dispo /\ call'.task = call.task
             /\ call'.feed = call.feed /\ call'.client = call.client
  BY <1>1 DEF SetCall, EndedAs, CallRow
<1> QED
  BY <1>1 DEF Ends

\* The rejected link, or the link, on one Task.
LEMMA LinkOf ==
  ASSUME NEW w, PatchLink(w)
  PROVE  \E a \in LinkStates :
           tasks' = [tasks EXCEPT ![mem[w].n] = [tasks[mem[w].n] EXCEPT !.link = a]]
<1>1. PICK answer \in {"present", "rejected"} :
        tasks' = [tasks EXCEPT ![mem[w].n].link = IF @ = "present" THEN @ ELSE answer]
  BY DEF PatchLink
<1> DEFINE a == IF tasks[mem[w].n].link = "present" THEN tasks[mem[w].n].link ELSE answer
<1>2. tasks' = [tasks EXCEPT ![mem[w].n] = [tasks[mem[w].n] EXCEPT !.link = a]]
  BY <1>1
<1>3. a \in LinkStates
  BY DEF LinkStates
<1> HIDE DEF a
<1> QED
  BY <1>2, <1>3

\* What moving one worker leaves of the others.
LEMMA GotoFacts ==
  ASSUME TypeWorkers, NEW w \in Workers, NEW s, NEW m, Goto(w, s, m)
  PROVE  /\ pc'[w] = s /\ mem'[w] = m /\ inbound' = inbound
         /\ \A v \in Workers : v # w => pc'[v] = pc[v] /\ mem'[v] = mem[v]
BY DEF Goto, TypeWorkers

LEMMA WorkersKept ==
  ASSUME Types, tasks' \in Seq(TaskRow), Len(tasks) <= Len(tasks'),
         NEW w \in Workers, NEW s \in StepsOf(w), NEW m \in Memo(Len(tasks')), Goto(w, s, m),
         s = "setDispo" => m.choice \in RepChoices
  PROVE  TypeWorkers'
<1>1. Len(tasks) \in Nat /\ Len(tasks') \in Nat
  BY DEF Types, TypeRows
<1>2. mem \in [Workers -> Memo(Len(tasks'))]
  BY <1>1, MemoGrows DEF Types, TypeWorkers
<1>3. s \in ReplicaSteps \cup HandlerSteps
  BY DEF StepsOf
<1>4. pc' \in [Workers -> ReplicaSteps \cup HandlerSteps] /\ mem' \in [Workers -> Memo(Len(tasks'))]
  BY <1>2, <1>3 DEF Goto, Types, TypeWorkers
<1>5. \A v \in Workers : pc'[v] \in StepsOf(v) /\ (pc'[v] = "setDispo" => mem'[v].choice \in RepChoices)
  <2> TAKE v \in Workers
  <2>1. CASE v = w
    BY <2>1, GotoFacts DEF Types
  <2>2. CASE v # w
    BY <2>2, GotoFacts DEF Types, TypeWorkers
  <2> QED
    BY <2>1, <2>2
<1> QED
  BY <1>4, <1>5 DEF TypeWorkers, StepsOf

-----------------------------------------------------------------------------
(* Types.                                                                  *)

LEMMA InitTypes == ASSUME CallAssumption, Init PROVE Types
<1>1. tasks \in Seq(TaskRow) /\ Len(tasks) = 0
  BY DEF Init
<1>2. NoCall \in CallRow(0) /\ NoJob \in JobRow
  BY DEF NoCall, CallRow, NoJob, JobRow, JobStatus, Dispositions
<1>3. NoMem \in Memo(0)
  BY NoMemType
<1>4. \A w \in Workers : "idle" \in StepsOf(w)
  BY DEF StepsOf, ReplicaSteps, HandlerSteps
<1> QED
  BY <1>1, <1>2, <1>3, <1>4 DEF Init, Types, TypeRows, TypeCounts, TypeWorkers, StepsOf, ReplicaSteps

LEMMA SeqUpdate ==
  ASSUME NEW R, NEW s \in Seq(R), NEW i, NEW e, i \in 1 .. Len(s) => e \in R
  PROVE  [s EXCEPT ![i] = e] \in Seq(R) /\ Len([s EXCEPT ![i] = e]) = Len(s)
<1>1. s \in [1 .. Len(s) -> R] /\ Len(s) \in Nat
  OBVIOUS
<1>2. [s EXCEPT ![i] = e] \in [1 .. Len(s) -> R]
  BY <1>1
<1> QED
  BY <1>1, <1>2

\* Tasks are made, and changed in place; none is taken away.
LEMMA TasksStep ==
  ASSUME Types, Next
  PROVE  tasks' \in Seq(TaskRow) /\ Len(tasks) <= Len(tasks')
<1>1. \A w \in Workers : MakeTask(w) => tasks' \in Seq(TaskRow) /\ Len(tasks) <= Len(tasks')
  <2> SUFFICES ASSUME NEW w \in Workers, MakeTask(w) PROVE tasks' \in Seq(TaskRow) /\ Len(tasks) <= Len(tasks')
    OBVIOUS
  <2>1. [dispo |-> mem[w].dispo, link |-> "none"] \in TaskRow
    BY DEF Types, TypeWorkers, Memo, TaskRow, LinkStates
  <2> QED
    BY <2>1 DEF MakeTask, Types, TypeRows
<1>2. \A w \in Workers : PatchLink(w) => tasks' \in Seq(TaskRow) /\ Len(tasks) <= Len(tasks')
  <2> SUFFICES ASSUME NEW w \in Workers, PatchLink(w) PROVE tasks' \in Seq(TaskRow) /\ Len(tasks) <= Len(tasks')
    OBVIOUS
  <2>2. PICK a \in LinkStates : tasks' = [tasks EXCEPT ![mem[w].n] = [tasks[mem[w].n] EXCEPT !.link = a]]
    BY LinkOf
  <2>1. \A r \in TaskRow : [r EXCEPT !.link = a] \in TaskRow
    BY DEF TaskRow
  <2>3. tasks \in Seq(TaskRow) /\ Len(tasks) \in Nat
    BY DEF Types, TypeRows
  <2> DEFINE i == mem[w].n
             e == [tasks[i] EXCEPT !.link = a]
  <2>4. i \in 1 .. Len(tasks) => e \in TaskRow
    BY <2>1, <2>3
  <2>5. tasks' = [tasks EXCEPT ![i] = e]
    BY <2>2
  <2> HIDE DEF i, e
  <2>6. [tasks EXCEPT ![i] = e] \in Seq(TaskRow) /\ Len([tasks EXCEPT ![i] = e]) = Len(tasks)
    BY <2>3, <2>4, SeqUpdate
  <2> QED
    BY <2>3, <2>5, <2>6
<1>3. \A h \in Handlers : Correct(h) => tasks' \in Seq(TaskRow) /\ Len(tasks) <= Len(tasks')
  <2> SUFFICES ASSUME NEW h \in Handlers, Correct(h) PROVE tasks' \in Seq(TaskRow) /\ Len(tasks) <= Len(tasks')
    OBVIOUS
  <2>0. mem[h].choice \in Dispositions
    BY DEF Types, TypeWorkers, Memo, Dispositions, Workers
  <2>1. \A r \in TaskRow : [r EXCEPT !.dispo = mem[h].choice] \in TaskRow
    BY <2>0 DEF TaskRow
  <2>2. tasks' = [tasks EXCEPT ![mem[h].task] = [tasks[mem[h].task] EXCEPT !.dispo = mem[h].choice]]
    BY DEF Correct
  <2>3. tasks \in Seq(TaskRow) /\ Len(tasks) \in Nat
    BY DEF Types, TypeRows
  <2> DEFINE i == mem[h].task
             e == [tasks[i] EXCEPT !.dispo = mem[h].choice]
  <2>4. i \in 1 .. Len(tasks) => e \in TaskRow
    BY <2>1, <2>3
  <2>5. tasks' = [tasks EXCEPT ![i] = e]
    BY <2>2
  <2> HIDE DEF i, e
  <2>6. [tasks EXCEPT ![i] = e] \in Seq(TaskRow) /\ Len([tasks EXCEPT ![i] = e]) = Len(tasks)
    BY <2>3, <2>4, SeqUpdate
  <2> QED
    BY <2>3, <2>5, <2>6
<1>4. ASSUME tasks' = tasks PROVE tasks' \in Seq(TaskRow) /\ Len(tasks) <= Len(tasks')
  BY <1>4 DEF Types, TypeRows
<1>5. \A w \in Workers : Create(w) \/ CreateUnanswered(w) => MakeTask(w)
  BY DEF Create, CreateUnanswered
<1>6. \A w \in Replicas : Tick(w) => tasks' = tasks
  BY Zenon DEF Tick, Reap, ReapInbound, Rescue, Sweep, Mark, EnqueueMarked, List, Claim, SweepLinks, outside
<1>7. \A w \in Replicas : Sync(w) => Create(w) \/ tasks' = tasks
  BY Zenon DEF Sync, ReadCall, GatePasses, NotOwner, StampTask, Chatter, StampFeed, Fresh, Finish, Fail, outside
<1>8. \A h \in Handlers : End(h) \/ Recorded(h) \/ Ask(h) \/ Handle(h) => Correct(h) \/ tasks' = tasks
  BY Zenon DEF End, Recorded, Ask, Dispose, EnsureLogged, Handle, SetDispo, Enqueue, outside
<1>9. \A w \in Workers : Push_(w) \/ Failure(w) => PatchLink(w) \/ CreateUnanswered(w) \/ tasks' = tasks
  BY Zenon DEF Push_, Push, StampLink, Failure, CorrectFails, PatchLinkFails, RequestFails, Crash, outside
<1>10. World => tasks' = tasks
  BY Zenon DEF World, Age, Quiet, Due, Stale, outside
<1>11. Replicas \subseteq Workers /\ Handlers \subseteq Workers
  BY DEF Workers
<1> QED
  BY Zenon, <1>1, <1>2, <1>3, <1>4, <1>5, <1>6, <1>7, <1>8, <1>9, <1>10, <1>11 DEF Next

LEMMA JobStep ==
  ASSUME CallAssumption, Types, Next
  PROVE  job' \in JobRow
<1>0. job \in JobRow
  BY DEF Types, TypeRows
<1>1. Enqueued \in JobRow
  BY <1>0 DEF Enqueued, JobRow, JobStatus
<1>2. ASSUME NEW w \in Workers, Reap(w) \/ Claim(w) \/ NotOwner(w) \/ Finish(w) PROVE job' \in JobRow
  BY <1>0, <1>2 DEF Reap, Claim, NotOwner, Finish, JobRow, JobStatus
<1>3. ASSUME NEW w \in Workers, Fail(w) PROVE job' \in JobRow
  <2>1. mem[w].tries \in Nat
    BY DEF Types, TypeWorkers, Memo
  <2> DEFINE st == IF mem[w].fatal \/ mem[w].tries + 1 >= MaxAttempts THEN "failed" ELSE "pending"
             n == mem[w].tries + 1
  <2>2. st \in JobStatus /\ n \in Nat
    BY <2>1 DEF JobStatus
  <2>3. job' = [job EXCEPT !.st = st, !.tries = n, !.due = FALSE, !.old = FALSE]
    BY <1>3 DEF Fail
  <2> HIDE DEF st, n
  <2> QED
    BY <1>0, <2>2, <2>3 DEF JobRow
<1>4. ASSUME Due \/ Stale PROVE job' \in JobRow
  BY <1>0, <1>4 DEF Due, Stale, JobRow, JobStatus
<1>6. \A w \in Replicas : Tick(w) => Reap(w) \/ Claim(w) \/ job' = job \/ job' = Enqueued
  BY Zenon DEF Tick, ReapInbound, Rescue, Sweep, Mark, EnqueueMarked, List, SweepLinks
<1>7. \A w \in Replicas : Sync(w) => NotOwner(w) \/ Finish(w) \/ Fail(w) \/ job' = job
  BY Zenon DEF Sync, ReadCall, GatePasses, Create, StampTask, Chatter, StampFeed, Fresh
<1>8. \A h \in Handlers : End(h) \/ Recorded(h) \/ Ask(h) \/ Handle(h) => job' = Enqueued \/ job' = job
  BY Zenon DEF End, Recorded, Ask, Dispose, EnsureLogged, Handle, SetDispo, Enqueue, Correct
<1>9. \A w \in Workers : Push_(w) \/ Failure(w) => job' = job
  BY Zenon DEF Push_, Push, PatchLink, StampLink, Failure, CorrectFails, PatchLinkFails, CreateUnanswered,
     RequestFails, Crash
<1>10. World => Due \/ Stale \/ job' = job
  BY Zenon DEF World, Age, Quiet
<1>11. Replicas \subseteq Workers /\ Handlers \subseteq Workers
  BY DEF Workers
<1> QED
  BY Zenon, <1>0, <1>1, <1>2, <1>3, <1>4, <1>6, <1>7, <1>8, <1>9, <1>10, <1>11 DEF Next

LEMMA CountsStep ==
  ASSUME Types, Next
  PROVE  TypeCounts'
<1>1. \A w \in Workers : Chatter(w) => TypeCounts'
  BY DEF Chatter, Types, TypeCounts, Bounds, ghosts
<1>2. \A w \in Workers : Dispose(w) \/ EnsureLogged(w) => TypeCounts'
  <2>1. ASSUME Request /\ UNCHANGED <<outside, ghosts>> PROVE TypeCounts'
    BY <2>1 DEF Request, outside, ghosts, Types, TypeCounts
  <2> QED
    BY Zenon, <2>1 DEF Dispose, EnsureLogged
<1>3. \A w \in Workers : SetDispo(w) => TypeCounts'
  BY DEF SetDispo, Bounds, outside, Types, TypeCounts
<1>4. \A w \in Workers : CorrectFails(w) => TypeCounts'
  BY DEF CorrectFails, Fault, outside, Types, TypeCounts
<1>5. \A w \in Workers : PatchLinkFails(w) \/ RequestFails(w) => TypeCounts'
  BY DEF PatchLinkFails, RequestFails, Fault, outside, ghosts, Types, TypeCounts
<1>6. \A w \in Workers : CreateUnanswered(w) => TypeCounts'
  BY DEF CreateUnanswered, Fault, Types, TypeCounts
<1>7. \A w \in Workers : Crash(w) => TypeCounts'
  BY DEF Crash, Fault, outside, Types, TypeCounts
<1>8. UNCHANGED <<posts, unheard, cut, raced, asked, faults>> => TypeCounts'
  BY DEF Types, TypeCounts
<1>9. \A w \in Replicas : Tick(w) => UNCHANGED <<posts, unheard, cut, raced, asked, faults>>
  BY Zenon DEF Tick, Reap, ReapInbound, Rescue, Sweep, Mark, EnqueueMarked, List, Claim, SweepLinks,
     Bounds, outside, ghosts
<1>10. \A w \in Replicas : Sync(w) => Chatter(w) \/ UNCHANGED <<posts, unheard, cut, raced, asked, faults>>
  BY Zenon DEF Sync, ReadCall, GatePasses, NotOwner, Create, StampTask, StampFeed, Fresh, Finish, Fail,
     Bounds, outside, ghosts
<1>11. \A h \in Handlers : End(h) \/ Recorded(h) \/ Enqueue(h) \/ Correct(h)
                            => UNCHANGED <<posts, unheard, cut, raced, asked, faults>>
  BY Zenon DEF End, Recorded, Enqueue, Correct, Bounds, outside, ghosts
<1>12. \A w \in Workers : Push_(w) => UNCHANGED <<posts, unheard, cut, raced, asked, faults>>
  BY Zenon DEF Push_, Push, PatchLink, StampLink, Bounds, outside, ghosts
<1>13. World => UNCHANGED <<posts, unheard, cut, raced, asked, faults>>
  BY Zenon DEF World, Age, Quiet, Due, Stale, Bounds, outside, ghosts
<1>14. Replicas \subseteq Workers /\ Handlers \subseteq Workers
  BY DEF Workers
<1> QED
  BY Zenon, <1>1, <1>2, <1>3, <1>4, <1>5, <1>6, <1>7, <1>8, <1>9, <1>10, <1>11, <1>12, <1>13, <1>14
     DEF Next, Ask, Handle, Failure

\* The writes of the call row.
LEMMA CallStep ==
  ASSUME CallAssumption, Types, Next
  PROVE  call' \in CallRow(Len(tasks'))
<1> DEFINE k == Len(tasks')
<1>0. call \in CallRow(k) /\ k \in Nat
  <2>1. Len(tasks) \in Nat /\ Len(tasks') \in Nat /\ Len(tasks) <= Len(tasks')
    BY TasksStep DEF Types, TypeRows
  <2> QED
    BY <2>1, MemoGrows DEF Types, TypeRows
<1> HIDE DEF k
<1>1. \A c \in CallRow(k) : SetCall(c) => call' \in CallRow(k)
  BY <1>0, CallUpdate DEF SetCall
<1>2. \A h \in Workers : SetDispo(h) => call' \in CallRow(k)
  <2> SUFFICES ASSUME NEW h \in Workers, SetDispo(h) PROVE call' \in CallRow(k)
    OBVIOUS
  <2>1. mem[h].choice \in Dispositions /\ mem[h].skip \in BOOLEAN
    BY DEF Types, TypeWorkers, Memo, Dispositions
  <2>2. Disposed(h) \in CallRow(k)
    BY <1>0, <2>1, CallUpdate DEF Disposed
  <2> QED
    BY <1>1, <2>2 DEF SetDispo
<1>3. \A w \in Workers : StampTask(w) => call' \in CallRow(k)
  <2> SUFFICES ASSUME NEW w \in Workers, StampTask(w) PROVE call' \in CallRow(k)
    OBVIOUS
  <2>1. tasks' = tasks
    BY DEF StampTask, outside
  <2>2. mem[w].n \in 0 .. k
    BY <2>1 DEF k, Types, TypeWorkers, Memo
  <2>3. [call EXCEPT !.task = mem[w].n] \in CallRow(k)
    BY <1>0, <2>2, CallUpdate
  <2> QED
    BY <1>1, <2>3 DEF StampTask
<1>4. /\ [call EXCEPT !.ended = TRUE] \in CallRow(k) /\ [call EXCEPT !.aged = TRUE] \in CallRow(k)
      /\ [call EXCEPT !.quiet = TRUE] \in CallRow(k) /\ [call EXCEPT !.rec = TRUE] \in CallRow(k)
      /\ [call EXCEPT !.synced = TRUE] \in CallRow(k) /\ [call EXCEPT !.feed = TRUE] \in CallRow(k)
      /\ [call EXCEPT !.dispo = "auto"] \in CallRow(k)
  BY <1>0, CallUpdate DEF Dispositions
<1>5. \A w \in Replicas : Tick(w) => \/ call' = call \/ SetCall([call EXCEPT !.ended = TRUE])
                                     \/ SetCall([call EXCEPT !.dispo = "auto"])
  BY Zenon DEF Tick, Reap, ReapInbound, Rescue, Sweep, Mark, EnqueueMarked, List, Claim, SweepLinks
<1>6. \A w \in Replicas : Sync(w) => \/ call' = call \/ StampTask(w) \/ SetCall([call EXCEPT !.feed = TRUE])
  BY Zenon DEF Sync, ReadCall, GatePasses, NotOwner, Create, Chatter, StampFeed, Fresh, Finish, Fail
<1>7. \A h \in Handlers : End(h) \/ Recorded(h) \/ Ask(h) \/ Handle(h)
        => \/ call' = call \/ SetDispo(h) \/ Ends \/ SetCall([call EXCEPT !.rec = TRUE])
  BY Zenon, EndEnds DEF Recorded, Ask, Dispose, EnsureLogged, Handle, Enqueue, Correct
<1>8. \A w \in Workers : Push_(w) \/ Failure(w) => call' = call \/ SetCall([call EXCEPT !.synced = TRUE])
  BY Zenon DEF Push_, Push, PatchLink, StampLink, Failure, CorrectFails, PatchLinkFails, CreateUnanswered,
     RequestFails, Crash
<1>9. World => \/ call' = call \/ call' = [call EXCEPT !.aged = TRUE]
               \/ call' = [call EXCEPT !.quiet = TRUE]
  BY Zenon DEF World, Age, Quiet, Due, Stale
<1>10. Replicas \subseteq Workers /\ Handlers \subseteq Workers /\ (Ends => call' \in CallRow(k))
  BY <1>0, EndsKeep DEF Workers
<1>11. call' \in CallRow(k)
  BY Zenon, <1>0, <1>1, <1>2, <1>3, <1>4, <1>5, <1>6, <1>7, <1>8, <1>9, <1>10 DEF Next
<1> QED
  BY <1>11 DEF k

\* A step moves one worker, and within its own steps.
Goes == \E w \in Workers : \E s \in StepsOf(w), m \in Memo(Len(tasks')) :
          Goto(w, s, m) /\ (s = "setDispo" => m.choice \in RepChoices)

LEMMA TickGoes ==
  ASSUME CallAssumption, Types, NEW w \in Replicas, Tick(w), Next
  PROVE  Goes
<1> DEFINE k == Len(tasks')
<1>0. mem[w] \in Memo(k) /\ k \in Nat /\ w \in Workers
  <2>1. Len(tasks) \in Nat /\ Len(tasks') \in Nat /\ Len(tasks) <= Len(tasks')
    BY TasksStep DEF Types, TypeRows
  <2> QED
    BY <2>1, MemoGrows DEF Types, TypeWorkers, Workers
<1> HIDE DEF k
<1>1. \A n \in Nat : [NoMem EXCEPT !.tries = n] \in Memo(k)
  BY <1>0, NoMemType, MemoUpdate
<1>2. NoMem \in Memo(k) /\ job.tries \in Nat
  BY <1>0, NoMemType DEF Types, TypeRows, JobRow
<1>3. StepsOf(w) = ReplicaSteps
  BY DEF StepsOf
<1>4. \E s \in ReplicaSteps \ {"setDispo"}, m \in Memo(k) : Goto(w, s, m)
  <2> DEFINE s == IF job.st = "pending" /\ job.due THEN "claim" ELSE "links"
             t == IF call.rec /\ call.task # 0 /\ ~call.synced /\ call.quiet THEN "push" ELSE "idle"
  <2>1. {"idle", "reapInbound", "rescue", "sweep", "mark", "marked", "list", "claim", "links", "push", "read", s, t}
          \subseteq ReplicaSteps \ {"setDispo"}
    BY DEF ReplicaSteps, Syncing
  <2>2. CASE Reap(w) \/ ReapInbound(w) \/ Rescue(w) \/ Sweep(w) \/ Mark(w) \/ EnqueueMarked(w) \/ Claim(w)
    BY Zenon, <1>0, <1>2, <2>1, <2>2 DEF Reap, ReapInbound, Rescue, Sweep, Mark, EnqueueMarked, Claim
  <2>3. CASE List(w)
    <3>1. Goto(w, s, [NoMem EXCEPT !.tries = job.tries])
      BY <2>3 DEF List
    <3> HIDE DEF s
    <3> QED
      BY Zenon, <1>1, <1>2, <2>1, <3>1
  <2>4. CASE SweepLinks(w)
    BY Zenon, <1>2, <2>1, <2>4 DEF SweepLinks
  <2> QED
    BY Zenon, <2>2, <2>3, <2>4 DEF Tick
<1> QED
  BY Zenon, <1>0, <1>3, <1>4 DEF Goes, k

LEMMA SyncGoes ==
  ASSUME CallAssumption, Types, NEW w \in Replicas, Sync(w), Next
  PROVE  Goes
<1> DEFINE k == Len(tasks')
<1>0. mem[w] \in Memo(k) /\ k \in Nat /\ w \in Workers
  <2>1. Len(tasks) \in Nat /\ Len(tasks') \in Nat /\ Len(tasks) <= Len(tasks')
    BY TasksStep DEF Types, TypeRows
  <2> QED
    BY <2>1, MemoGrows DEF Types, TypeWorkers, Workers
<1> HIDE DEF k
<1>2. NoMem \in Memo(k) /\ call.dispo \in Dispositions /\ call.feed \in BOOLEAN
  BY <1>0, NoMemType DEF Types, TypeRows, CallRow
<1>3. StepsOf(w) = ReplicaSteps
  BY DEF StepsOf
<1>4. \E s \in ReplicaSteps \ {"setDispo"}, m \in Memo(k) : Goto(w, s, m)
  <2> DEFINE s == IF call.task # 0 THEN "finish" ELSE IF inbound THEN "create" ELSE "gate"
             t == IF call.rec THEN "link" ELSE "finish"
  <2>1. {"create", "links", "stamp", "chatter", "feed", "fresh", s, t} \subseteq ReplicaSteps \ {"setDispo"}
    BY DEF ReplicaSteps, Syncing
  <2>2. CASE GatePasses(w) \/ NotOwner(w) \/ StampTask(w) \/ Chatter(w) \/ StampFeed(w) \/ Fresh(w)
             \/ Finish(w) \/ Fail(w)
    BY Zenon, <1>0, <1>2, <2>1, <2>2 DEF GatePasses, NotOwner, StampTask, Chatter, StampFeed, Fresh, Finish, Fail
  <2>3. CASE ReadCall(w)
    <3>1. Goto(w, s, [mem[w] EXCEPT !.dispo = call.dispo, !.feed = call.feed])
      BY <2>3 DEF ReadCall
    <3>2. [mem[w] EXCEPT !.dispo = call.dispo, !.feed = call.feed] \in Memo(k)
      BY <1>0, <1>2, MemoUpdate
    <3> HIDE DEF s
    <3> QED
      BY Zenon, <2>1, <3>1, <3>2
  <2>4. CASE Create(w)
    <3>1. Goto(w, "stamp", [mem[w] EXCEPT !.n = Len(tasks) + 1]) /\ MakeTask(w)
      BY <2>4 DEF Create
    <3>2. Len(tasks) + 1 \in 0 .. k
      BY <3>1 DEF MakeTask, k, Types, TypeRows
    <3>3. [mem[w] EXCEPT !.n = Len(tasks) + 1] \in Memo(k)
      BY <1>0, <3>2, MemoUpdate
    <3> QED
      BY Zenon, <2>1, <3>1, <3>3
  <2> QED
    BY Zenon, <2>2, <2>3, <2>4 DEF Sync
<1> QED
  BY Zenon, <1>0, <1>3, <1>4 DEF Goes, k

LEMMA HandlerGoes ==
  ASSUME CallAssumption, Types, NEW w \in Handlers, End(w) \/ Recorded(w) \/ Ask(w) \/ Handle(w), Next
  PROVE  Goes
<1> DEFINE k == Len(tasks')
<1>0. mem[w] \in Memo(k) /\ k \in Nat /\ w \in Workers
  <2>1. Len(tasks) \in Nat /\ Len(tasks') \in Nat /\ Len(tasks) <= Len(tasks')
    BY TasksStep DEF Types, TypeRows
  <2> QED
    BY <2>1, MemoGrows DEF Types, TypeWorkers, Workers
<1>1. call.task \in 0 .. k
  <2>1. Len(tasks) \in Nat /\ Len(tasks') \in Nat /\ Len(tasks) <= Len(tasks')
    BY TasksStep DEF Types, TypeRows
  <2> QED
    BY <2>1 DEF Types, TypeRows, CallRow
<1> HIDE DEF k
<1>2. NoMem \in Memo(k)
  BY <1>0, NoMemType
<1>3. StepsOf(w) = HandlerSteps
  BY DEF StepsOf, CallAssumption
<1>4. \E s \in HandlerSteps, m \in Memo(k) : Goto(w, s, m) /\ (s = "setDispo" => m.choice \in RepChoices)
  <2> DEFINE a == IF inbound THEN "enqueue" ELSE "idle"
             s == IF mem[w].skip THEN "idle" ELSE IF mem[w].task # 0 THEN "correct" ELSE "enqueue"
             m == IF mem[w].skip THEN NoMem ELSE mem[w]
  <2>1. {"idle", "enqueue", "push", s, a} \subseteq HandlerSteps \ {"setDispo"} /\ "setDispo" \in HandlerSteps
    BY DEF HandlerSteps
  <2>2. m \in Memo(k)
    BY <1>0, <1>2
  <2>3. CASE Dispose(w)
    <3>1. PICK d \in RepChoices, skip \in BOOLEAN :
            Goto(w, "setDispo", [NoMem EXCEPT !.task = call.task, !.choice = d, !.skip = skip])
      BY <2>3 DEF Dispose
    <3> DEFINE n == [NoMem EXCEPT !.task = call.task, !.choice = d, !.skip = skip]
    <3>2. n \in Memo(k) /\ n.choice \in RepChoices
      <4>1. \A t \in 0 .. k, c \in RepChoices, b \in BOOLEAN :
              /\ [NoMem EXCEPT !.task = t, !.choice = c, !.skip = b] \in Memo(k)
              /\ [NoMem EXCEPT !.task = t, !.choice = c, !.skip = b].choice = c
        BY ZenonT(30), <1>0, <1>2, MemoUpdate
      <4> QED
        BY <4>1, <1>1
    <3>3. Goto(w, "setDispo", n)
      BY <3>1
    <3> HIDE DEF n
    <3> QED
      BY <2>1, <3>2, <3>3
  <2>4. CASE SetDispo(w)
    <3>1. Goto(w, s, m)
      BY <2>4 DEF SetDispo
    <3> HIDE DEF s, m
    <3> QED
      BY Zenon, <2>1, <2>2, <3>1
  <2>5. CASE End(w)
    <3>1. Goto(w, a, NoMem)
      BY <2>5 DEF End
    <3> HIDE DEF a
    <3> QED
      BY Zenon, <2>1, <1>2, <3>1
  <2>6. CASE Recorded(w) \/ EnsureLogged(w) \/ Correct(w) \/ Enqueue(w)
    <3>1. Goto(w, "push", NoMem) \/ Goto(w, "enqueue", NoMem) \/ Goto(w, "idle", NoMem)
      BY Zenon, <2>6 DEF Recorded, EnsureLogged, Correct, Enqueue
    <3> HIDE DEF a, s, m
    <3> QED
      BY <2>1, <1>2, <3>1
  <2> QED
    BY Zenon, <2>3, <2>4, <2>5, <2>6 DEF Ask, Handle
<1> QED
  BY <1>0, <1>3, <1>4 DEF Goes, k

LEMMA WorkerGoes ==
  ASSUME CallAssumption, Types, NEW w \in Workers, Push_(w) \/ Failure(w), Next
  PROVE  Goes
<1> DEFINE k == Len(tasks')
<1>0. mem[w] \in Memo(k) /\ k \in Nat
  <2>1. Len(tasks) \in Nat /\ Len(tasks') \in Nat /\ Len(tasks) <= Len(tasks')
    BY TasksStep DEF Types, TypeRows
  <2> QED
    BY <2>1, MemoGrows DEF Types, TypeWorkers, Workers
<1>1. call.task \in 0 .. k
  <2>1. Len(tasks) \in Nat /\ Len(tasks') \in Nat /\ Len(tasks) <= Len(tasks')
    BY TasksStep DEF Types, TypeRows
  <2> QED
    BY <2>1 DEF Types, TypeRows, CallRow
<1> HIDE DEF k
<1>2. NoMem \in Memo(k)
  BY <1>0, NoMemType
<1>3. [NoMem EXCEPT !.n = call.task] \in Memo(k) /\ [mem[w] EXCEPT !.fatal = TRUE] \in Memo(k)
  BY <1>0, <1>1, <1>2, MemoUpdate
<1>4. {"idle", "pushLink", "pushStamp"} \subseteq StepsOf(w)
  BY DEF StepsOf, ReplicaSteps, HandlerSteps
<1>5. pc[w] \in Syncing => {"linkStamp", "finish", "fail"} \subseteq StepsOf(w)
  BY DEF StepsOf, ReplicaSteps, HandlerSteps, Syncing, Types, TypeWorkers
<1>6. \E s \in StepsOf(w) \ {"setDispo"}, m \in Memo(k) : Goto(w, s, m)
  <2>1. CASE Push(w)
    <3>1. Goto(w, "idle", NoMem) \/ Goto(w, "pushLink", [NoMem EXCEPT !.n = call.task])
      BY Zenon, <2>1 DEF Push
    <3> QED
      BY <3>1, <1>2, <1>3, <1>4
  <2>2. CASE PatchLink(w) \/ StampLink(w) \/ PatchLinkFails(w) \/ CreateUnanswered(w) \/ RequestFails(w)
    <3>1. \/ pc[w] \in Syncing /\ (Goto(w, "linkStamp", mem[w]) \/ Goto(w, "finish", mem[w]))
          \/ Goto(w, "pushStamp", mem[w]) \/ Goto(w, "idle", NoMem)
          \/ pc[w] \in Syncing /\ (Goto(w, "fail", mem[w]) \/ Goto(w, "fail", [mem[w] EXCEPT !.fatal = TRUE]))
      BY <2>2 DEF PatchLink, StampLink, PatchLinkFails, CreateUnanswered, RequestFails, At, Syncing
    <3> QED
      BY <3>1, <1>0, <1>2, <1>3, <1>4, <1>5
  <2>3. CASE CorrectFails(w) \/ Crash(w)
    <3>1. Goto(w, "idle", NoMem)
      BY Zenon, <2>3 DEF CorrectFails, Crash
    <3> QED
      BY <3>1, <1>2, <1>4
  <2> QED
    BY Zenon, <2>1, <2>2, <2>3 DEF Push_, Failure
<1> QED
  BY <1>6 DEF Goes, k

LEMMA TypeStep ==
  ASSUME CallAssumption, Types, [Next]_vars
  PROVE  Types'
<1>1. CASE UNCHANGED vars
  BY <1>1 DEF vars, Types, TypeRows, TypeCounts, TypeWorkers
<1>2. CASE World /\ Next
  <2>1. UNCHANGED <<pc, mem, inbound, tasks>>
    BY Zenon, <1>2 DEF World, Age, Quiet, Due, Stale, outside
  <2>2. TypeWorkers'
    BY <2>1 DEF Types, TypeWorkers
  <2> QED
    BY <1>2, <2>1, <2>2, TasksStep, JobStep, CountsStep, CallStep DEF Types, TypeRows
<1>3. CASE Goes /\ Next
  <2>1. PICK w \in Workers : \E s \in StepsOf(w), m \in Memo(Len(tasks')) :
          Goto(w, s, m) /\ (s = "setDispo" => m.choice \in RepChoices)
    BY <1>3 DEF Goes
  <2>2. PICK s \in StepsOf(w), m \in Memo(Len(tasks')) :
          Goto(w, s, m) /\ (s = "setDispo" => m.choice \in RepChoices)
    BY <2>1
  <2>3. TypeWorkers'
    BY <1>3, <2>2, TasksStep, WorkersKept
  <2>4. inbound' = inbound
    BY <2>2 DEF Goto
  <2> QED
    BY <1>3, <2>3, <2>4, TasksStep, JobStep, CountsStep, CallStep DEF Types, TypeRows
<1> QED
  BY <1>1, <1>2, <1>3, TickGoes, SyncGoes, HandlerGoes, WorkerGoes DEF Next

LEMMA TypesHold == ASSUME CallAssumption PROVE Spec => []Types
BY InitTypes, TypeStep, PTL DEF Spec

LEMMA TypesAreTyped == ASSUME Types PROVE TypeOK
BY DEF Types, TypeRows, TypeCounts, TypeWorkers, TypeOK, CallRow, JobRow, TaskRow, Memo

\* Every variable of the call log has its type, whatever the replicas, handlers,
\* faults and bounds (the part of WorkersTypeOK about calls).
THEOREM TypeCorrect == ASSUME CallAssumption PROVE Spec => []TypeOK
<1>1. Types => TypeOK
  BY TypesAreTyped
<1> QED
  BY <1>1, TypesHold, PTL

-----------------------------------------------------------------------------
(* One Task, one post.                                                     *)

\* What a replica by itself knows of the Tasks and the posts: before it creates
\* one there is none, and each is on the row, in its hand or unheard of.
LogR(w) ==
  /\ pc[w] \in {"gate", "create", "stamp"} => call.task = 0
  /\ pc[w] \in {"gate", "create", "stamp", "chatter"} => mem[w].feed = call.feed
  /\ pc[w] = "feed" => ~call.feed
  /\ pc[w] = "stamp" => mem[w].n # 0
  /\ Len(tasks) <= unheard + IF call.task # 0 \/ pc[w] = "stamp" THEN 1 ELSE 0
  /\ posts <= unheard + IF call.feed \/ pc[w] = "feed" THEN 1 ELSE 0
LogInv == Alone => \A w \in Replicas : LogR(w)

LEMMA OneReplica ==
  ASSUME CallAssumption, Alone, NEW v \in Replicas, NEW w \in Replicas
  PROVE  v = w
BY FS_Singleton DEF CallAssumption, Alone

\* What is beside a replica's own steps leaves it what it counts on.
Beside(w) ==
  /\ pc'[w] = pc[w] /\ mem'[w] = mem[w]
  /\ call'.task = call.task /\ call'.feed = call.feed
  /\ Len(tasks') = Len(tasks) /\ posts' = posts /\ unheard' >= unheard

LEMMA CallKeeps ==
  ASSUME NEW k \in Nat, NEW c \in CallRow(k)
  PROVE  /\ \A b \in BOOLEAN :
              /\ [c EXCEPT !.ended = b].task = c.task /\ [c EXCEPT !.ended = b].feed = c.feed
              /\ [c EXCEPT !.aged = b].task = c.task /\ [c EXCEPT !.aged = b].feed = c.feed
              /\ [c EXCEPT !.quiet = b].task = c.task /\ [c EXCEPT !.quiet = b].feed = c.feed
              /\ [c EXCEPT !.rec = b].task = c.task /\ [c EXCEPT !.rec = b].feed = c.feed
              /\ [c EXCEPT !.synced = b].task = c.task /\ [c EXCEPT !.synced = b].feed = c.feed
         /\ \A d \in Dispositions, b \in BOOLEAN :
              LET e == [c EXCEPT !.dispo = d, !.ended = TRUE, !.failed = FALSE, !.client = @ \/ b]
              IN  e.task = c.task /\ e.feed = c.feed
BY DEF CallRow

LEMMA WorldBeside ==
  ASSUME Types, NEW w \in Replicas, World
  PROVE  Beside(w)
<1>1. PICK k \in Nat : call \in CallRow(k)
  BY DEF Types, TypeRows
<1>2. call' = call \/ call' = [call EXCEPT !.aged = TRUE] \/ call' = [call EXCEPT !.quiet = TRUE]
  BY Zenon DEF World, Age, Quiet, Due, Stale
<1>3. call'.task = call.task /\ call'.feed = call.feed
  BY ZenonT(30), <1>1, <1>2, CallKeeps
<1>4. UNCHANGED <<pc, mem, tasks, posts, unheard>>
  BY Zenon DEF World, Age, Quiet, Due, Stale, outside, ghosts
<1> QED
  BY <1>3, <1>4 DEF Beside, Types, TypeCounts

\* The requests' and callbacks' steps.
Asked(h) == End(h) \/ Recorded(h) \/ Ask(h) \/ Handle(h) \/ Push_(h) \/ Failure(h)

LEMMA HandlerBeside ==
  ASSUME CallAssumption, Types, NEW w \in Replicas, NEW h \in Handlers, Asked(h)
  PROVE  Beside(w)
<1>0. h \in Workers /\ w \in Workers /\ h # w /\ pc[h] \in HandlerSteps
  BY DEF CallAssumption, Workers, Types, TypeWorkers, StepsOf
<1>1. PICK k \in Nat : call \in CallRow(k)
  BY DEF Types, TypeRows
<1>2. ~CreateUnanswered(h) /\ ~RequestFails(h)
  BY <1>0 DEF CreateUnanswered, RequestFails, At, HandlerSteps
<1>3. /\ call' = call \/ SetDispo(h) \/ Ends
         \/ SetCall([call EXCEPT !.rec = TRUE]) \/ SetCall([call EXCEPT !.synced = TRUE])
  BY Zenon, <1>2, EndEnds DEF Asked, Recorded, Ask, Dispose, EnsureLogged, Handle, Enqueue, Correct, Push_, Push,
     PatchLink, StampLink, Failure, CorrectFails, PatchLinkFails, Crash
<1>4. call'.task = call.task /\ call'.feed = call.feed
  <2>1. \A c \in CallRow(k) : SetCall(c) => call'.task = c.task /\ call'.feed = c.feed
    BY CallKeeps DEF SetCall
  <2>2. CASE SetDispo(h)
    <3>1. mem[h].choice \in Dispositions /\ mem[h].skip \in BOOLEAN
      BY <1>0 DEF Types, TypeWorkers, Memo, Dispositions
    <3> DEFINE c == Disposed(h)
    <3>2. c \in CallRow(k)
      BY <1>1, <3>1, CallUpdate DEF Disposed
    <3>4. c.task = call.task /\ c.feed = call.feed
      BY <1>1 DEF CallRow, Disposed
    <3>3. SetCall(c)
      BY <2>2 DEF SetDispo
    <3> HIDE DEF c
    <3> QED
      BY <2>1, <3>2, <3>3, <3>4
  <2>3. CASE call' = call
    BY <2>3
  <2>4. CASE SetCall([call EXCEPT !.rec = TRUE]) \/ SetCall([call EXCEPT !.synced = TRUE])
    <3> DEFINE b == [call EXCEPT !.rec = TRUE]  c == [call EXCEPT !.synced = TRUE]
    <3>1. \A d \in {b, c} : d \in CallRow(k) /\ d.task = call.task /\ d.feed = call.feed
      BY <1>1 DEF CallRow
    <3>2. SetCall(b) \/ SetCall(c)
      BY <2>4
    <3> HIDE DEF b, c
    <3> QED
      BY <2>1, <3>1, <3>2
  <2>5. CASE Ends
    BY <1>1, <2>5, EndsKeep
  <2> QED
    BY <1>3, <2>2, <2>3, <2>4, <2>5
<1>5. Len(tasks') = Len(tasks)
  <2>1. tasks' = tasks \/ (\E i, e : tasks' = [tasks EXCEPT ![i] = e])
    BY <1>2 DEF Asked, End, Recorded, Ask, Dispose, EnsureLogged, Handle, SetDispo, Enqueue, Correct, Push_, Push,
       PatchLink, StampLink, Failure, CorrectFails, PatchLinkFails, Crash, outside
  <2> QED
    BY <2>1 DEF Types, TypeRows
<1>6. posts' = posts
  BY Zenon, <1>2 DEF Asked, End, Recorded, Ask, Dispose, EnsureLogged, Handle, SetDispo, Enqueue, Correct, Push_, Push,
     PatchLink, StampLink, Failure, CorrectFails, PatchLinkFails, Crash, outside
<1>7. unheard' >= unheard
  <2>1. unheard' = unheard \/ unheard' = unheard + IF pc[h] \in {"stamp", "feed"} THEN 1 ELSE 0
    BY Zenon, <1>2 DEF Asked, End, Recorded, Ask, Dispose, EnsureLogged, Handle, SetDispo, Enqueue, Correct, Push_,
       Push, PatchLink, StampLink, Failure, CorrectFails, PatchLinkFails, Crash, ghosts
  <2> QED
    BY <2>1 DEF Types, TypeCounts
<1>8. \E s, m : Goto(h, s, m)
  BY Zenon DEF Asked, End, Recorded, Ask, Dispose, EnsureLogged, Handle, SetDispo, Enqueue, Correct, Push_, Push,
     PatchLink, StampLink, Failure, CorrectFails, PatchLinkFails, CreateUnanswered, RequestFails, Crash
<1>9. pc'[w] = pc[w] /\ mem'[w] = mem[w]
  BY <1>0, <1>8, GotoFacts DEF Types
<1> QED
  BY <1>4, <1>5, <1>6, <1>7, <1>9 DEF Beside

LEMMA Grows ==
  ASSUME NEW a \in Nat, NEW b \in Nat, NEW x \in Nat, b >= a
  PROVE  x <= a + 1 => x <= b + 1
OBVIOUS

LEMMA BesideLog ==
  ASSUME Types, NEW w \in Replicas, LogR(w), Beside(w), unheard' \in Nat
  PROVE  LogR(w)'
<1>1. Len(tasks) \in Nat /\ posts \in Nat /\ unheard \in Nat
  BY DEF Types, TypeRows, TypeCounts
<1>2. Len(tasks') <= unheard' + IF call'.task # 0 \/ pc'[w] = "stamp" THEN 1 ELSE 0
  <2>1. Len(tasks) <= unheard + IF call.task # 0 \/ pc[w] = "stamp" THEN 1 ELSE 0
    BY DEF LogR
  <2>2. Len(tasks') = Len(tasks) /\ unheard' >= unheard /\ call'.task = call.task /\ pc'[w] = pc[w]
    BY DEF Beside
  <2>3. CASE call.task # 0 \/ pc[w] = "stamp"
    BY <1>1, <2>1, <2>2, <2>3
  <2>4. CASE ~(call.task # 0 \/ pc[w] = "stamp")
    BY <1>1, <2>1, <2>2, <2>4
  <2> QED
    BY <2>3, <2>4
<1>3. posts' <= unheard' + IF call'.feed \/ pc'[w] = "feed" THEN 1 ELSE 0
  <2>1. posts <= unheard + IF call.feed \/ pc[w] = "feed" THEN 1 ELSE 0
    BY DEF LogR
  <2>2. call'.feed \/ pc'[w] = "feed" <=> call.feed \/ pc[w] = "feed"
    BY Zenon DEF Beside
  <2>3. posts' = posts /\ unheard' >= unheard
    BY DEF Beside
  <2>4. CASE call.feed \/ pc[w] = "feed"
    <3>1. call'.feed \/ pc'[w] = "feed"
      BY <2>2, <2>4
    <3>2. posts <= unheard + 1
      BY <2>1, <2>4
    <3>3. posts' <= unheard' + 1
      BY <1>1, <2>3, <3>2, Grows
    <3> QED
      BY <3>1, <3>3
  <2>5. CASE ~(call.feed \/ pc[w] = "feed")
    <3>1. ~(call'.feed \/ pc'[w] = "feed")
      BY <2>2, <2>5
    <3>2. posts <= unheard
      BY <1>1, <2>1, <2>5
    <3>3. posts' <= unheard'
      BY <1>1, <2>3, <3>2
    <3> QED
      BY <3>1, <3>3
  <2> QED
    BY <2>4, <2>5
<1>4. call.feed \in BOOLEAN
  BY DEF Types, TypeRows, CallRow
<1> QED
  BY <1>2, <1>3, <1>4 DEF LogR, Beside

LEMMA TickLog ==
  ASSUME CallAssumption, Types, Types', NEW w \in Replicas, LogR(w), Tick(w)
  PROVE  LogR(w)'
<1>0. w \in Workers /\ TypeWorkers
  BY DEF Workers, Types
<1>1. PICK k \in Nat : call \in CallRow(k)
  BY DEF Types, TypeRows
<1>2. call' = call \/ call' = [[call EXCEPT !.ended = TRUE] EXCEPT !.quiet = FALSE]
        \/ call' = [[call EXCEPT !.dispo = "auto"] EXCEPT !.quiet = FALSE]
  BY Zenon DEF Tick, Reap, ReapInbound, Rescue, Sweep, Mark, EnqueueMarked, List, Claim, SweepLinks, SetCall
<1>3. call'.task = call.task /\ call'.feed = call.feed
  BY <1>1, <1>2 DEF CallRow
<1>4. UNCHANGED <<tasks, posts, unheard>>
  BY Zenon DEF Tick, Reap, ReapInbound, Rescue, Sweep, Mark, EnqueueMarked, List, Claim, SweepLinks, outside, ghosts
<1>5. pc[w] \notin {"stamp", "feed"}
  BY DEF Tick, Reap, ReapInbound, Rescue, Sweep, Mark, EnqueueMarked, List, Claim, SweepLinks, At
<1>6. \E s, m : Goto(w, s, m) /\ s \notin {"gate", "create", "stamp", "chatter", "feed"}
  BY SMTT(30) DEF Tick, Reap, ReapInbound, Rescue, Sweep, Mark, EnqueueMarked, List, Claim, SweepLinks
<1>7. pc'[w] \notin {"gate", "create", "stamp", "chatter", "feed"}
  BY <1>0, <1>6, GotoFacts
<1> QED
  BY <1>3, <1>4, <1>5, <1>7 DEF LogR, Types, TypeRows, TypeCounts

LEMMA SyncLog ==
  ASSUME CallAssumption, Types, Types', NEW w \in Replicas, LogR(w), Sync(w)
  PROVE  LogR(w)'
<1>0. w \in Workers /\ TypeWorkers
  BY DEF Workers, Types
<1>1. PICK k \in Nat : call \in CallRow(k) /\ mem[w] \in Memo(k)
  BY <1>0 DEF Types, TypeRows, TypeWorkers
<1>2. Len(tasks) \in Nat /\ posts \in Nat /\ unheard \in Nat
  BY DEF Types, TypeRows, TypeCounts
<1>3. CASE ReadCall(w)
  <2> DEFINE s == IF call.task # 0 THEN "finish" ELSE IF inbound THEN "create" ELSE "gate"
             m == [mem[w] EXCEPT !.dispo = call.dispo, !.feed = call.feed]
  <2>1. Goto(w, s, m) /\ pc[w] = "read" /\ UNCHANGED <<call, tasks, posts, unheard>>
    BY <1>3 DEF ReadCall, At, outside, ghosts
  <2>2. pc'[w] = s /\ mem'[w] = m
    BY <1>0, <2>1, GotoFacts
  <2>3. m.feed = call.feed
    BY <1>1 DEF Memo
  <2> QED
    BY <1>2, <2>1, <2>2, <2>3 DEF LogR
<1>4. CASE GatePasses(w)
  <2>1. Goto(w, "create", mem[w]) /\ pc[w] = "gate" /\ UNCHANGED <<call, tasks, posts, unheard>>
    BY <1>4 DEF GatePasses, At, outside, ghosts
  <2>2. pc'[w] = "create" /\ mem'[w] = mem[w]
    BY <1>0, <2>1, GotoFacts
  <2> QED
    BY <1>2, <2>1, <2>2 DEF LogR
<1>5. CASE NotOwner(w) \/ Finish(w) \/ Fail(w)
  <2>1. Goto(w, "links", NoMem) /\ pc[w] \in {"gate", "finish", "fail"} /\ UNCHANGED <<call, tasks, posts, unheard>>
    BY <1>5 DEF NotOwner, Finish, Fail, At, outside, ghosts
  <2>2. pc'[w] = "links"
    BY <1>0, <2>1, GotoFacts
  <2> QED
    BY <1>2, <2>1, <2>2 DEF LogR
<1>6. CASE Create(w)
  <2> DEFINE m == [mem[w] EXCEPT !.n = Len(tasks) + 1]
  <2>1. Goto(w, "stamp", m) /\ pc[w] = "create" /\ MakeTask(w) /\ UNCHANGED <<call, posts, unheard>>
    BY <1>6 DEF Create, At, ghosts
  <2>2. pc'[w] = "stamp"
    BY <1>0, <2>1, GotoFacts
  <2>3. mem'[w] = m
    BY <1>0, <2>1, GotoFacts
  <2>4. Len(tasks') = Len(tasks) + 1
    BY <2>1 DEF MakeTask, Types, TypeRows
  <2>5. m.feed = mem[w].feed /\ m.n = Len(tasks) + 1
    BY <1>1 DEF Memo
  <2> QED
    BY <1>2, <2>1, <2>2, <2>3, <2>4, <2>5 DEF LogR
<1>7. CASE StampTask(w)
  <2>1. /\ Goto(w, "chatter", mem[w]) /\ pc[w] = "stamp" /\ UNCHANGED <<tasks, posts, unheard>>
        /\ call' = [[call EXCEPT !.task = mem[w].n] EXCEPT !.quiet = FALSE]
    BY <1>7 DEF StampTask, At, outside, ghosts, SetCall
  <2>2. pc'[w] = "chatter" /\ mem'[w] = mem[w]
    BY <1>0, <2>1, GotoFacts
  <2>3. call'.feed = call.feed
    BY <1>1, <2>1 DEF CallRow
  <2>4. call'.task = mem[w].n
    BY <1>1, <2>1 DEF CallRow
  <2>5. Len(tasks) <= unheard + 1 /\ call.task = 0
    BY <1>2, <2>1 DEF LogR
  <2>6. call'.task # 0 /\ ~(posts > unheard + IF call.feed THEN 1 ELSE 0)
    BY <1>2, <2>1, <2>4 DEF LogR
  <2> QED
    BY <1>2, <2>1, <2>2, <2>3, <2>4, <2>5, <2>6 DEF LogR
<1>8. CASE Chatter(w)
  <2>1. /\ pc[w] = "chatter" /\ UNCHANGED <<call, tasks, unheard>>
        /\ \/ ~mem[w].feed /\ posts' = posts + 1 /\ Goto(w, "feed", mem[w])
           \/ Goto(w, "fresh", mem[w]) /\ posts' = posts
    BY <1>8 DEF Chatter, At, ghosts
  <2>2. pc'[w] = "feed" \/ pc'[w] = "fresh"
    BY <1>0, <2>1, GotoFacts
  <2>3. pc'[w] = "feed" => ~mem[w].feed /\ posts' = posts + 1
    BY <1>0, <2>1, GotoFacts
  <2>4. pc'[w] = "fresh" => posts' = posts
    BY <1>0, <2>1, GotoFacts
  <2> QED
    BY <1>2, <2>1, <2>2, <2>3, <2>4 DEF LogR
<1>9. CASE StampFeed(w)
  <2>1. /\ Goto(w, "fresh", mem[w]) /\ pc[w] = "feed" /\ UNCHANGED <<tasks, posts, unheard>>
        /\ call' = [[call EXCEPT !.feed = TRUE] EXCEPT !.quiet = FALSE]
    BY <1>9 DEF StampFeed, At, outside, ghosts, SetCall
  <2>2. pc'[w] = "fresh"
    BY <1>0, <2>1, GotoFacts
  <2>3. call'.feed = TRUE /\ call'.task = call.task
    BY <1>1, <2>1 DEF CallRow
  <2> QED
    BY <1>2, <2>1, <2>2, <2>3 DEF LogR
<1>10. CASE Fresh(w)
  <2>1. /\ pc[w] = "fresh" /\ UNCHANGED <<call, tasks, posts, unheard>>
        /\ Goto(w, IF call.rec THEN "link" ELSE "finish", mem[w])
    BY <1>10 DEF Fresh, At, outside, ghosts
  <2>2. pc'[w] \in {"link", "finish"}
    BY <1>0, <2>1, GotoFacts
  <2> QED
    BY <1>2, <2>1, <2>2 DEF LogR
<1> QED
  BY <1>3, <1>4, <1>5, <1>6, <1>7, <1>8, <1>9, <1>10 DEF Sync

LEMMA OwnLog ==
  ASSUME CallAssumption, Types, Types', NEW w \in Replicas, LogR(w), Push_(w) \/ Failure(w)
  PROVE  LogR(w)'
<1>0. w \in Workers /\ TypeWorkers
  BY DEF Workers, Types
<1>1. PICK k \in Nat : call \in CallRow(k) /\ mem[w] \in Memo(k)
  BY <1>0 DEF Types, TypeRows, TypeWorkers
<1>2. Len(tasks) \in Nat /\ posts \in Nat /\ unheard \in Nat
  BY DEF Types, TypeRows, TypeCounts
<1>3. CASE Push_(w) \/ PatchLinkFails(w)
  <2>1. /\ UNCHANGED <<posts, unheard>> /\ pc[w] \notin {"stamp", "feed"}
    BY <1>3 DEF Push_, Push, PatchLink, StampLink, PatchLinkFails, At, outside, ghosts
  <2>2. call' = call \/ call' = [[call EXCEPT !.synced = TRUE] EXCEPT !.quiet = FALSE]
    BY Zenon, <1>3 DEF Push_, Push, PatchLink, StampLink, PatchLinkFails, SetCall
  <2>3. call'.task = call.task /\ call'.feed = call.feed
    BY <1>1, <2>2 DEF CallRow
  <2>4. Len(tasks') = Len(tasks)
    <3>1. tasks' = tasks \/ (\E i, e : tasks' = [tasks EXCEPT ![i] = e])
      BY <1>3 DEF Push_, Push, PatchLink, StampLink, PatchLinkFails, outside
    <3> QED
      BY <3>1 DEF Types, TypeRows
  <2>5. \E s, m : Goto(w, s, m) /\ s \notin {"gate", "create", "stamp", "chatter", "feed"}
    BY <1>3 DEF Push_, Push, PatchLink, StampLink, PatchLinkFails
  <2>6. pc'[w] \notin {"gate", "create", "stamp", "chatter", "feed"}
    BY <1>0, <2>5, GotoFacts
  <2> QED
    BY <1>2, <2>1, <2>3, <2>4, <2>6 DEF LogR
<1>4. CASE CreateUnanswered(w)
  <2>1. Goto(w, "fail", mem[w]) /\ pc[w] = "create" /\ MakeTask(w) /\ UNCHANGED <<call, posts>> /\ unheard' = unheard + 1
    BY <1>4 DEF CreateUnanswered, At
  <2>2. pc'[w] = "fail"
    BY <1>0, <2>1, GotoFacts
  <2>3. Len(tasks') = Len(tasks) + 1
    BY <2>1 DEF MakeTask, Types, TypeRows
  <2> QED
    BY <1>2, <2>1, <2>2, <2>3 DEF LogR
<1>5. CASE RequestFails(w)
  <2>1. (\E m : Goto(w, "fail", m)) /\ pc[w] \in {"gate", "create"} /\ UNCHANGED <<call, tasks, posts, unheard>>
    BY <1>5 DEF RequestFails, At, outside, ghosts
  <2>2. pc'[w] = "fail"
    BY <1>0, <2>1, GotoFacts
  <2> QED
    BY <1>2, <2>1, <2>2 DEF LogR
<1>6. CASE Crash(w)
  <2>1. /\ Goto(w, "idle", NoMem) /\ UNCHANGED <<call, tasks, posts>>
        /\ unheard' = unheard + IF pc[w] \in {"stamp", "feed"} THEN 1 ELSE 0
    BY <1>6 DEF Crash, outside
  <2>2. pc'[w] = "idle"
    BY <1>0, <2>1, GotoFacts
  <2> QED
    BY <1>2, <2>1, <2>2 DEF LogR
<1>7. ~CorrectFails(w)
  BY <1>0 DEF CorrectFails, At, Types, TypeWorkers, StepsOf, ReplicaSteps, Syncing
<1> QED
  BY <1>3, <1>4, <1>5, <1>6, <1>7 DEF Failure

LEMMA LogStep ==
  ASSUME CallAssumption, Types, Types', LogInv, [Next]_vars
  PROVE  LogInv'
<1> SUFFICES ASSUME Alone, NEW w \in Replicas PROVE LogR(w)'
  BY DEF LogInv, Alone
<1>0. LogR(w) /\ unheard' \in Nat
  BY DEF LogInv, Types, TypeCounts
<1>1. CASE UNCHANGED vars
  BY <1>0, <1>1 DEF vars, LogR
<1>2. CASE World
  BY <1>0, <1>2, WorldBeside, BesideLog
<1>3. CASE \E h \in Handlers : Asked(h)
  BY <1>0, <1>3, HandlerBeside, BesideLog
<1>4. CASE \E v \in Replicas : Tick(v) \/ Sync(v) \/ Push_(v) \/ Failure(v)
  <2>1. Tick(w) \/ Sync(w) \/ Push_(w) \/ Failure(w)
    BY <1>4, OneReplica
  <2> QED
    BY <1>0, <2>1, TickLog, SyncLog, OwnLog
<1> QED
  BY <1>1, <1>2, <1>3, <1>4 DEF Next, Asked, Workers

LEMMA LogHolds == ASSUME CallAssumption PROVE Spec => []LogInv
<1>1. Init => LogInv
  BY DEF Init, LogInv, LogR, NoCall, Workers
<1> QED
  BY <1>1, LogStep, TypesHold, PTL DEF Spec

\* calls.ts:593-597, sync.ts:554-560 (workers' LoggedOnce): whatever requests,
\* retries, reaps, sweeps and crashes there are, a replica by itself makes a
\* second Task, or a second post, only for one whose id it never learnt.
THEOREM LoggedOnceHolds == ASSUME CallAssumption PROVE Spec => []LoggedOnce
<1>1. Types /\ LogInv => LoggedOnce
  <2> SUFFICES ASSUME Types, LogInv, Alone PROVE Len(tasks) <= 1 + unheard /\ posts <= 1 + unheard
    BY DEF LoggedOnce
  <2>1. PICK w : Replicas = {w}
    BY FS_Singleton DEF Alone, CallAssumption
  <2>2. LogR(w)
    BY <2>1 DEF LogInv
  <2> QED
    BY <2>2 DEF LogR, Types, TypeRows, TypeCounts
<1> QED
  BY <1>1, TypesHold, LogHolds, PTL

-----------------------------------------------------------------------------
(* The rep's disposition.                                                  *)

\* Until something is written in a window, a sync holds the disposition of the
\* row, and a sweep about to mark the call found none.
HeldDispo(w) ==
  /\ pc[w] \in {"gate", "create"} => mem[w].dispo = call.dispo
  /\ pc[w] = "stamp" => mem[w].n \in 1 .. Len(tasks) /\ tasks[mem[w].n].dispo = call.dispo
  /\ pc[w] = "mark" => call.dispo = "none" /\ call.task = 0
\* A correction carries the disposition of the row to the Task of record.
Correcting(h) ==
  pc[h] = "correct" => /\ call.dispo \in RepChoices /\ mem[h].choice = call.dispo
                       /\ mem[h].task = call.task /\ call.task # 0
OnTask == call.task # 0 /\ call.dispo \in RepChoices /\ ~call.client
            => tasks[call.task].dispo = call.dispo \/ \E h \in Handlers : pc[h] = "correct"
DispoInv ==
  Alone /\ ~raced => /\ \A w \in Replicas : HeldDispo(w)
                     /\ \A h \in Handlers : Correcting(h)
                     /\ OnTask

\* A step that leaves dispositions and Tasks of record alone.
Untouched ==
  /\ call'.dispo = call.dispo /\ call'.task = call.task /\ call'.client = call.client
  /\ Len(tasks') = Len(tasks) /\ \A i \in 1 .. Len(tasks) : tasks'[i].dispo = tasks[i].dispo
Delicate == {"gate", "create", "stamp", "mark", "correct"}
Calm(w) ==
  /\ Untouched
  /\ pc[w] # "correct"
  /\ \E s, m : Goto(w, s, m) /\ s \notin Delicate

LEMMA TaskIndex ==
  ASSUME Types
  PROVE  Len(tasks) \in Nat /\ call.task \in 0 .. Len(tasks)
BY DEF Types, TypeRows, CallRow

\* What an untouched call owes to a worker that has not moved, or moved to no
\* delicate step.
LEMMA UntouchedHeld ==
  ASSUME Types, Untouched, NEW w \in Workers,
         (pc'[w] = pc[w] /\ mem'[w] = mem[w]) \/ pc'[w] \notin Delicate
  PROVE  (HeldDispo(w) => HeldDispo(w)') /\ (Correcting(w) => Correcting(w)')
<1>1. CASE pc'[w] \notin Delicate
  BY <1>1 DEF HeldDispo, Correcting, Delicate
<1>2. CASE pc'[w] = pc[w] /\ mem'[w] = mem[w]
  BY <1>2 DEF HeldDispo, Correcting, Untouched
<1> QED
  BY <1>1, <1>2

LEMMA UntouchedOnTask ==
  ASSUME Types, Untouched, OnTask, \A h \in Handlers : pc[h] = "correct" => pc'[h] = "correct"
  PROVE  OnTask'
<1> SUFFICES ASSUME call'.task # 0, call'.dispo \in RepChoices, ~call'.client
             PROVE  tasks'[call'.task].dispo = call'.dispo \/ \E h \in Handlers : pc'[h] = "correct"
  BY DEF OnTask
<1>1. call.task # 0 /\ call.dispo \in RepChoices /\ ~call.client
  BY DEF Untouched
<1>2. call.task \in 1 .. Len(tasks)
  BY <1>1, TaskIndex
<1> QED
  BY <1>1, <1>2 DEF OnTask, Untouched

LEMMA CalmDispo ==
  ASSUME CallAssumption, Types, DispoInv, raced' = raced, NEW w \in Workers, Calm(w)
  PROVE  DispoInv'
<1> SUFFICES ASSUME Alone, ~raced
             PROVE  /\ \A v \in Replicas : HeldDispo(v)'
                    /\ \A h \in Handlers : Correcting(h)'
                    /\ OnTask'
  BY DEF DispoInv, Alone
<1>1. PICK s, m : Goto(w, s, m) /\ s \notin Delicate
  BY DEF Calm
<1>2. pc'[w] \notin Delicate /\ \A v \in Workers : v # w => pc'[v] = pc[v] /\ mem'[v] = mem[v]
  BY <1>1, GotoFacts DEF Types
<1>3. \A v \in Workers : (pc'[v] = pc[v] /\ mem'[v] = mem[v]) \/ pc'[v] \notin Delicate
  BY <1>2
<1>4. \A v \in Replicas \cup Handlers : (HeldDispo(v) => HeldDispo(v)') /\ (Correcting(v) => Correcting(v)')
  BY <1>3, UntouchedHeld DEF Calm, Workers
<1>5. \A h \in Handlers : pc[h] = "correct" => pc'[h] = "correct"
  BY <1>2 DEF Calm, Workers
<1> QED
  BY <1>4, <1>5, UntouchedOnTask DEF DispoInv, Calm

LEMMA CallSame ==
  ASSUME NEW k \in Nat, NEW c \in CallRow(k)
  PROVE  \A e \in {[c EXCEPT !.ended = TRUE], [c EXCEPT !.rec = TRUE], [c EXCEPT !.synced = TRUE],
                   [c EXCEPT !.feed = TRUE], [c EXCEPT !.aged = TRUE], [c EXCEPT !.quiet = TRUE]} :
           /\ e.dispo = c.dispo /\ e.task = c.task /\ e.client = c.client
           /\ [e EXCEPT !.quiet = FALSE].dispo = c.dispo /\ [e EXCEPT !.quiet = FALSE].task = c.task
           /\ [e EXCEPT !.quiet = FALSE].client = c.client
BY DEF CallRow

\* The steps that only stamp, end, age, queue or read.
LEMMA RowSame ==
  ASSUME Types,
         \/ call' = call
         \/ SetCall([call EXCEPT !.ended = TRUE]) \/ SetCall([call EXCEPT !.rec = TRUE])
         \/ SetCall([call EXCEPT !.synced = TRUE]) \/ SetCall([call EXCEPT !.feed = TRUE])
         \/ call' = [call EXCEPT !.aged = TRUE] \/ call' = [call EXCEPT !.quiet = TRUE]
  PROVE  call'.dispo = call.dispo /\ call'.task = call.task /\ call'.client = call.client
<1>1. PICK k \in Nat : call \in CallRow(k)
  BY DEF Types, TypeRows
<1> DEFINE Same(e) == call' = e \/ call' = [e EXCEPT !.quiet = FALSE]
<1>2. \/ call' = call \/ Same([call EXCEPT !.ended = TRUE]) \/ Same([call EXCEPT !.rec = TRUE])
      \/ Same([call EXCEPT !.synced = TRUE]) \/ Same([call EXCEPT !.feed = TRUE])
      \/ Same([call EXCEPT !.aged = TRUE]) \/ Same([call EXCEPT !.quiet = TRUE])
  BY Zenon DEF SetCall
<1>3. ASSUME NEW e \in {[call EXCEPT !.ended = TRUE], [call EXCEPT !.rec = TRUE], [call EXCEPT !.synced = TRUE],
                        [call EXCEPT !.feed = TRUE], [call EXCEPT !.aged = TRUE], [call EXCEPT !.quiet = TRUE]},
             Same(e)
      PROVE  call'.dispo = call.dispo /\ call'.task = call.task /\ call'.client = call.client
  <2>1. /\ e.dispo = call.dispo /\ e.task = call.task /\ e.client = call.client
        /\ [e EXCEPT !.quiet = FALSE].dispo = call.dispo /\ [e EXCEPT !.quiet = FALSE].task = call.task
        /\ [e EXCEPT !.quiet = FALSE].client = call.client
    BY <1>1, CallSame
  <2> QED
    BY <1>3, <2>1
<1> HIDE DEF Same
<1> QED
  BY Zenon, <1>2, <1>3

LEMMA TasksSame ==
  ASSUME Types, tasks' = tasks
  PROVE  Len(tasks') = Len(tasks) /\ \A i \in 1 .. Len(tasks) : tasks'[i].dispo = tasks[i].dispo
OBVIOUS

LEMMA LinkSame ==
  ASSUME Types, NEW w \in Workers, PatchLink(w)
  PROVE  Len(tasks') = Len(tasks) /\ \A i \in 1 .. Len(tasks) : tasks'[i].dispo = tasks[i].dispo
<1>1. tasks \in Seq(TaskRow) /\ Len(tasks) \in Nat
  BY DEF Types, TypeRows
<1>2. PICK a \in LinkStates : tasks' = [tasks EXCEPT ![mem[w].n] = [tasks[mem[w].n] EXCEPT !.link = a]]
  BY LinkOf
<1>3. \A r \in TaskRow : [r EXCEPT !.link = a].dispo = r.dispo
  BY DEF TaskRow
<1> DEFINE n == mem[w].n  e == [tasks[n] EXCEPT !.link = a]
<1>4. n \in 1 .. Len(tasks) => e.dispo = tasks[n].dispo /\ e \in TaskRow
  <2> SUFFICES ASSUME n \in 1 .. Len(tasks) PROVE e.dispo = tasks[n].dispo /\ e \in TaskRow
    OBVIOUS
  <2>1. tasks[n] \in TaskRow
    BY <1>1
  <2> QED
    BY <2>1 DEF TaskRow
<1>5. tasks' = [tasks EXCEPT ![n] = e]
  BY <1>2
<1> HIDE DEF n, e
<1>6. Len(tasks') = Len(tasks)
  BY <1>1, <1>4, <1>5, SeqUpdate
<1> QED
  BY <1>1, <1>4, <1>5, <1>6

LEMMA TickCalm ==
  ASSUME Types, NEW w \in Replicas, Tick(w), ~Sweep(w), ~Mark(w)
  PROVE  Calm(w) /\ raced' = raced
<1>0. w \in Workers
  BY DEF Workers
<1>1. call' = call \/ SetCall([call EXCEPT !.ended = TRUE])
  BY Zenon DEF Tick, Reap, ReapInbound, Rescue, EnqueueMarked, List, Claim, SweepLinks
<1>2. tasks' = tasks /\ raced' = raced
  BY Zenon DEF Tick, Reap, ReapInbound, Rescue, EnqueueMarked, List, Claim, SweepLinks, outside, ghosts
<1>3. pc[w] # "correct"
  BY DEF Tick, Reap, ReapInbound, Rescue, EnqueueMarked, List, Claim, SweepLinks, At
<1>4. \E s, m : Goto(w, s, m) /\ s \notin Delicate
  BY SMTT(30) DEF Tick, Reap, ReapInbound, Rescue, EnqueueMarked, List, Claim, SweepLinks, Delicate
<1>5. Untouched
  BY <1>1, <1>2, RowSame, TasksSame DEF Untouched
<1> QED
  BY <1>2, <1>3, <1>4, <1>5 DEF Calm

LEMMA SyncCalm ==
  ASSUME Types, NEW w \in Replicas, Sync(w), ~ReadCall(w), ~GatePasses(w), ~Create(w), ~StampTask(w)
  PROVE  Calm(w) /\ raced' = raced
<1>1. call' = call \/ SetCall([call EXCEPT !.feed = TRUE])
  BY Zenon DEF Sync, NotOwner, Chatter, StampFeed, Fresh, Finish, Fail
<1>2. tasks' = tasks /\ raced' = raced
  BY Zenon DEF Sync, NotOwner, Chatter, StampFeed, Fresh, Finish, Fail, outside, ghosts
<1>3. pc[w] # "correct"
  BY DEF Sync, NotOwner, Chatter, StampFeed, Fresh, Finish, Fail, At
<1>4. \E s, m : Goto(w, s, m) /\ s \notin Delicate
  BY SMTT(30) DEF Sync, NotOwner, Chatter, StampFeed, Fresh, Finish, Fail, Delicate
<1>5. Untouched
  BY <1>1, <1>2, RowSame, TasksSame DEF Untouched
<1> QED
  BY <1>2, <1>3, <1>4, <1>5 DEF Calm

LEMMA AskCalm ==
  ASSUME Types, NEW h \in Handlers, End(h) \/ Recorded(h) \/ Ask(h) \/ Enqueue(h)
  PROVE  Calm(h) /\ raced' = raced
<1>1. call'.dispo = call.dispo /\ call'.task = call.task /\ call'.client = call.client
  <2>1. call' = call \/ Ends \/ SetCall([call EXCEPT !.rec = TRUE])
    BY Zenon, EndEnds DEF Recorded, Ask, Dispose, EnsureLogged, Enqueue
  <2>2. PICK k \in Nat : call \in CallRow(k)
    BY DEF Types, TypeRows
  <2>3. Ends => call'.dispo = call.dispo /\ call'.task = call.task /\ call'.client = call.client
    BY <2>2, EndsKeep
  <2> QED
    BY <2>1, <2>3, RowSame
<1>2. tasks' = tasks /\ raced' = raced
  BY Zenon DEF End, Recorded, Ask, Dispose, EnsureLogged, Enqueue, outside, ghosts
<1>3. pc[h] # "correct"
  BY DEF End, Recorded, Ask, Dispose, EnsureLogged, Enqueue, At
<1>4. \E s, m : Goto(h, s, m) /\ s \notin Delicate
  <2>1. CASE Dispose(h)
    <3>1. \E m : Goto(h, "setDispo", m)
      BY Zenon, <2>1 DEF Dispose
    <3> QED
      BY <3>1 DEF Delicate
  <2>2. CASE End(h)
    <3>1. Goto(h, IF inbound THEN "enqueue" ELSE "idle", NoMem)
      BY Zenon, <2>2 DEF End
    <3> QED
      BY <3>1 DEF Delicate
  <2>3. CASE Recorded(h) \/ EnsureLogged(h) \/ Enqueue(h)
    BY <2>3 DEF Recorded, EnsureLogged, Enqueue, Delicate
  <2> QED
    BY <2>1, <2>2, <2>3 DEF Ask
<1>5. Untouched
  BY <1>1, <1>2, TasksSame DEF Untouched
<1> QED
  BY <1>2, <1>3, <1>4, <1>5 DEF Calm

LEMMA PushCalm ==
  ASSUME Types, NEW w \in Workers,
         Push_(w) \/ PatchLinkFails(w) \/ RequestFails(w) \/ (Crash(w) /\ pc[w] # "correct")
  PROVE  Calm(w) /\ raced' = raced
<1>1. call' = call \/ SetCall([call EXCEPT !.synced = TRUE])
  BY Zenon DEF Push_, Push, PatchLink, StampLink, PatchLinkFails, RequestFails, Crash
<1>2. tasks' = tasks \/ PatchLink(w)
  BY Zenon DEF Push_, Push, StampLink, PatchLinkFails, RequestFails, Crash, outside
<1>3. pc[w] # "correct"
  BY DEF Push_, Push, PatchLink, StampLink, PatchLinkFails, RequestFails, Crash, At
<1>4. \E s, m : Goto(w, s, m) /\ s \notin Delicate
  BY SMTT(30) DEF Push_, Push, PatchLink, StampLink, PatchLinkFails, RequestFails, Crash, Delicate
<1>5. Untouched
  BY <1>1, <1>2, RowSame, TasksSame, LinkSame DEF Untouched
<1>6. raced' = raced
  <2>1. CASE Crash(w)
    BY <1>3, <2>1 DEF Crash, Types, TypeCounts
  <2>2. CASE ~Crash(w)
    BY Zenon, <2>2 DEF Push_, Push, PatchLink, StampLink, PatchLinkFails, RequestFails, ghosts
  <2> QED
    BY <2>1, <2>2
<1> QED
  BY <1>3, <1>4, <1>5, <1>6 DEF Calm

LEMMA WorldDispo ==
  ASSUME CallAssumption, Types, DispoInv, World
  PROVE  DispoInv'
<1>1. call' = call \/ call' = [call EXCEPT !.aged = TRUE] \/ call' = [call EXCEPT !.quiet = TRUE]
  BY Zenon DEF World, Age, Quiet, Due, Stale
<1>2. UNCHANGED <<pc, mem, tasks, raced>>
  BY Zenon DEF World, Age, Quiet, Due, Stale, outside, ghosts
<1>3. Untouched
  BY <1>1, <1>2, RowSame, TasksSame DEF Untouched
<1>4. \A w \in Workers : (HeldDispo(w) => HeldDispo(w)') /\ (Correcting(w) => Correcting(w)')
  BY <1>2, <1>3, UntouchedHeld
<1>5. OnTask => OnTask'
  BY <1>2, <1>3, UntouchedOnTask
<1> QED
  BY <1>2, <1>4, <1>5 DEF DispoInv, Alone, Workers

\* A replica's own delicate steps: it is the only replica, so what it leaves of
\* the others' is about handlers.
LEMMA SyncDispo ==
  ASSUME CallAssumption, Types, Types', LogInv, DispoInv, Alone, ~raced, NEW w \in Replicas,
         Sweep(w) \/ Mark(w) \/ ReadCall(w) \/ GatePasses(w) \/ Create(w) \/ StampTask(w)
           \/ CreateUnanswered(w)
  PROVE  HeldDispo(w)' /\ (\A h \in Handlers : Correcting(h)') /\ OnTask'
<1>0. w \in Workers /\ TypeWorkers /\ LogR(w) /\ HeldDispo(w) /\ OnTask /\ \A h \in Handlers : Correcting(h)
  BY DEF Workers, Types, LogInv, DispoInv
<1>1. PICK k \in Nat : call \in CallRow(k) /\ mem[w] \in Memo(k)
  BY <1>0 DEF Types, TypeRows, TypeWorkers
<1>2. PICK s, m : Goto(w, s, m)
  BY Zenon DEF Sweep, Mark, ReadCall, GatePasses, Create, StampTask, CreateUnanswered
<1>3. pc'[w] = s /\ mem'[w] = m
  BY <1>0, <1>2, GotoFacts
<1>4. \A h \in Handlers : pc'[h] = pc[h] /\ mem'[h] = mem[h]
  BY <1>0, <1>2, GotoFacts DEF CallAssumption, Workers
<1>5. CASE call' = call /\ tasks' = tasks
  <2>1. (\A h \in Handlers : Correcting(h)') /\ OnTask'
    BY <1>0, <1>4, <1>5 DEF Correcting, OnTask
  <2>2. HeldDispo(w)'
    <3>1. CASE Sweep(w)
      <4>1. /\ pc' = [pc EXCEPT ![w] = IF Undisposed /\ call.aged THEN "mark" ELSE "list"]
        BY <3>1 DEF Sweep, Goto
      <4>2. pc'[w] = "list" \/ (pc'[w] = "mark" /\ call.task = 0 /\ call.dispo = "none")
        BY <1>0, <4>1 DEF TypeWorkers, Undisposed
      <4> QED
        BY <1>5, <4>2 DEF HeldDispo
    <3>2. CASE ReadCall(w)
      <4>1. /\ pc' = [pc EXCEPT ![w] = IF call.task # 0 THEN "finish" ELSE IF inbound THEN "create" ELSE "gate"]
            /\ mem' = [mem EXCEPT ![w] = [mem[w] EXCEPT !.dispo = call.dispo, !.feed = call.feed]]
        BY <3>2 DEF ReadCall, Goto
      <4>2. pc'[w] \in {"finish", "create", "gate"}
        BY <1>0, <4>1 DEF TypeWorkers
      <4>3. mem'[w] = [mem[w] EXCEPT !.dispo = call.dispo, !.feed = call.feed]
        BY <1>0, <4>1 DEF TypeWorkers
      <4>4. mem'[w].dispo = call.dispo
        <5>1. [mem[w] EXCEPT !.dispo = call.dispo, !.feed = call.feed].dispo = call.dispo
          BY <1>1 DEF Memo
        <5> QED
          BY <4>3, <5>1
      <4> QED
        BY <1>5, <4>2, <4>4 DEF HeldDispo
    <3>3. CASE GatePasses(w)
      <4>1. Goto(w, "create", mem[w]) /\ pc[w] = "gate"
        BY <3>3 DEF GatePasses, At
      <4>2. pc'[w] = "create" /\ mem'[w] = mem[w]
        BY <1>0, <4>1, GotoFacts
      <4> QED
        BY <1>0, <1>5, <4>1, <4>2 DEF HeldDispo
    <3>4. CASE Mark(w) \/ StampTask(w)
      <4>1. (Goto(w, "marked", NoMem) \/ Goto(w, "chatter", mem[w]))
        BY <3>4 DEF Mark, StampTask
      <4>2. pc'[w] \in {"marked", "chatter"}
        BY <1>0, <4>1, GotoFacts
      <4> QED
        BY <4>2 DEF HeldDispo
    <3>5. CASE Create(w) \/ CreateUnanswered(w)
      <4>1. MakeTask(w)
        BY <3>5 DEF Create, CreateUnanswered
      <4>2. Len(tasks') = Len(tasks) + 1 /\ Len(tasks) \in Nat
        BY <4>1 DEF MakeTask, Types, TypeRows
      <4> QED
        BY <1>5, <4>2
    <3> QED
      BY <3>1, <3>2, <3>3, <3>4, <3>5
  <2> QED
    BY <2>1, <2>2
<1>6. CASE Mark(w)
  <2>1. /\ Goto(w, "marked", NoMem) /\ pc[w] = "mark" /\ tasks' = tasks
        /\ call' = [[call EXCEPT !.dispo = "auto"] EXCEPT !.quiet = FALSE]
    BY <1>6 DEF Mark, At, outside, SetCall
  <2>2. pc'[w] = "marked"
    BY <1>0, <2>1, GotoFacts
  <2>3. call'.task = call.task
    BY <1>1, <2>1 DEF CallRow
  <2>4. call.task = 0 /\ call.dispo = "none"
    BY <1>0, <2>1 DEF HeldDispo
  <2>5. \A h \in Handlers : Correcting(h)'
    BY <1>0, <1>4, <2>4 DEF Correcting
  <2>6. OnTask'
    BY <2>3, <2>4 DEF OnTask
  <2> QED
    BY <2>2, <2>5, <2>6 DEF HeldDispo
<1>7. CASE Create(w) \/ CreateUnanswered(w)
  <2>1. pc[w] = "create" /\ MakeTask(w) /\ call' = call
    BY <1>7 DEF Create, CreateUnanswered, At
  <2>2. call.task = 0 /\ mem[w].dispo = call.dispo
    BY <1>0, <2>1 DEF LogR, HeldDispo
  <2>3. \A h \in Handlers : Correcting(h)'
    BY <1>0, <1>4, <2>1 DEF Correcting
  <2>4. OnTask'
    BY <2>1, <2>2 DEF OnTask
  <2>5. HeldDispo(w)'
    <3>1. CASE CreateUnanswered(w)
      <4>1. Goto(w, "fail", mem[w])
        BY <3>1 DEF CreateUnanswered
      <4>2. pc'[w] = "fail"
        BY <1>0, <4>1, GotoFacts
      <4> QED
        BY <4>2 DEF HeldDispo
    <3>2. CASE Create(w)
      <4> DEFINE n == [mem[w] EXCEPT !.n = Len(tasks) + 1]
      <4>1. Goto(w, "stamp", n)
        BY <3>2 DEF Create
      <4>2. pc'[w] = "stamp" /\ mem'[w] = n
        BY <1>0, <4>1, GotoFacts
      <4>3. n.n = Len(tasks) + 1
        BY <1>1 DEF Memo
      <4>4. Len(tasks') = Len(tasks) + 1 /\ tasks'[Len(tasks) + 1] = [dispo |-> mem[w].dispo, link |-> "none"]
        BY <2>1 DEF MakeTask, Types, TypeRows
      <4>5. Len(tasks) \in Nat
        BY DEF Types, TypeRows
      <4> HIDE DEF n
      <4> QED
        BY <2>1, <2>2, <4>2, <4>3, <4>4, <4>5 DEF HeldDispo
    <3> QED
      BY <1>7, <3>1, <3>2
  <2> QED
    BY <2>3, <2>4, <2>5
<1>8. CASE StampTask(w)
  <2>1. /\ Goto(w, "chatter", mem[w]) /\ pc[w] = "stamp" /\ tasks' = tasks
        /\ call' = [[call EXCEPT !.task = mem[w].n] EXCEPT !.quiet = FALSE]
    BY <1>8 DEF StampTask, At, outside, SetCall
  <2>2. pc'[w] = "chatter"
    BY <1>0, <2>1, GotoFacts
  <2>3. call'.task = mem[w].n /\ call'.dispo = call.dispo
    BY <1>1, <2>1 DEF CallRow
  <2>4. call.task = 0 /\ tasks[mem[w].n].dispo = call.dispo
    BY <1>0, <2>1 DEF LogR, HeldDispo
  <2>5. \A h \in Handlers : Correcting(h)'
    BY <1>0, <1>4, <2>4 DEF Correcting
  <2>6. OnTask'
    BY <2>1, <2>3, <2>4 DEF OnTask
  <2> QED
    BY <2>2, <2>5, <2>6 DEF HeldDispo
<1>9. Sweep(w) \/ ReadCall(w) \/ GatePasses(w) => call' = call /\ tasks' = tasks
  BY DEF Sweep, ReadCall, GatePasses, outside
<1> QED
  BY <1>5, <1>6, <1>7, <1>8, <1>9

\* The disposition is written: outside every window, and over no other.
LEMMA SetDispoStep ==
  ASSUME CallAssumption, Types, DispoInv, Alone, ~raced', NEW h \in Handlers, SetDispo(h)
  PROVE  (\A w \in Replicas : HeldDispo(w)') /\ (\A g \in Handlers : Correcting(g)') /\ OnTask'
<1>0. /\ h \in Workers /\ TypeWorkers /\ h \notin Replicas
      /\ mem[h].choice \in RepChoices /\ mem[h].skip \in BOOLEAN /\ mem[h].task \in Nat
  BY DEF Workers, CallAssumption, Types, TypeWorkers, TypeRows, Memo, SetDispo, At
<1>1. PICK k \in Nat : call \in CallRow(k)
  BY DEF Types, TypeRows
<1>2. /\ ~raced /\ mem[h].task = call.task /\ call.dispo \notin RepChoices
      /\ \A w \in Replicas : pc[w] \notin {"gate", "create", "stamp", "mark"}
  BY <1>0 DEF SetDispo, Window, Types, TypeCounts
<1>3. (\A w \in Replicas : HeldDispo(w)) /\ (\A g \in Handlers : Correcting(g))
  BY <1>2 DEF DispoInv
<1> DEFINE s == IF mem[h].skip THEN "idle" ELSE IF mem[h].task # 0 THEN "correct" ELSE "enqueue"
           m == IF mem[h].skip THEN NoMem ELSE mem[h]
<1>4. Goto(h, s, m) /\ tasks' = tasks
  BY DEF SetDispo, outside
<1>5. pc'[h] = s /\ mem'[h] = m /\ \A v \in Workers : v # h => pc'[v] = pc[v] /\ mem'[v] = mem[v]
  BY <1>0, <1>4, GotoFacts
<1>6. call'.dispo = mem[h].choice /\ call'.task = call.task
  <2>1. call' = [[call EXCEPT !.dispo = mem[h].choice, !.ended = TRUE, !.failed = FALSE, !.client = @ \/ mem[h].skip]
                   EXCEPT !.quiet = FALSE]
    BY DEF SetDispo, SetCall, Disposed
  <2> QED
    BY <1>1, <2>1 DEF CallRow
<1>7. mem[h].skip => call'.client
  <2>1. call' = [[call EXCEPT !.dispo = mem[h].choice, !.ended = TRUE, !.failed = FALSE, !.client = @ \/ mem[h].skip]
                   EXCEPT !.quiet = FALSE]
    BY DEF SetDispo, SetCall, Disposed
  <2>2. call'.client = (call.client \/ mem[h].skip)
    BY <1>1, <2>1 DEF CallRow
  <2> QED
    BY <2>2
<1>8. \A w \in Replicas : HeldDispo(w)'
  <2>1. \A w \in Replicas : pc'[w] = pc[w]
    BY <1>0, <1>5 DEF Workers
  <2> QED
    BY <1>2, <2>1 DEF HeldDispo
<1>9. \A g \in Handlers : Correcting(g)'
  <2> SUFFICES ASSUME NEW g \in Handlers, pc'[g] = "correct"
               PROVE  /\ call'.dispo \in RepChoices /\ mem'[g].choice = call'.dispo
                      /\ mem'[g].task = call'.task /\ call'.task # 0
    BY DEF Correcting
  <2>1. g = h
    <3>1. CASE g # h
      <4>1. pc[g] = "correct"
        BY <1>5, <3>1 DEF Workers
      <4> QED
        BY <1>2, <1>3, <4>1 DEF Correcting
    <3> QED
      BY <3>1
  <2>2. ~mem[h].skip /\ mem[h].task # 0
    BY <1>5, <2>1
  <2> QED
    BY <1>0, <1>2, <1>5, <1>6, <2>1, <2>2
<1>10. OnTask'
  <2> SUFFICES ASSUME call'.task # 0, ~call'.client PROVE pc'[h] = "correct"
    BY DEF OnTask
  <2>1. ~mem[h].skip /\ mem[h].task # 0
    BY <1>0, <1>2, <1>6, <1>7
  <2> QED
    BY <1>5, <2>1
<1> QED
  BY <1>8, <1>9, <1>10

\* The correction lands on the Task.
LEMMA CorrectStep ==
  ASSUME CallAssumption, Types, LogInv, DispoInv, Alone, ~raced, NEW h \in Handlers, Correct(h)
  PROVE  (\A w \in Replicas : HeldDispo(w)') /\ (\A g \in Handlers : Correcting(g)') /\ OnTask'
<1>0. h \in Workers /\ TypeWorkers /\ h \notin Replicas /\ tasks \in Seq(TaskRow) /\ Len(tasks) \in Nat
  BY DEF Workers, CallAssumption, Types, TypeRows
<1>1. /\ pc[h] = "correct" /\ call' = call /\ Goto(h, "idle", NoMem)
      /\ tasks' = [tasks EXCEPT ![mem[h].task] = [tasks[mem[h].task] EXCEPT !.dispo = mem[h].choice]]
  BY DEF Correct, At
<1>2. /\ call.dispo \in RepChoices /\ mem[h].choice = call.dispo
      /\ mem[h].task = call.task /\ call.task \in 1 .. Len(tasks)
  BY <1>1, TaskIndex DEF DispoInv, Correcting
<1>3. \A v \in Workers : v # h => pc'[v] = pc[v] /\ mem'[v] = mem[v]
  BY <1>0, <1>1, GotoFacts
<1>4. pc'[h] = "idle"
  BY <1>0, <1>1, GotoFacts
<1> DEFINE e == [tasks[call.task] EXCEPT !.dispo = call.dispo]
<1>5. e \in TaskRow /\ e.dispo = call.dispo
  <2>1. tasks[call.task] \in TaskRow /\ call.dispo \in Dispositions
    BY <1>0, <1>2 DEF Dispositions
  <2> QED
    BY <2>1 DEF TaskRow
<1>6. tasks' = [tasks EXCEPT ![call.task] = e]
  BY <1>1, <1>2
<1> HIDE DEF e
<1>7. tasks'[call.task] = e /\ Len(tasks') = Len(tasks)
  BY <1>0, <1>2, <1>5, <1>6
<1>8. \A w \in Replicas : HeldDispo(w)'
  <2> SUFFICES ASSUME NEW w \in Replicas PROVE HeldDispo(w)'
    OBVIOUS
  <2>1. pc'[w] = pc[w] /\ mem'[w] = mem[w] /\ HeldDispo(w) /\ LogR(w)
    BY <1>0, <1>3 DEF Workers, DispoInv, LogInv
  <2>2. pc[w] # "stamp"
    BY <1>2, <2>1 DEF LogR
  <2> QED
    BY <1>1, <2>1, <2>2 DEF HeldDispo
<1>9. \A g \in Handlers : Correcting(g)'
  <2> SUFFICES ASSUME NEW g \in Handlers PROVE Correcting(g)'
    OBVIOUS
  <2>1. CASE g = h
    BY <1>4, <2>1 DEF Correcting
  <2>2. CASE g # h
    BY <1>1, <1>3, <2>2 DEF Correcting, DispoInv, Workers
  <2> QED
    BY <2>1, <2>2
<1>10. OnTask'
  BY <1>1, <1>5, <1>7 DEF OnTask
<1> QED
  BY <1>8, <1>9, <1>10

LEMMA SweepUntouched ==
  ASSUME NEW w \in Workers, Sweep(w) \/ Mark(w) \/ ReadCall(w) \/ GatePasses(w) \/ Create(w) \/ StampTask(w)
           \/ CreateUnanswered(w)
  PROVE  raced' = raced
BY Zenon DEF Sweep, Mark, ReadCall, GatePasses, Create, StampTask, CreateUnanswered, ghosts

LEMMA DispoStep ==
  ASSUME CallAssumption, Types, Types', LogInv, DispoInv, [Next]_vars
  PROVE  DispoInv'
<1> SUFFICES ASSUME Alone, ~raced' PROVE DispoInv'
  BY DEF DispoInv, Alone
<1>1. CASE UNCHANGED vars
  BY <1>1 DEF vars, DispoInv, Alone, HeldDispo, Correcting, OnTask
<1>2. CASE World
  BY <1>2, WorldDispo
<1>3. ASSUME NEW w \in Replicas,
             Sweep(w) \/ Mark(w) \/ ReadCall(w) \/ GatePasses(w) \/ Create(w) \/ StampTask(w)
               \/ CreateUnanswered(w)
      PROVE  DispoInv'
  <2>1. ~raced
    BY <1>3, SweepUntouched DEF Workers
  <2>2. HeldDispo(w)' /\ (\A h \in Handlers : Correcting(h)') /\ OnTask'
    BY <1>3, <2>1, SyncDispo
  <2>3. \A v \in Replicas : v = w
    BY OneReplica
  <2> QED
    BY <2>2, <2>3 DEF DispoInv
<1>4. ASSUME NEW w \in Workers, Calm(w), raced' = raced PROVE DispoInv'
  BY <1>4, CalmDispo
<1>5. ASSUME NEW w \in Replicas, Tick(w) \/ Sync(w) PROVE DispoInv'
  BY <1>3, <1>4, <1>5, TickCalm, SyncCalm DEF Workers
<1>6. ASSUME NEW w \in Workers, Push_(w) \/ Failure(w) PROVE DispoInv'
  <2>1. CASE Push_(w) \/ PatchLinkFails(w) \/ RequestFails(w) \/ (Crash(w) /\ pc[w] # "correct")
    BY <1>4, <2>1, PushCalm
  <2>2. CASE CorrectFails(w) \/ (Crash(w) /\ pc[w] = "correct")
    <3>1. raced'
      BY <2>2 DEF CorrectFails, Crash
    <3> QED
      BY <3>1
  <2>3. CASE CreateUnanswered(w)
    <3>1. w \in Replicas
      BY <2>3 DEF CreateUnanswered, At, Types, TypeWorkers, StepsOf, HandlerSteps, Workers
    <3> QED
      BY <1>3, <2>3, <3>1
  <2> QED
    BY <1>6, <2>1, <2>2, <2>3 DEF Failure
<1>7. ASSUME NEW h \in Handlers, End(h) \/ Recorded(h) \/ Ask(h) \/ Handle(h) PROVE DispoInv'
  <2>1. CASE SetDispo(h)
    BY <2>1, SetDispoStep DEF DispoInv
  <2>2. CASE Correct(h)
    <3>1. ~raced
      BY <2>2 DEF Correct, ghosts
    <3> QED
      BY <2>2, <3>1, CorrectStep DEF DispoInv
  <2>3. CASE End(h) \/ Recorded(h) \/ Ask(h) \/ Enqueue(h)
    BY <1>4, <2>3, AskCalm DEF Workers
  <2> QED
    BY <1>7, <2>1, <2>2, <2>3 DEF Handle
<1> QED
  BY <1>1, <1>2, <1>5, <1>6, <1>7 DEF Next

LEMMA DispoHolds == ASSUME CallAssumption PROVE Spec => []DispoInv
<1>1. Init => DispoInv
  BY DEF Init, DispoInv, HeldDispo, Correcting, OnTask, NoCall, Workers
<1> QED
  BY <1>1, DispoStep, TypesHold, LogHolds, PTL DEF Spec

\* calls.ts:538-542 (workers' DispositionReaches): whatever steps the sync, the
\* sweeps and the requests take in between, a disposition that is written in no
\* window, over no other, and whose PATCH happens is the one on the Task.
THEOREM DispositionReachesHolds == ASSUME CallAssumption PROVE Spec => []DispositionReaches
<1>1. DispoInv => DispositionReaches
  BY DEF DispoInv, DispositionReaches, OnTask, Workers
<1> QED
  BY <1>1, DispoHolds, PTL
=============================================================================
