------------------------- MODULE RolloverQueue_proofs -------------------------
(* What the rollover worker promises whatever the replicas, jobs, tasks and *)
(* bounds.                                                                   *)
EXTENDS RolloverQueue, FiniteSetTheorems, TLAPS

-----------------------------------------------------------------------------
(* The pieces steps are made of.                                           *)

LEMMA NoMemType == NoMem \in Mem
<1>1. AnyJob \in Jobs
  BY RolloverAssumption DEF AnyJob
<1> QED
  BY <1>1 DEF NoMem, Mem

LEMMA GotoFacts ==
  ASSUME TypeOK, NEW w \in Replicas, NEW s \in Steps, NEW m \in Mem, Goto(w, s, m)
  PROVE  /\ pc' \in [Replicas -> Steps] /\ mem' \in [Replicas -> Mem]
         /\ pc'[w] = s /\ mem'[w] = m
         /\ \A v \in Replicas \ {w} : pc'[v] = pc[v] /\ mem'[v] = mem[v]
         /\ up' = up /\ batch' = batch
BY DEF TypeOK, Goto

LEMMA PatchFacts ==
  ASSUME TypeOK, NEW j \in Jobs, NEW r \in JobRow, Patch(j, r)
  PROVE  /\ job' \in [Jobs -> JobRow]
         /\ job'[j].st = r.st /\ job'[j].tries = r.tries /\ job'[j].copy = r.copy /\ job'[j].clear = r.clear
         /\ job'[j].note = r.note /\ job'[j].old = FALSE
         /\ \A i \in Jobs \ {j} : job'[i] = job[i]
<1>1. [r EXCEPT !.old = FALSE] \in JobRow
  BY DEF JobRow
<1> QED
  BY <1>1 DEF TypeOK, Patch, JobRow

LEMMA Types ==
  ASSUME TypeOK, NEW w \in Replicas
  PROVE  /\ pc[w] \in Steps /\ mem[w] \in Mem /\ mem[w].job \in Jobs /\ Row(w) \in JobRow
         /\ \A m \in batch[w] : m \in Mem /\ m.job \in Jobs /\ job[m.job] \in JobRow
BY DEF TypeOK, Mem, Row

\* What a step may write into a job's row, and into its memory of it.
LEMMA RowFields ==
  ASSUME NEW r \in JobRow
  PROVE  /\ [r EXCEPT !.clear = r.clear] \in JobRow
         /\ \A s \in JobStatus, n \in Notes : [r EXCEPT !.st = s, !.note = n] \in JobRow
         /\ \A n \in Notes : [r EXCEPT !.st = "pending", !.note = n, !.due = FALSE] \in JobRow
         /\ [r EXCEPT !.st = "in_flight", !.tries = @ + 1] \in JobRow
         /\ \A c \in SUBSET Slots : [r EXCEPT !.clear = c] \in JobRow
         /\ [r EXCEPT !.copy = TRUE] \in JobRow
<1>1. r.tries + 1 \in Nat
  BY DEF JobRow
<1>2. [r EXCEPT !.st = "in_flight", !.tries = @ + 1] \in JobRow
  BY <1>1 DEF JobRow, JobStatus
<1> QED
  BY <1>2 DEF JobRow, JobStatus

LEMMA MemFields ==
  ASSUME NEW m \in Mem
  PROVE  /\ \A c \in SUBSET Slots : /\ [m EXCEPT !.clear = c] \in Mem
                                    /\ [m EXCEPT !.left = c] \in Mem
                                    /\ [m EXCEPT !.made = TRUE, !.left = c] \in Mem
         /\ \A e \in {"none", "error", "reconnect"} : [m EXCEPT !.err = e] \in Mem
         /\ [m EXCEPT !.tries = @ + 1] \in Mem
<1>1. m.tries + 1 \in Nat
  BY DEF Mem
<1>2. [m EXCEPT !.tries = @ + 1] \in Mem
  BY <1>1 DEF Mem
<1> QED
  BY <1>2 DEF Mem

\* What such a step leaves of its memory.
LEMMA MemSame ==
  ASSUME NEW m \in Mem
  PROVE  /\ \A c : [m EXCEPT !.clear = c].job = m.job /\ [m EXCEPT !.left = c].job = m.job
                 /\ [m EXCEPT !.made = TRUE, !.left = c].job = m.job
         /\ \A e : [m EXCEPT !.err = e].job = m.job
BY DEF Mem

LEMMA InHand ==
  ASSUME TypeOK, NEW w \in Replicas
  PROVE  /\ NoMem \in Mem /\ mem[w].clear \in SUBSET Slots /\ mem[w].left \in SUBSET Slots
         /\ open[mem[w].job] \in SUBSET Slots /\ Templates(w) \in SUBSET Slots
         /\ mem[w].err \in {"none", "error", "reconnect"}
BY NoMemType, Types DEF Mem, TypeOK, Templates

LEMMA ListedType == ASSUME TypeOK, NEW j \in Jobs PROVE Listed(j) \in Mem
BY NoMemType DEF TypeOK, JobRow, Listed, Mem

-----------------------------------------------------------------------------
(* Types.                                                                  *)

\* A write of the row in hand, or none, and a move of the replica.
LEMMA StepType ==
  ASSUME TypeOK, NEW w \in Replicas, NEW s \in Steps, NEW m \in Mem, Goto(w, s, m),
         job' = job \/ \E j \in Jobs, r \in JobRow : Patch(j, r)
  PROVE  /\ up' \subseteq Replicas /\ job' \in [Jobs -> JobRow] /\ pc' \in [Replicas -> Steps]
         /\ batch' \in [Replicas -> SUBSET Mem] /\ mem' \in [Replicas -> Mem]
BY GotoFacts, PatchFacts DEF TypeOK

LEMMA TypeTick ==
  ASSUME TypeOK, NEW w \in Replicas, Tick(w)
  PROVE  TypeOK'
<1>1. UNCHANGED salesforce /\ Bounds
  BY DEF Tick, Reap, List, Claim, Lose, EndTick
<1> SUFFICES /\ up' \subseteq Replicas /\ job' \in [Jobs -> JobRow] /\ pc' \in [Replicas -> Steps]
             /\ batch' \in [Replicas -> SUBSET Mem] /\ mem' \in [Replicas -> Mem]
  BY <1>1 DEF TypeOK, salesforce, Bounds
<1>2. NoMem \in Mem
  BY NoMemType
<1>3. CASE Reap(w)
  <2>1. job' \in [Jobs -> JobRow]
    <3>1. \A r \in JobRow : [r EXCEPT !.st = "pending", !.old = FALSE] \in JobRow
      BY DEF JobRow, JobStatus
    <3> QED
      BY <1>3, <3>1 DEF Reap, TypeOK
  <2>2. Goto(w, "list", NoMem)
    BY <1>3 DEF Reap
  <2> QED
    BY <1>2, <2>1, <2>2, GotoFacts DEF TypeOK, Steps
<1>4. CASE List(w)
  <2>1. {Listed(j) : j \in {i \in Jobs : job[i].st = "pending" /\ job[i].due}} \in SUBSET Mem
    BY ListedType
  <2> QED
    BY <1>4, <2>1 DEF List, TypeOK, Steps
<1>5. CASE Claim(w)
  <2>1. PICK m \in batch[w] :
          /\ Patch(m.job, [job[m.job] EXCEPT !.st = "in_flight", !.tries = @ + 1])
          /\ batch' = [batch EXCEPT ![w] = @ \ {m}]
          /\ mem' = [mem EXCEPT ![w] = [m EXCEPT !.tries = @ + 1]]
          /\ pc' = [pc EXCEPT ![w] = "start"]
    BY <1>5 DEF Claim
  <2>2. m \in Mem /\ m.job \in Jobs /\ job[m.job] \in JobRow
    BY Types
  <2>3. [m EXCEPT !.tries = @ + 1] \in Mem /\ [job[m.job] EXCEPT !.st = "in_flight", !.tries = @ + 1] \in JobRow
    BY <2>2, MemFields, RowFields
  <2>4. job' \in [Jobs -> JobRow]
    BY <2>1, <2>2, <2>3, PatchFacts
  <2>5. up' = up
    BY <1>5 DEF Claim
  <2> QED
    BY <2>1, <2>3, <2>4, <2>5 DEF TypeOK, Steps
<1>6. CASE Lose(w)
  BY <1>6 DEF Lose, TypeOK
<1>7. CASE EndTick(w)
  BY <1>2, <1>7, GotoFacts DEF EndTick, TypeOK, Steps
<1> QED
  BY <1>3, <1>4, <1>5, <1>6, <1>7 DEF Tick

LEMMA TypeProcess ==
  ASSUME TypeOK, NEW w \in Replicas, Process(w)
  PROVE  TypeOK'
<1>1. /\ NoMem \in Mem /\ pc[w] \in Steps /\ mem[w] \in Mem /\ mem[w].job \in Jobs /\ Row(w) \in JobRow
      /\ mem[w].clear \in SUBSET Slots /\ open[mem[w].job] \in SUBSET Slots
  BY NoMemType, Types DEF Mem, TypeOK
<1>2. ASSUME NEW s \in Steps, NEW m \in Mem, Goto(w, s, m),
             job' = job \/ \E r \in JobRow : Patch(mem[w].job, r),
             UNCHANGED salesforce, Bounds
      PROVE  TypeOK'
  BY <1>1, <1>2, StepType DEF TypeOK, salesforce, Bounds
<1>3. CASE Start(w)
  <2>1. PICK s \in {"complete", "findTask"}, m \in {mem[w], [mem[w] EXCEPT !.left = mem[w].clear]} : Goto(w, s, m)
    BY <1>3 DEF Start
  <2>2. m \in Mem
    BY <1>1, <2>1, MemFields
  <2> QED
    BY <1>2, <1>3, <2>1, <2>2 DEF Start, Steps
<1>4. CASE FindTask(w)
  <2>1. Templates(w) \in SUBSET Slots
    BY <1>1 DEF Templates
  <2> QED
    BY <1>1, <1>2, <1>4, <2>1, MemFields DEF FindTask, Steps
<1>5. CASE NothingToRoll(w) \/ NotOwner(w) \/ NoDay(w) \/ Succeed(w)
  <2>1. PICK s \in JobStatus, n \in Notes : Close(w, [Row(w) EXCEPT !.st = s, !.note = n])
    BY <1>5 DEF NothingToRoll, NotOwner, NoDay, Succeed, JobStatus, Notes
  <2>2. [Row(w) EXCEPT !.st = s, !.note = n] \in JobRow
    BY <1>1, <2>1, RowFields
  <2> QED
    BY <1>1, <1>2, <1>5, <2>1, <2>2 DEF NothingToRoll, NotOwner, NoDay, Succeed, Close, Steps
<1>6. CASE ClearSet(w)
  <2>1. [mem[w] EXCEPT !.clear = @ \cup open[mem[w].job]] \in Mem
    BY <1>1, MemFields
  <2> QED
    BY <1>2, <1>6, <2>1 DEF ClearSet, Steps
<1>7. CASE PickDay(w)
  BY <1>1, <1>2, <1>7, RowFields DEF PickDay, Steps
<1>8. CASE Create(w)
  <2>1. copies' \in [Jobs -> Nat]
    BY <1>1, <1>8 DEF Create, TypeOK
  <2> QED
    BY <1>1, <1>8, <2>1, StepType DEF Create, TypeOK, Bounds, Steps
<1>9. CASE StampCopy(w)
  BY <1>1, <1>2, <1>9, RowFields, MemFields DEF StampCopy, Steps
<1>10. CASE Complete(w)
  <2>1. PICK s \in mem[w].left :
          /\ moved' = [moved EXCEPT ![mem[w].job] = @ \cup ({s} \cap open[mem[w].job])]
          /\ open' = [open EXCEPT ![mem[w].job] = @ \ {s}]
          /\ Goto(w, "complete", [mem[w] EXCEPT !.left = @ \ {s}])
    BY <1>10 DEF Complete
  <2>2. moved' \in [Jobs -> SUBSET Slots] /\ open' \in [Jobs -> SUBSET Slots]
    BY <1>1, <2>1 DEF TypeOK
  <2>3. [mem[w] EXCEPT !.left = @ \ {s}] \in Mem
    BY <1>1, MemFields DEF Mem
  <2> QED
    BY <1>1, <1>10, <2>1, <2>2, <2>3, StepType DEF Complete, TypeOK, Bounds, Steps
<1>11. CASE Catch(w)
  <2>1. mem[w].err \in Notes
    BY <1>1 DEF Mem, Notes
  <2>2. \E r \in JobRow : Close(w, r)
    BY <1>1, <1>11, <2>1, RowFields DEF Catch, JobStatus
  <2> QED
    BY <1>1, <1>2, <1>11, <2>2 DEF Catch, Close, Steps
<1> QED
  BY <1>3, <1>4, <1>5, <1>6, <1>7, <1>8, <1>9, <1>10, <1>11 DEF Process

LEMMA FaultType == ASSUME TypeOK, NEW f, Fault(f) PROVE faults' \in Nat /\ hands' \in Nat
BY DEF TypeOK, Fault

LEMMA TypeFailure ==
  ASSUME TypeOK, NEW w \in Replicas, Failure(w)
  PROVE  TypeOK'
<1>1. /\ NoMem \in Mem /\ pc[w] \in Steps /\ mem[w] \in Mem /\ mem[w].job \in Jobs
      /\ \A e \in {"none", "error", "reconnect"} : [mem[w] EXCEPT !.err = e] \in Mem
  BY NoMemType, Types, MemFields
<1>2. faults' \in Nat /\ hands' \in Nat
  BY FaultType DEF Failure, CreateUnanswered, StampLost, RequestFails, CatchLost, Crash
<1>3. CASE CreateUnanswered(w) \/ StampLost(w)
  <2>1. copies' \in [Jobs -> Nat] /\ unheard' \in [Jobs -> Nat]
    <3>1. CASE CreateUnanswered(w)
      BY <1>1, <3>1 DEF CreateUnanswered, TypeOK
    <3>2. CASE StampLost(w)
      BY <1>1, <3>2 DEF StampLost, TypeOK
    <3> QED
      BY <1>3, <3>1, <3>2
  <2> QED
    BY <1>1, <1>2, <1>3, <2>1, StepType DEF CreateUnanswered, StampLost, TypeOK, Steps
<1>4. CASE RequestFails(w) \/ CatchLost(w)
  BY <1>1, <1>2, <1>4, StepType DEF RequestFails, CatchLost, TypeOK, Steps, salesforce
<1>5. CASE Crash(w)
  BY <1>1, <1>2, <1>5 DEF Crash, TypeOK, Steps
<1> QED
  BY <1>3, <1>4, <1>5 DEF Failure

LEMMA TypeTable ==
  ASSUME TypeOK, NEW j \in Jobs, Table(j)
  PROVE  TypeOK'
<1>1. CASE Enqueue(j) \/ Due(j) \/ Stale(j)
  <2>1. job' \in [Jobs -> JobRow]
    <3>1. job[j] \in JobRow
      BY DEF TypeOK
    <3>2. /\ [job[j] EXCEPT !.st = "pending"] \in JobRow
          /\ [job[j] EXCEPT !.due = TRUE] \in JobRow /\ [job[j] EXCEPT !.old = TRUE] \in JobRow
      BY <3>1 DEF JobRow, JobStatus
    <3>3. \E r \in JobRow : job' = [job EXCEPT ![j] = r]
      BY <1>1, <3>2 DEF Enqueue, Due, Stale, TypeOK
    <3> QED
      BY <3>3 DEF TypeOK
  <2> QED
    BY <1>1, <2>1 DEF Enqueue, Due, Stale, TypeOK, salesforce, Bounds
<1>2. ASSUME NEW s \in Slots, RepCompletes(j, s) PROVE TypeOK'
  BY <1>2 DEF RepCompletes, TypeOK
<1> QED
  BY <1>1, <1>2 DEF Table

LEMMA TypeStep == TypeOK /\ [Next]_vars => TypeOK'
<1> SUFFICES ASSUME TypeOK, [Next]_vars PROVE TypeOK'
  OBVIOUS
<1>1. CASE UNCHANGED vars
  BY <1>1 DEF vars, TypeOK
<1> QED
  BY <1>1, TypeTick, TypeProcess, TypeFailure, TypeTable DEF Next

LEMMA TypeInit == Init => TypeOK
<1> SUFFICES ASSUME Init PROVE TypeOK
  OBVIOUS
<1>1. \A b \in BOOLEAN : [NoJob EXCEPT !.bySource = b] \in JobRow
  BY DEF NoJob, JobRow, JobStatus, Notes
<1> QED
  BY <1>1, NoMemType DEF Init, TypeOK, Steps

\* Every variable keeps its type.
THEOREM TypeCorrect == Spec => []TypeOK
BY TypeInit, TypeStep, PTL DEF Spec

-----------------------------------------------------------------------------
(* The inductive invariant.                                                *)

\* Steps before the copy's id is on the job.
Fresh == {"findTask", "clearSet", "pickDay", "create", "stamp"}

JobInv(j) ==
  /\ job[j].copy => copies[j] > 0 /\ open[j] \subseteq job[j].clear
  /\ moved[j] # {} => copies[j] > 0
  /\ job[j].st = "succeeded" /\ job[j].note = "none" => copies[j] > 0 /\ open[j] = {}

\* A job in hand is in flight and freshly claimed; a copy is believed in only
\* where one is, and the set to complete holds every task still open.
HoldInv(v) ==
  pc[v] \in Busy =>
    /\ job[mem[v].job].st = "in_flight" /\ ~job[mem[v].job].old
    /\ mem[v].copy \/ mem[v].made \/ pc[v] \in {"stamp", "complete"} => copies[mem[v].job] > 0
    /\ mem[v].copy \/ pc[v] \in {"pickDay", "create", "stamp"} => open[mem[v].job] \subseteq mem[v].clear
    /\ pc[v] \in {"create", "stamp"} => job[mem[v].job].clear = mem[v].clear
    /\ pc[v] = "complete" => open[mem[v].job] \subseteq mem[v].left
    /\ pc[v] \in Fresh => ~mem[v].copy /\ ~mem[v].made
    /\ pc[v] = "start" => ~mem[v].made

\* What a listing says of a job's copy and clear set stays true.
ListInv(v) ==
  \A m \in batch[v] : ~m.made /\ (m.copy => copies[m.job] > 0 /\ open[m.job] \subseteq m.clear)

\* The claim and the reaper's limit leave a job to one replica at a time.
OneHolder == \A v, w \in Replicas : pc[v] \in Busy /\ pc[w] \in Busy /\ mem[v].job = mem[w].job => v = w

Inv ==
  /\ \A j \in Jobs : JobInv(j)
  /\ \A v \in Replicas : HoldInv(v) /\ ListInv(v)
  /\ OneHolder

\* A step on the job in hand touches nothing of the other jobs and replicas.
OwnStep(w) ==
  /\ \A v \in Replicas \ {w} : pc'[v] = pc[v] /\ mem'[v] = mem[v] /\ batch'[v] = batch[v]
  /\ \A i \in Jobs \ {mem[w].job} :
       job'[i] = job[i] /\ open'[i] = open[i] /\ copies'[i] = copies[i] /\ moved'[i] = moved[i]
       /\ unheard'[i] = unheard[i]
  /\ up' = up /\ batch'[w] \subseteq batch[w]
  /\ \A i \in Jobs : open'[i] \subseteq open[i] /\ copies'[i] >= copies[i]
  /\ pc'[w] \in Busy => mem'[w].job = mem[w].job
  /\ pc[w] \in Busy \/ (job' = job /\ moved' = moved /\ pc'[w] \notin Busy)

LEMMA OwnSteps ==
  ASSUME TypeOK, NEW w \in Replicas, Process(w) \/ Failure(w)
  PROVE  OwnStep(w)
<1>1. /\ NoMem \in Mem /\ pc[w] \in Steps /\ mem[w] \in Mem /\ mem[w].job \in Jobs /\ Row(w) \in JobRow
      /\ mem[w].clear \in SUBSET Slots /\ open[mem[w].job] \in SUBSET Slots
  BY InHand, Types
<1>2. /\ \A i \in Jobs : copies[i] >= copies[i] /\ copies[i] + 1 >= copies[i] /\ copies[i] \in Nat
      /\ DOMAIN copies = Jobs /\ DOMAIN open = Jobs /\ DOMAIN moved = Jobs /\ DOMAIN unheard = Jobs
  BY DEF TypeOK
<1>3. ASSUME NEW s \in Steps, NEW m \in Mem, Goto(w, s, m), s \in Busy => m.job = mem[w].job,
             job' = job \/ \E r \in JobRow : Patch(mem[w].job, r),
             UNCHANGED salesforce, pc[w] \in Busy
      PROVE  OwnStep(w)
  <2>1. /\ pc'[w] = s /\ mem'[w] = m /\ up' = up /\ batch' = batch
        /\ \A v \in Replicas \ {w} : pc'[v] = pc[v] /\ mem'[v] = mem[v]
    BY <1>3, GotoFacts
  <2>2. \A i \in Jobs \ {mem[w].job} : job'[i] = job[i]
    BY <1>1, <1>3, PatchFacts
  <2> QED
    BY <1>2, <1>3, <2>1, <2>2 DEF OwnStep, salesforce
<1>4. Process(w) => pc[w] \in Busy
  BY DEF Process, Start, FindTask, NothingToRoll, NotOwner, ClearSet, NoDay, PickDay, Create, StampCopy,
     Complete, Succeed, Catch, At, Busy, Steps
<1>5. CASE Start(w)
  <2>1. PICK s \in {"complete", "findTask"}, m \in {mem[w], [mem[w] EXCEPT !.left = mem[w].clear]} : Goto(w, s, m)
    BY <1>5 DEF Start
  <2>2. m \in Mem /\ m.job = mem[w].job
    <3>1. [mem[w] EXCEPT !.left = mem[w].clear] \in Mem /\ [mem[w] EXCEPT !.left = mem[w].clear].job = mem[w].job
      BY <1>1, MemFields, MemSame
    <3> QED
      BY <1>1, <2>1, <3>1
  <2> QED
    BY <1>3, <1>4, <1>5, <2>1, <2>2 DEF Start, Steps, Process
<1>6. CASE FindTask(w) \/ ClearSet(w)
  <2>1. Templates(w) \in SUBSET Slots
    BY <1>1 DEF Templates
  <2>2. PICK s \in {"clearSet", "pickDay"}, c \in SUBSET Slots : Goto(w, s, [mem[w] EXCEPT !.clear = c])
    <3>1. mem[w].clear \cup open[mem[w].job] \in SUBSET Slots
      BY <1>1
    <3> QED
      BY <1>6, <2>1, <3>1 DEF FindTask, ClearSet
  <2>3. [mem[w] EXCEPT !.clear = c] \in Mem /\ [mem[w] EXCEPT !.clear = c].job = mem[w].job
    BY <1>1, InHand, MemFields, MemSame
  <2> QED
    BY <1>3, <1>4, <1>6, <2>2, <2>3 DEF FindTask, ClearSet, Steps, Process
<1>7. ASSUME NEW r \in JobRow, Close(w, r), UNCHANGED salesforce, pc[w] \in Busy PROVE OwnStep(w)
  BY <1>1, <1>3, <1>7 DEF Close, Steps, Busy
<1>8. CASE NothingToRoll(w) \/ NotOwner(w) \/ NoDay(w) \/ Succeed(w)
  <2>1. PICK s \in JobStatus, n \in Notes : Close(w, [Row(w) EXCEPT !.st = s, !.note = n])
    BY <1>8 DEF NothingToRoll, NotOwner, NoDay, Succeed, JobStatus, Notes
  <2>2. [Row(w) EXCEPT !.st = s, !.note = n] \in JobRow
    BY <1>1, <2>1, RowFields
  <2> QED
    BY <1>4, <1>7, <1>8, <2>1, <2>2 DEF NothingToRoll, NotOwner, NoDay, Succeed, Process
<1>9. CASE PickDay(w)
  BY <1>1, <1>3, <1>4, <1>9, RowFields DEF PickDay, Steps, Process
<1>10. CASE Create(w)
  <2>1. Goto(w, "stamp", mem[w]) /\ UNCHANGED <<job, open, moved, unheard>>
        /\ copies' = [copies EXCEPT ![mem[w].job] = @ + 1] /\ pc[w] \in Busy
    BY <1>4, <1>10 DEF Create, Process
  <2> QED
    BY <1>1, <1>2, <2>1, GotoFacts DEF OwnStep, Steps
<1>11. CASE StampCopy(w)
  <2>1. [mem[w] EXCEPT !.made = TRUE, !.left = mem[w].clear] \in Mem
        /\ [mem[w] EXCEPT !.made = TRUE, !.left = mem[w].clear].job = mem[w].job
    BY <1>1, InHand, MemFields, MemSame
  <2> QED
    BY <1>1, <1>3, <1>4, <1>11, <2>1, RowFields DEF StampCopy, Steps, Process
<1>12. CASE Complete(w)
  <2>1. PICK s \in mem[w].left :
          /\ moved' = [moved EXCEPT ![mem[w].job] = @ \cup ({s} \cap open[mem[w].job])]
          /\ open' = [open EXCEPT ![mem[w].job] = @ \ {s}]
          /\ Goto(w, "complete", [mem[w] EXCEPT !.left = @ \ {s}])
    BY <1>12 DEF Complete
  <2>2. [mem[w] EXCEPT !.left = @ \ {s}] \in Mem /\ [mem[w] EXCEPT !.left = @ \ {s}].job = mem[w].job
    <3>1. mem[w].left \ {s} \in SUBSET Slots
      BY InHand
    <3> QED
      BY <1>1, <3>1, MemFields, MemSame
  <2>3. pc[w] \in Busy /\ UNCHANGED <<job, copies, unheard>>
    BY <1>4, <1>12 DEF Process, Complete
  <2> QED
    BY <1>1, <1>2, <2>1, <2>2, <2>3, GotoFacts DEF OwnStep, Steps
<1>13. CASE Catch(w)
  <2>1. mem[w].err \in Notes
    BY <1>1 DEF Mem, Notes
  <2>2. \E r \in JobRow : Close(w, r)
    BY <1>1, <1>13, <2>1, RowFields DEF Catch, JobStatus
  <2> QED
    BY <1>4, <1>7, <1>13, <2>2 DEF Catch, Process
<1>14. CASE CreateUnanswered(w) \/ StampLost(w)
  <2>1. /\ Goto(w, "catch", [mem[w] EXCEPT !.err = "error"]) /\ UNCHANGED <<job, open, moved>>
        /\ pc[w] \in Busy /\ unheard' = [unheard EXCEPT ![mem[w].job] = @ + 1]
        /\ copies' = copies \/ copies' = [copies EXCEPT ![mem[w].job] = @ + 1]
    BY <1>14 DEF CreateUnanswered, StampLost, At, Busy, Steps
  <2>2. [mem[w] EXCEPT !.err = "error"] \in Mem /\ [mem[w] EXCEPT !.err = "error"].job = mem[w].job
    BY <1>1, MemFields, MemSame
  <2> DEFINE m == [mem[w] EXCEPT !.err = "error"]
  <2>3. Goto(w, "catch", m)
    BY <2>1
  <2> HIDE DEF m
  <2>4. pc'[w] = "catch" /\ mem'[w] = m /\ up' = up /\ batch' = batch
        /\ \A v \in Replicas \ {w} : pc'[v] = pc[v] /\ mem'[v] = mem[v]
    BY <2>2, <2>3, GotoFacts DEF Steps, m
  <2>5. m.job = mem[w].job
    BY <2>2 DEF m
  <2>6. \A i \in Jobs \ {mem[w].job} : copies'[i] = copies[i] /\ unheard'[i] = unheard[i]
    BY <1>1, <1>2, <2>1
  <2>7. \A i \in Jobs : copies'[i] >= copies[i]
    BY <1>1, <1>2, <2>1
  <2> QED
    BY <2>1, <2>4, <2>5, <2>6, <2>7 DEF OwnStep
<1>15. CASE RequestFails(w)
  <2>1. PICK e \in {"error", "reconnect"} : Goto(w, "catch", [mem[w] EXCEPT !.err = e])
    BY <1>15 DEF RequestFails
  <2>2. [mem[w] EXCEPT !.err = e] \in Mem /\ [mem[w] EXCEPT !.err = e].job = mem[w].job
    BY <1>1, MemFields, MemSame
  <2>3. pc[w] \in Busy /\ job' = job /\ UNCHANGED salesforce
    BY <1>15 DEF RequestFails, Busy, Steps
  <2> QED
    BY <1>3, <2>1, <2>2, <2>3 DEF Steps
<1>16. CASE CatchLost(w)
  BY <1>1, <1>3, <1>16 DEF CatchLost, At, Busy, Steps
<1>17. CASE Crash(w)
  <2>1. /\ pc' = [pc EXCEPT ![w] = "idle"] /\ mem' = [mem EXCEPT ![w] = NoMem]
        /\ batch' = [batch EXCEPT ![w] = {}] /\ UNCHANGED <<up, job, open, moved, copies>>
        /\ \A i \in Jobs \ {mem[w].job} : unheard'[i] = unheard[i]
    BY <1>1, <1>2, <1>17 DEF Crash
  <2>2. pc'[w] = "idle"
    BY <2>1 DEF TypeOK
  <2> QED
    BY <1>2, <2>1, <2>2 DEF OwnStep, Busy, TypeOK
<1> QED
  BY <1>5, <1>6, <1>8, <1>9, <1>10, <1>11, <1>12, <1>13, <1>14, <1>15, <1>16, <1>17 DEF Process, Failure

\* What the step leaves of the invariant to be shown.
LEMMA OwnFrame ==
  ASSUME TypeOK, TypeOK', Inv, NEW w \in Replicas, OwnStep(w)
  PROVE  /\ \A v \in Replicas \ {w} : HoldInv(v)'
         /\ \A v \in Replicas : ListInv(v)'
         /\ OneHolder'
         /\ \A i \in Jobs \ {mem[w].job} : JobInv(i)'
<1>1. \A v \in Replicas : mem[v].job \in Jobs /\ \A m \in batch[v] : m.job \in Jobs
  BY Types
<1>2. \A i \in Jobs : copies[i] \in Nat /\ copies'[i] \in Nat /\ copies'[i] >= copies[i] /\ open'[i] \subseteq open[i]
  BY DEF TypeOK, OwnStep
<1>3. \A i \in Jobs : copies[i] > 0 => copies'[i] > 0
  <2> SUFFICES ASSUME NEW i \in Jobs, copies[i] > 0 PROVE copies'[i] > 0
    OBVIOUS
  <2>1. CASE i # mem[w].job
    BY <2>1 DEF OwnStep
  <2>2. copies'[i] >= copies[i] /\ copies[i] \in Nat /\ copies'[i] \in Nat /\ copies[i] > 0
    BY <1>2
  <2> QED
    BY <2>2
<1>4. ASSUME NEW v \in Replicas \ {w} PROVE HoldInv(v)'
  <2>1. pc'[v] = pc[v] /\ mem'[v] = mem[v] /\ HoldInv(v)
    BY DEF OwnStep, Inv
  <2>2. pc[v] \in Busy => job'[mem[v].job] = job[mem[v].job]
    BY <1>1 DEF OwnStep, Inv, OneHolder
  <2> QED
    BY <1>1, <1>2, <1>3, <2>1, <2>2 DEF HoldInv
<1>5. ASSUME NEW v \in Replicas PROVE ListInv(v)'
  <2>1. batch'[v] \subseteq batch[v] /\ ListInv(v)
    BY DEF OwnStep, Inv
  <2> QED
    BY <1>1, <1>2, <1>3, <2>1 DEF ListInv
<1>6. OneHolder'
  BY DEF OwnStep, Inv, OneHolder
<1>7. ASSUME NEW i \in Jobs \ {mem[w].job} PROVE JobInv(i)'
  BY DEF OwnStep, Inv, JobInv
<1> QED
  BY <1>4, <1>5, <1>6, <1>7

\* The step's own replica and job.  Close leaves the replica with no job.
LEMMA Closed ==
  ASSUME TypeOK, NEW w \in Replicas, NEW r \in JobRow, Close(w, r)
  PROVE  /\ pc'[w] = "batch"
         /\ job'[mem[w].job].st = r.st /\ job'[mem[w].job].copy = r.copy /\ job'[mem[w].job].clear = r.clear
         /\ job'[mem[w].job].note = r.note /\ job'[mem[w].job].tries = r.tries
<1>1. Goto(w, "batch", NoMem) /\ Patch(mem[w].job, r) /\ mem[w].job \in Jobs
  BY Types DEF Close
<1> QED
  BY ZenonT(30), <1>1, GotoFacts, PatchFacts, NoMemType DEF Steps

LEMMA OwnProcess ==
  ASSUME TypeOK, TypeOK', Inv, NEW w \in Replicas, Process(w), NEW j \in Jobs, j = mem[w].job
  PROVE  HoldInv(w)' /\ JobInv(j)'
<1>1. /\ NoMem \in Mem /\ mem[w] \in Mem /\ Row(w) \in JobRow /\ Row(w) = job[j]
      /\ copies[j] \in Nat /\ open[j] \in SUBSET Slots
  BY InHand, Types DEF Row, TypeOK
<1>2. pc[w] \in Busy /\ HoldInv(w) /\ JobInv(j)
  BY <1>1 DEF Inv, Process, Start, FindTask, NothingToRoll, NotOwner, ClearSet, NoDay, PickDay, Create, StampCopy,
     Complete, Succeed, Catch, At, Busy, Steps
<1>3. /\ job[j].st = "in_flight" /\ ~job[j].old
      /\ mem[w].copy \/ mem[w].made \/ pc[w] \in {"stamp", "complete"} => copies[j] > 0
      /\ mem[w].copy \/ pc[w] \in {"pickDay", "create", "stamp"} => open[j] \subseteq mem[w].clear
      /\ pc[w] \in {"create", "stamp"} => job[j].clear = mem[w].clear
      /\ pc[w] = "complete" => open[j] \subseteq mem[w].left
      /\ pc[w] \in Fresh => ~mem[w].copy /\ ~mem[w].made
      /\ pc[w] = "start" => ~mem[w].made
  BY <1>2 DEF HoldInv
<1>4. ASSUME NEW s \in Steps, NEW m \in Mem, Goto(w, s, m) PROVE pc'[w] = s /\ mem'[w] = m
  BY <1>4, GotoFacts
<1>5. CASE Start(w) /\ mem[w].copy
  <2> DEFINE m == [mem[w] EXCEPT !.left = mem[w].clear]
  <2>1. Goto(w, "complete", m) /\ job' = job /\ UNCHANGED salesforce /\ pc[w] = "start"
    BY <1>5 DEF Start, At
  <2>2. m \in Mem /\ m.job = j /\ m.left = mem[w].clear /\ m.copy = mem[w].copy /\ m.clear = mem[w].clear
    BY <1>1 DEF Mem
  <2> HIDE DEF m
  <2>3. pc'[w] = "complete" /\ mem'[w] = m
    BY <1>4, <2>1, <2>2 DEF Steps
  <2> QED
    BY <1>2, <1>3, <1>5, <2>1, <2>2, <2>3 DEF HoldInv, JobInv, salesforce, Fresh
<1>6. CASE Start(w) /\ ~mem[w].copy
  <2>1. Goto(w, "findTask", mem[w]) /\ job' = job /\ UNCHANGED salesforce /\ pc[w] = "start"
    BY <1>6 DEF Start, At
  <2>2. pc'[w] = "findTask" /\ mem'[w] = mem[w]
    BY <1>1, <1>4, <2>1 DEF Steps
  <2> QED
    BY <1>2, <1>3, <1>6, <2>1, <2>2 DEF HoldInv, JobInv, salesforce, Fresh
<1>7. CASE FindTask(w)
  <2> DEFINE m == [mem[w] EXCEPT !.clear = Templates(w)]
  <2>1. Goto(w, "clearSet", m) /\ job' = job /\ UNCHANGED salesforce /\ pc[w] = "findTask"
    BY <1>7 DEF FindTask, At
  <2>2. m \in Mem /\ m.job = j /\ m.copy = mem[w].copy /\ m.made = mem[w].made
    BY ZenonT(30), <1>1, InHand, MemFields DEF Mem
  <2> HIDE DEF m
  <2>3. pc'[w] = "clearSet" /\ mem'[w] = m
    BY <1>4, <2>1, <2>2 DEF Steps
  <2> QED
    BY <1>2, <1>3, <2>1, <2>2, <2>3 DEF HoldInv, JobInv, salesforce, Fresh
<1>8. CASE ClearSet(w)
  <2> DEFINE m == [mem[w] EXCEPT !.clear = @ \cup open[mem[w].job]]
  <2>1. Goto(w, "pickDay", m) /\ job' = job /\ UNCHANGED salesforce /\ pc[w] = "clearSet"
    BY <1>8 DEF ClearSet, At
  <2>2. mem[w].clear \cup open[mem[w].job] \in SUBSET Slots
    BY InHand
  <2>3. m \in Mem /\ m.job = j /\ m.copy = mem[w].copy /\ m.made = mem[w].made /\ open[j] \subseteq m.clear
    BY <1>1, <2>2, MemFields DEF Mem
  <2> HIDE DEF m
  <2>4. pc'[w] = "pickDay" /\ mem'[w] = m
    BY <1>4, <2>1, <2>3 DEF Steps
  <2> QED
    BY <1>2, <1>3, <2>1, <2>3, <2>4 DEF HoldInv, JobInv, salesforce, Fresh
<1>9. CASE NothingToRoll(w) \/ NotOwner(w) \/ NoDay(w)
  <2>1. PICK s \in JobStatus, n \in Notes \ {"none"} : Close(w, [Row(w) EXCEPT !.st = s, !.note = n])
    BY <1>9 DEF NothingToRoll, NotOwner, NoDay, JobStatus, Notes
  <2>2. [Row(w) EXCEPT !.st = s, !.note = n] \in JobRow
    BY <1>1, <2>1, RowFields
  <2>3. UNCHANGED salesforce
    BY <1>9 DEF NothingToRoll, NotOwner, NoDay
  <2>4. /\ [Row(w) EXCEPT !.st = s, !.note = n].note = n /\ [Row(w) EXCEPT !.st = s, !.note = n].copy = Row(w).copy
        /\ [Row(w) EXCEPT !.st = s, !.note = n].clear = Row(w).clear
    BY <1>1 DEF JobRow
  <2>5. pc'[w] = "batch" /\ job'[j].note = n /\ job'[j].copy = job[j].copy /\ job'[j].clear = job[j].clear
    BY <1>1, <2>1, <2>2, <2>4, Closed
  <2> QED
    BY <1>2, <2>1, <2>3, <2>5 DEF HoldInv, JobInv, salesforce, Busy
<1>10. CASE PickDay(w)
  <2>1. /\ Goto(w, "create", mem[w]) /\ Patch(j, [Row(w) EXCEPT !.clear = mem[w].clear])
        /\ UNCHANGED salesforce /\ pc[w] = "pickDay"
    BY <1>10 DEF PickDay, At
  <2>2. [Row(w) EXCEPT !.clear = mem[w].clear] \in JobRow
    BY <1>1, InHand, RowFields
  <2>3. /\ [Row(w) EXCEPT !.clear = mem[w].clear].clear = mem[w].clear
        /\ [Row(w) EXCEPT !.clear = mem[w].clear].st = "in_flight"
        /\ [Row(w) EXCEPT !.clear = mem[w].clear].copy = job[j].copy
    BY <1>1, <1>3 DEF JobRow
  <2>4. pc'[w] = "create" /\ mem'[w] = mem[w]
    BY <1>1, <1>4, <2>1 DEF Steps
  <2>5. /\ job'[j].clear = mem[w].clear /\ job'[j].st = "in_flight" /\ ~job'[j].old
        /\ job'[j].copy = job[j].copy
    BY <1>1, <2>1, <2>2, <2>3, PatchFacts
  <2> QED
    BY <1>2, <1>3, <2>1, <2>4, <2>5 DEF HoldInv, JobInv, salesforce, Fresh
<1>11. CASE Create(w)
  <2>1. /\ Goto(w, "stamp", mem[w]) /\ UNCHANGED <<job, open, moved>> /\ pc[w] = "create"
        /\ copies' = [copies EXCEPT ![j] = @ + 1]
    BY <1>11 DEF Create, At
  <2>2. copies'[j] > 0
    BY <1>1, <2>1 DEF TypeOK
  <2>3. pc'[w] = "stamp" /\ mem'[w] = mem[w]
    BY <1>1, <1>4, <2>1 DEF Steps
  <2> QED
    BY <1>2, <1>3, <2>1, <2>2, <2>3 DEF HoldInv, JobInv, Fresh
<1>12. CASE StampCopy(w)
  <2> DEFINE m == [mem[w] EXCEPT !.made = TRUE, !.left = mem[w].clear]
  <2>1. /\ Goto(w, "complete", m) /\ Patch(j, [Row(w) EXCEPT !.copy = TRUE])
        /\ UNCHANGED salesforce /\ pc[w] = "stamp"
    BY <1>12 DEF StampCopy, At
  <2>2. m \in Mem /\ m.job = j /\ m.clear = mem[w].clear /\ m.left = mem[w].clear
    BY <1>1, InHand, MemFields DEF Mem
  <2> HIDE DEF m
  <2>3. [Row(w) EXCEPT !.copy = TRUE] \in JobRow
    BY <1>1, RowFields
  <2>4. /\ [Row(w) EXCEPT !.copy = TRUE].st = "in_flight" /\ [Row(w) EXCEPT !.copy = TRUE].clear = job[j].clear
    BY <1>1, <1>3 DEF JobRow
  <2>5. job'[j].st = "in_flight" /\ ~job'[j].old /\ job'[j].clear = job[j].clear
    BY <1>1, <2>1, <2>3, <2>4, PatchFacts
  <2>6. pc'[w] = "complete" /\ mem'[w] = m
    BY <1>4, <2>1, <2>2 DEF Steps
  <2> QED
    BY <1>2, <1>3, <2>1, <2>2, <2>5, <2>6 DEF HoldInv, JobInv, salesforce, Fresh
<1>13. CASE Complete(w)
  <2>1. PICK s \in mem[w].left :
          /\ moved' = [moved EXCEPT ![j] = @ \cup ({s} \cap open[j])]
          /\ open' = [open EXCEPT ![j] = @ \ {s}]
          /\ Goto(w, "complete", [mem[w] EXCEPT !.left = @ \ {s}])
    BY <1>13 DEF Complete
  <2> DEFINE m == [mem[w] EXCEPT !.left = mem[w].left \ {s}]
  <2>2. m \in Mem /\ m.job = j /\ m.clear = mem[w].clear /\ m.left = mem[w].left \ {s} /\ m.copy = mem[w].copy
        /\ m.made = mem[w].made
    BY <1>1 DEF Mem
  <2>3. Goto(w, "complete", m)
    BY <2>1
  <2> HIDE DEF m
  <2>4. pc'[w] = "complete" /\ mem'[w] = m
    BY <1>4, <2>2, <2>3 DEF Steps
  <2>5. open'[j] = open[j] \ {s} /\ job' = job /\ copies' = copies /\ pc[w] = "complete"
    BY <1>1, <1>13, <2>1 DEF Complete, At, TypeOK
  <2> QED
    BY <1>2, <1>3, <2>2, <2>4, <2>5 DEF HoldInv, JobInv, Fresh
<1>14. CASE Succeed(w)
  <2> DEFINE r == [Row(w) EXCEPT !.st = "succeeded", !.note = "none"]
  <2>1. Close(w, r) /\ UNCHANGED salesforce /\ pc[w] = "complete" /\ mem[w].left = {}
    BY <1>14 DEF Succeed, At
  <2>2. r \in JobRow /\ r.copy = job[j].copy /\ r.clear = job[j].clear
    <3>1. r \in JobRow
      BY <1>1, RowFields DEF JobStatus, Notes
    <3> QED
      BY <1>1, <3>1 DEF JobRow
  <2> HIDE DEF r
  <2>3. pc'[w] = "batch" /\ job'[j].copy = job[j].copy /\ job'[j].clear = job[j].clear
    BY <2>1, <2>2, Closed
  <2> QED
    BY <1>2, <1>3, <2>1, <2>3 DEF HoldInv, JobInv, salesforce, Busy
<1>15. CASE Catch(w)
  <2>1. PICK r \in JobRow : /\ Close(w, r) /\ r.st \in {"failed", "pending"}
                             /\ r.copy = job[j].copy /\ r.clear = job[j].clear
    <3>1. /\ [Row(w) EXCEPT !.st = "failed", !.note = mem[w].err] \in JobRow
          /\ [Row(w) EXCEPT !.st = "pending", !.note = mem[w].err, !.due = FALSE] \in JobRow
      BY <1>1, InHand, RowFields DEF JobStatus, Notes
    <3>2. /\ [Row(w) EXCEPT !.st = "failed", !.note = mem[w].err].st = "failed"
          /\ [Row(w) EXCEPT !.st = "failed", !.note = mem[w].err].copy = job[j].copy
          /\ [Row(w) EXCEPT !.st = "failed", !.note = mem[w].err].clear = job[j].clear
          /\ [Row(w) EXCEPT !.st = "pending", !.note = mem[w].err, !.due = FALSE].st = "pending"
          /\ [Row(w) EXCEPT !.st = "pending", !.note = mem[w].err, !.due = FALSE].copy = job[j].copy
          /\ [Row(w) EXCEPT !.st = "pending", !.note = mem[w].err, !.due = FALSE].clear = job[j].clear
      BY <1>1 DEF JobRow
    <3> QED
      BY <1>15, <3>1, <3>2 DEF Catch
  <2>2. UNCHANGED salesforce
    BY <1>15 DEF Catch
  <2>3. pc'[w] = "batch" /\ job'[j].copy = job[j].copy /\ job'[j].clear = job[j].clear /\ job'[j].st # "succeeded"
    BY <2>1, Closed
  <2> QED
    BY <1>2, <2>2, <2>3 DEF HoldInv, JobInv, salesforce, Busy
<1> QED
  BY <1>5, <1>6, <1>7, <1>8, <1>9, <1>10, <1>11, <1>12, <1>13, <1>14, <1>15 DEF Process

LEMMA OwnFailure ==
  ASSUME TypeOK, TypeOK', Inv, NEW w \in Replicas, Failure(w), NEW j \in Jobs, j = mem[w].job
  PROVE  HoldInv(w)' /\ JobInv(j)'
<1>1. mem[w] \in Mem /\ HoldInv(w) /\ JobInv(j) /\ copies[j] \in Nat
  BY Types DEF Inv, TypeOK
<1>2. \A s \in Steps, m \in Mem : Goto(w, s, m) => pc'[w] = s /\ mem'[w] = m
  BY GotoFacts
<1>3. job' = job /\ open' = open /\ moved' = moved
  BY DEF Failure, CreateUnanswered, StampLost, RequestFails, CatchLost, Crash, salesforce
<1>4. copies[j] > 0 => copies'[j] > 0
  <2>1. CASE copies' = copies
    BY <2>1
  <2>2. CASE CreateUnanswered(w)
    BY <1>1, <2>2 DEF CreateUnanswered, TypeOK
  <2> QED
    BY <2>1, <2>2 DEF Failure, StampLost, RequestFails, CatchLost, Crash, salesforce
<1>5. JobInv(j)'
  BY <1>1, <1>3, <1>4 DEF JobInv
<1>6. ASSUME NEW e \in {"error", "reconnect"}, Goto(w, "catch", [mem[w] EXCEPT !.err = e]), pc[w] \in Busy
      PROVE  HoldInv(w)'
  <2> DEFINE m == [mem[w] EXCEPT !.err = e]
  <2>1. m \in Mem /\ m.job = j /\ m.copy = mem[w].copy /\ m.made = mem[w].made /\ m.clear = mem[w].clear
    BY <1>1, MemFields DEF Mem
  <2> HIDE DEF m
  <2>2. pc'[w] = "catch" /\ mem'[w] = m
    <3>1. Goto(w, "catch", m)
      BY <1>6 DEF m
    <3> QED
      BY <1>2, <2>1, <3>1 DEF Steps
  <2> QED
    BY <1>1, <1>3, <1>4, <1>6, <2>1, <2>2 DEF HoldInv, Fresh
<1>7. CASE CreateUnanswered(w) \/ StampLost(w) \/ RequestFails(w)
  <2>1. PICK e \in {"error", "reconnect"} : Goto(w, "catch", [mem[w] EXCEPT !.err = e])
    BY <1>7 DEF CreateUnanswered, StampLost, RequestFails
  <2>2. pc[w] \in Busy
    BY <1>7 DEF CreateUnanswered, StampLost, RequestFails, At, Busy, Steps
  <2> QED
    BY <1>5, <1>6, <2>1, <2>2
<1>8. CASE CatchLost(w) \/ Crash(w)
  <2>1. pc'[w] \in {"batch", "idle"}
    BY <1>2, <1>8, NoMemType DEF CatchLost, Crash, Steps, TypeOK
  <2> QED
    BY <1>5, <2>1 DEF HoldInv, Busy
<1> QED
  BY <1>7, <1>8 DEF Failure

\* A step that leaves Salesforce, and every job in hand, as they are.
Still ==
  /\ pc' = pc /\ mem' = mem /\ open' = open /\ moved' = moved /\ copies' = copies
  /\ \A v \in Replicas : batch'[v] \subseteq batch[v]
  /\ \A i \in Jobs :
       \/ job'[i] = job[i]
       \/ /\ \A v \in Replicas : ~(pc[v] \in Busy /\ mem[v].job = i)
          /\ job'[i].copy = job[i].copy /\ job'[i].clear = job[i].clear
          /\ job'[i].st # "succeeded"

LEMMA Untouched ==
  TypeOK /\ Inv /\ Still => Inv'
<1> SUFFICES ASSUME TypeOK, Inv, Still PROVE Inv'
  OBVIOUS
<1> USE DEF Still
<1>1. \A v \in Replicas : mem[v].job \in Jobs
  BY Types
<1>2. ASSUME NEW v \in Replicas PROVE HoldInv(v)' /\ ListInv(v)'
  <2>1. pc[v] \in Busy => job'[mem[v].job] = job[mem[v].job]
    BY <1>1
  <2> QED
    BY <1>1, <2>1 DEF Inv, HoldInv, ListInv
<1>3. ASSUME NEW i \in Jobs PROVE JobInv(i)'
  BY DEF Inv, JobInv
<1>4. OneHolder'
  BY DEF Inv, OneHolder
<1> QED
  BY <1>2, <1>3, <1>4 DEF Inv

LEMMA InvTable ==
  ASSUME TypeOK, Inv, NEW j \in Jobs, Table(j)
  PROVE  Inv'
<1>1. job[j] \in JobRow
  BY DEF TypeOK
<1>2. CASE Enqueue(j) \/ Due(j) \/ Stale(j)
  <2>1. \A v \in Replicas : ~(pc[v] \in Busy /\ mem[v].job = j)
    BY <1>2 DEF Enqueue, Due, Stale, HeldBy, Inv, HoldInv
  <2>2. \A i \in Jobs \ {j} : job'[i] = job[i]
    BY <1>2 DEF Enqueue, Due, Stale, TypeOK
  <2>3. job'[j].copy = job[j].copy /\ job'[j].clear = job[j].clear /\ job'[j].st # "succeeded"
    <3>1. \/ job'[j] = [job[j] EXCEPT !.st = "pending"]
          \/ job'[j] = [job[j] EXCEPT !.due = TRUE] /\ job[j].st = "pending"
          \/ job'[j] = [job[j] EXCEPT !.old = TRUE] /\ job[j].st = "in_flight"
      BY <1>2 DEF Enqueue, Due, Stale, TypeOK
    <3> QED
      BY <1>1, <3>1 DEF JobRow
  <2>4. pc' = pc /\ mem' = mem /\ open' = open /\ moved' = moved /\ copies' = copies /\ batch' = batch
    BY <1>2 DEF Enqueue, Due, Stale, salesforce
  <2> QED
    <3>1. Still
      BY <2>1, <2>2, <2>3, <2>4 DEF Still
    <3> QED
      BY <3>1, Untouched
<1>3. ASSUME NEW s \in Slots, RepCompletes(j, s) PROVE Inv'
  <2>1. \A i \in Jobs : open'[i] \subseteq open[i]
    BY <1>3 DEF RepCompletes, TypeOK
  <2>2. UNCHANGED <<job, moved, copies, pc, mem, batch>>
    BY <1>3 DEF RepCompletes
  <2>3. \A v \in Replicas : mem[v].job \in Jobs /\ \A m \in batch[v] : m.job \in Jobs
    BY Types
  <2>4. ASSUME NEW v \in Replicas PROVE HoldInv(v)' /\ ListInv(v)'
    BY <2>1, <2>2, <2>3 DEF Inv, HoldInv, ListInv
  <2>5. ASSUME NEW i \in Jobs PROVE JobInv(i)'
    BY <2>1, <2>2 DEF Inv, JobInv
  <2>6. OneHolder'
    BY <2>2 DEF Inv, OneHolder
  <2> QED
    BY <2>4, <2>5, <2>6 DEF Inv
<1> QED
  BY <1>2, <1>3 DEF Table

LEMMA InvTick ==
  ASSUME TypeOK, TypeOK', Inv, NEW w \in Replicas, Tick(w)
  PROVE  Inv'
<1>1. UNCHANGED <<open, moved, copies>>
  BY DEF Tick, Reap, List, Claim, Lose, EndTick, salesforce
<1>2. \A v \in Replicas : mem[v].job \in Jobs /\ \A m \in batch[v] : m.job \in Jobs
  BY Types
<1>3. CASE Reap(w)
  <2>1. Goto(w, "list", NoMem)
    BY <1>3 DEF Reap
  <2>2. /\ pc'[w] = "list" /\ batch' = batch
        /\ \A v \in Replicas \ {w} : pc'[v] = pc[v] /\ mem'[v] = mem[v]
    BY <2>1, GotoFacts, NoMemType DEF Steps
  <2>3. \A i \in Jobs : \/ job'[i] = job[i]
                        \/ /\ job[i].old /\ job'[i].st = "pending"
                           /\ job'[i].copy = job[i].copy /\ job'[i].clear = job[i].clear
    <3>1. ASSUME NEW i \in Jobs, job[i].st = "in_flight" /\ job[i].old
          PROVE  /\ job'[i].st = "pending" /\ job'[i].copy = job[i].copy /\ job'[i].clear = job[i].clear
      <4>1. job[i] \in JobRow /\ job'[i] = [job[i] EXCEPT !.st = "pending", !.old = FALSE]
        BY <1>3, <3>1 DEF Reap, TypeOK
      <4> QED
        BY <4>1 DEF JobRow
    <3> QED
      BY <1>3, <3>1 DEF Reap
  <2>4. ASSUME NEW v \in Replicas PROVE HoldInv(v)' /\ ListInv(v)'
    <3>1. pc[v] \in Busy => job'[mem[v].job] = job[mem[v].job]
      BY <1>2, <2>3 DEF Inv, HoldInv
    <3> QED
      BY <1>1, <1>2, <2>2, <3>1 DEF Inv, HoldInv, ListInv, Busy
  <2>5. ASSUME NEW i \in Jobs PROVE JobInv(i)'
    BY <1>1, <2>3 DEF Inv, JobInv
  <2>6. OneHolder'
    BY <2>2 DEF Inv, OneHolder, Busy
  <2> QED
    BY <2>4, <2>5, <2>6 DEF Inv
<1>4. CASE List(w)
  <2>1. /\ pc'[w] = "batch" /\ mem' = mem /\ job' = job
        /\ \A v \in Replicas \ {w} : pc'[v] = pc[v] /\ batch'[v] = batch[v]
    BY <1>4 DEF List, TypeOK
  <2>2. \A m \in batch'[w] : \E j \in Jobs : m = Listed(j)
    BY <1>4 DEF List, TypeOK
  <2>3. ASSUME NEW j \in Jobs
        PROVE  Listed(j).job = j /\ Listed(j).copy = job[j].copy /\ Listed(j).clear = job[j].clear /\ ~Listed(j).made
    BY NoMemType DEF Listed, Mem, NoMem
  <2>4. ListInv(w)'
    BY <1>1, <2>1, <2>2, <2>3 DEF ListInv, Inv, JobInv
  <2>5. ASSUME NEW v \in Replicas PROVE HoldInv(v)' /\ ListInv(v)'
    BY <1>1, <1>2, <2>1, <2>4 DEF Inv, HoldInv, ListInv, Busy
  <2>6. ASSUME NEW i \in Jobs PROVE JobInv(i)'
    BY <1>1, <2>1 DEF Inv, JobInv
  <2>7. OneHolder'
    BY <2>1 DEF Inv, OneHolder, Busy
  <2> QED
    BY <2>5, <2>6, <2>7 DEF Inv
<1>5. CASE Claim(w)
  <2>1. PICK m \in batch[w] :
          /\ job[m.job].st = "pending"
          /\ Patch(m.job, [job[m.job] EXCEPT !.st = "in_flight", !.tries = @ + 1])
          /\ batch' = [batch EXCEPT ![w] = @ \ {m}]
          /\ mem' = [mem EXCEPT ![w] = [m EXCEPT !.tries = @ + 1]]
          /\ pc' = [pc EXCEPT ![w] = "start"]
    BY <1>5 DEF Claim
  <2> DEFINE r == [job[m.job] EXCEPT !.st = "in_flight", !.tries = @ + 1]
  <2>2. m \in Mem /\ m.job \in Jobs /\ job[m.job] \in JobRow /\ r \in JobRow
    BY Types, RowFields
  <2>3. r.st = "in_flight" /\ r.copy = job[m.job].copy /\ r.clear = job[m.job].clear
    BY <2>2 DEF JobRow
  <2>4. /\ job'[m.job].st = "in_flight" /\ ~job'[m.job].old
        /\ job'[m.job].copy = job[m.job].copy /\ job'[m.job].clear = job[m.job].clear
        /\ \A i \in Jobs \ {m.job} : job'[i] = job[i]
    <3>1. Patch(m.job, r)
      BY <2>1
    <3> HIDE DEF r
    <3> QED
      BY <2>2, <2>3, <3>1, PatchFacts
  <2>5. /\ mem'[w].job = m.job /\ mem'[w].copy = m.copy /\ mem'[w].made = m.made /\ mem'[w].clear = m.clear
        /\ \A v \in Replicas \ {w} : mem'[v] = mem[v] /\ pc'[v] = pc[v] /\ batch'[v] = batch[v]
        /\ pc'[w] = "start" /\ batch'[w] \subseteq batch[w]
    BY <2>1, <2>2 DEF TypeOK, Mem
  <2>6. \A v \in Replicas : ~(pc[v] \in Busy /\ mem[v].job = m.job)
    BY <2>1 DEF Inv, HoldInv
  <2>7. ASSUME NEW v \in Replicas \ {w} PROVE HoldInv(v)'
    <3>1. pc[v] \in Busy => job'[mem[v].job] = job[mem[v].job]
      BY <1>2, <2>4, <2>6
    <3> QED
      BY <1>1, <1>2, <2>5, <3>1 DEF Inv, HoldInv
  <2>8. HoldInv(w)'
    <3>1. ~m.made /\ (m.copy => copies[m.job] > 0 /\ open[m.job] \subseteq m.clear)
      BY DEF Inv, ListInv
    <3> QED
      BY <1>1, <2>4, <2>5, <3>1 DEF HoldInv, Fresh
  <2>9. ASSUME NEW v \in Replicas PROVE ListInv(v)'
    BY <1>1, <1>2, <2>5 DEF Inv, ListInv
  <2>10. ASSUME NEW i \in Jobs PROVE JobInv(i)'
    BY <1>1, <2>4 DEF Inv, JobInv
  <2>11. OneHolder'
    BY <2>5, <2>6 DEF Inv, OneHolder
  <2> QED
    BY <2>7, <2>8, <2>9, <2>10, <2>11 DEF Inv
<1>6. CASE Lose(w)
  <2>1. \A v \in Replicas : batch'[v] \subseteq batch[v]
    BY <1>6 DEF Lose, TypeOK
  <2> QED
    <3>1. Still
      BY <1>1, <1>6, <2>1 DEF Lose, Still
    <3> QED
      BY <3>1, Untouched
<1>7. CASE EndTick(w)
  <2>1. Goto(w, "idle", NoMem) /\ job' = job
    BY <1>7 DEF EndTick
  <2>2. /\ pc'[w] = "idle" /\ batch' = batch
        /\ \A v \in Replicas \ {w} : pc'[v] = pc[v] /\ mem'[v] = mem[v]
    BY <2>1, GotoFacts, NoMemType DEF Steps
  <2>3. ASSUME NEW v \in Replicas PROVE HoldInv(v)' /\ ListInv(v)'
    BY <1>1, <1>2, <2>1, <2>2 DEF Inv, HoldInv, ListInv, Busy
  <2>4. ASSUME NEW i \in Jobs PROVE JobInv(i)'
    BY <1>1, <2>1 DEF Inv, JobInv
  <2>5. OneHolder'
    BY <2>2 DEF Inv, OneHolder, Busy
  <2> QED
    BY <2>3, <2>4, <2>5 DEF Inv
<1> QED
  BY <1>3, <1>4, <1>5, <1>6, <1>7 DEF Tick

LEMMA InvStep == TypeOK /\ Inv /\ [Next]_vars => Inv'
<1> SUFFICES ASSUME TypeOK, Inv, [Next]_vars PROVE Inv'
  OBVIOUS
<1>1. TypeOK'
  BY TypeStep
<1>2. CASE UNCHANGED vars
  <2>1. Still
    BY <1>2 DEF vars, Still
  <2> QED
    BY <2>1, Untouched
<1>3. ASSUME NEW w \in Replicas, Process(w) \/ Failure(w) PROVE Inv'
  <2>1. PICK j \in Jobs : j = mem[w].job
    BY Types
  <2>2. OwnStep(w)
    BY <1>3, OwnSteps
  <2>3. HoldInv(w)' /\ JobInv(j)'
    BY <1>1, <1>3, <2>1, OwnProcess, OwnFailure
  <2> QED
    BY <1>1, <2>1, <2>2, <2>3, OwnFrame DEF Inv
<1> QED
  BY <1>1, <1>2, <1>3, InvTick, InvTable DEF Next

LEMMA InvHolds == Spec => []Inv
<1>1. Init => Inv
  <2> SUFFICES ASSUME Init PROVE Inv
    OBVIOUS
  <2>1. \A j \in Jobs : job[j].st = "none" /\ ~job[j].copy
    BY DEF Init, NoJob
  <2> QED
    BY <2>1 DEF Init, Inv, JobInv, HoldInv, ListInv, OneHolder, Busy
<1> QED
  BY <1>1, InvStep, TypeCorrect, PTL DEF Spec

\* followup-worker.ts:15: no failure at any step, in any order of replicas,
\* completes an original before the copy that replaces it exists.
THEOREM CoveredByCopyHolds == Spec => []CoveredByCopy
<1>1. Inv => CoveredByCopy
  BY DEF Inv, JobInv, CoveredByCopy
<1> QED
  BY <1>1, InvHolds, PTL

\* followup-worker.ts:349-351, the replicas however many: a job that succeeds
\* with a copy left none of the day's tasks open.
THEOREM NothingLeftOpen ==
  Spec => [](\A j \in Jobs : job[j].st = "succeeded" /\ job[j].note = "none" => copies[j] > 0 /\ open[j] = {})
<1>1. Inv => \A j \in Jobs : job[j].st = "succeeded" /\ job[j].note = "none" => copies[j] > 0 /\ open[j] = {}
  BY DEF Inv, JobInv
<1> QED
  BY <1>1, InvHolds, PTL

\* Every write of a job but the claim is by id alone, and none of them reaches
\* a job that has settled: the replica that writes holds it in flight.
THEOREM JobStaysSettledHolds == Spec => JobStaysSettled
<1>1. TypeOK /\ Inv /\ [Next]_vars => [\A j \in Jobs : job[j].st \in SettledStatus => job'[j] = job[j]]_vars
  <2> SUFFICES ASSUME TypeOK, Inv, Next, NEW j \in Jobs, job[j].st \in SettledStatus PROVE job'[j] = job[j]
    BY DEF vars
  <2>1. job[j].st \notin {"none", "pending", "in_flight"}
    BY DEF SettledStatus
  <2>2. ASSUME NEW w \in Replicas, Process(w) \/ Failure(w) PROVE job'[j] = job[j]
    <3>1. OwnStep(w)
      BY <2>2, OwnSteps
    <3> QED
      BY <2>1, <3>1 DEF OwnStep, Inv, HoldInv
  <2>3. ASSUME NEW w \in Replicas, Tick(w) PROVE job'[j] = job[j]
    <3>1. CASE Claim(w)
      <4>1. PICK m \in batch[w] : job[m.job].st = "pending" /\ \E r : Patch(m.job, r)
        BY <3>1 DEF Claim
      <4> QED
        BY <2>1, <4>1 DEF Patch, TypeOK
    <3>2. CASE Reap(w)
      BY <2>1, <3>2 DEF Reap
    <3>3. CASE List(w) \/ Lose(w) \/ EndTick(w)
      BY <3>3 DEF List, Lose, EndTick
    <3> QED
      BY <2>3, <3>1, <3>2, <3>3 DEF Tick
  <2>4. ASSUME NEW i \in Jobs, Table(i) PROVE job'[j] = job[j]
    BY <2>1, <2>4 DEF Table, Enqueue, Due, Stale, RepCompletes, TypeOK
  <2> QED
    BY <2>2, <2>3, <2>4 DEF Next
<1> QED
  BY <1>1, InvHolds, TypeCorrect, PTL DEF JobStaysSettled, Spec

-----------------------------------------------------------------------------
(* One replica by itself: what it lists stays what the job is.             *)

Stamping(w, j) == pc[w] = "stamp" /\ mem[w].job = j
LoneList(w) ==
  /\ \A m \in batch[w] : m.tries = job[m.job].tries /\ m.copy = job[m.job].copy
  /\ \A m, n \in batch[w] : m.job = n.job => m = n
LoneHold(w) ==
  pc[w] \in Busy =>
    /\ mem[w].tries = job[mem[w].job].tries
    /\ job[mem[w].job].copy = (mem[w].copy \/ mem[w].made)
    /\ \A m \in batch[w] : m.job # mem[w].job
\* The copies of a job are the one it knows and the ones nobody heard of.
LoneJob(w, j) ==
  /\ copies[j] = unheard[j] + (IF job[j].copy \/ Stamping(w, j) THEN 1 ELSE 0)
  /\ job[j].st = "failed" /\ job[j].copy => job[j].tries >= MaxAttempts
Lone(w) == LoneList(w) /\ LoneHold(w) /\ \A j \in Jobs : LoneJob(w, j)
LoneInv == \A w \in Replicas : up = {w} => Lone(w)

LEMMA LoneClose ==
  ASSUME TypeOK, TypeOK', Inv, NEW w \in Replicas, Lone(w), OwnStep(w), NEW r \in JobRow, Close(w, r),
         UNCHANGED salesforce, pc[w] \in Busy, pc[w] # "stamp",
         r.tries = Row(w).tries, r.copy = Row(w).copy,
         r.st = "failed" /\ r.copy => r.tries >= MaxAttempts
  PROVE  Lone(w)'
<1> DEFINE j == mem[w].job
<1>1. /\ pc'[w] = "batch" /\ job'[j].st = r.st /\ job'[j].copy = r.copy /\ job'[j].tries = r.tries
  BY Closed
<1>2. j \in Jobs /\ Row(w) = job[j] /\ \A m \in batch[w] : m.job \in Jobs /\ m.job # j
  BY Types DEF Row, Lone, LoneHold
<1>3. \A i \in Jobs \ {j} : job'[i] = job[i]
  BY DEF OwnStep
<1>4. batch'[w] \subseteq batch[w]
  BY DEF OwnStep
<1>5. LoneList(w)'
  BY <1>2, <1>3, <1>4 DEF Lone, LoneList
<1>6. LoneHold(w)'
  BY <1>1 DEF LoneHold, Busy
<1>7. ASSUME NEW i \in Jobs PROVE LoneJob(w, i)'
  BY <1>1, <1>2, <1>3 DEF Lone, LoneJob, Stamping, salesforce
<1> QED
  BY <1>5, <1>6, <1>7 DEF Lone

\* A move of the replica that writes no row, or only the row's clear set.
LEMMA LoneMove ==
  ASSUME TypeOK, TypeOK', NEW w \in Replicas, Lone(w), OwnStep(w), NEW j \in Jobs, j = mem[w].job,
         pc[w] \in Busy, pc'[w] \in Busy, mem'[w].tries = mem[w].tries,
         job'[j].tries = job[j].tries, job'[j].st = "in_flight",
         job'[j].copy = (mem'[w].copy \/ mem'[w].made),
         copies'[j] = unheard'[j] + (IF job'[j].copy \/ pc'[w] = "stamp" THEN 1 ELSE 0)
  PROVE  Lone(w)'
<1>1. mem'[w].job = j
  BY DEF OwnStep
<1>2. \A m \in batch[w] : m.job \in Jobs /\ m.job # j
  BY Types DEF Lone, LoneHold
<1>3. /\ \A i \in Jobs \ {j} : job'[i] = job[i] /\ copies'[i] = copies[i] /\ unheard'[i] = unheard[i]
      /\ batch'[w] \subseteq batch[w]
  BY DEF OwnStep
<1>4. LoneList(w)'
  BY <1>2, <1>3 DEF Lone, LoneList
<1>5. LoneHold(w)'
  BY <1>1, <1>2, <1>3 DEF Lone, LoneHold
<1>6. ASSUME NEW i \in Jobs PROVE LoneJob(w, i)'
  BY <1>1, <1>3 DEF Lone, LoneJob, Stamping
<1> QED
  BY <1>4, <1>5, <1>6 DEF Lone

LEMMA LoneProcess ==
  ASSUME TypeOK, TypeOK', Inv, NEW w \in Replicas, Lone(w), Process(w)
  PROVE  Lone(w)'
<1> DEFINE j == mem[w].job
<1>1. /\ mem[w] \in Mem /\ j \in Jobs /\ Row(w) \in JobRow /\ Row(w) = job[j]
      /\ copies[j] \in Nat /\ unheard[j] \in Nat /\ OwnStep(w)
  BY OwnSteps, Types DEF Row, TypeOK
<1>2. pc[w] \in Busy /\ HoldInv(w)
  BY DEF Inv, Process, Start, FindTask, NothingToRoll, NotOwner, ClearSet, NoDay, PickDay, Create, StampCopy,
     Complete, Succeed, Catch, At, Busy, Steps
<1>3. /\ job[j].st = "in_flight" /\ job[j].copy = (mem[w].copy \/ mem[w].made) /\ job[j].tries = mem[w].tries
      /\ copies[j] = unheard[j] + (IF job[j].copy \/ pc[w] = "stamp" THEN 1 ELSE 0)
      /\ pc[w] \in Fresh => ~mem[w].copy /\ ~mem[w].made /\ ~job[j].copy
  BY <1>1, <1>2 DEF HoldInv, Lone, LoneHold, LoneJob, Stamping
<1>4. ASSUME NEW s \in Busy \ {"stamp"}, NEW m \in Mem, Goto(w, s, m), UNCHANGED <<job, copies, unheard>>,
             m.tries = mem[w].tries, m.copy = mem[w].copy, m.made = mem[w].made, pc[w] # "stamp"
      PROVE  Lone(w)'
  <2>1. pc'[w] = s /\ mem'[w] = m
    BY <1>4, GotoFacts DEF Busy
  <2> QED
    BY <1>1, <1>2, <1>3, <1>4, <2>1, LoneMove
<1>5. CASE Start(w)
  <2>1. PICK s \in {"complete", "findTask"}, m \in {mem[w], [mem[w] EXCEPT !.left = mem[w].clear]} : Goto(w, s, m)
    BY <1>5 DEF Start
  <2>2. m \in Mem /\ m.tries = mem[w].tries /\ m.copy = mem[w].copy /\ m.made = mem[w].made
    <3>1. [mem[w] EXCEPT !.left = mem[w].clear] \in Mem
      BY <1>1, InHand, MemFields
    <3> QED
      BY <1>1, <2>1, <3>1 DEF Mem
  <2> QED
    BY <1>4, <1>5, <2>1, <2>2 DEF Start, Busy, Steps, salesforce, At
<1>6. CASE FindTask(w) \/ ClearSet(w)
  <2>1. PICK s \in {"clearSet", "pickDay"}, c \in SUBSET Slots : Goto(w, s, [mem[w] EXCEPT !.clear = c])
    <3>1. mem[w].clear \cup open[mem[w].job] \in SUBSET Slots /\ Templates(w) \in SUBSET Slots
      BY InHand
    <3> QED
      BY <1>6, <3>1 DEF FindTask, ClearSet
  <2> DEFINE m == [mem[w] EXCEPT !.clear = c]
  <2>2. m \in Mem /\ m.tries = mem[w].tries /\ m.copy = mem[w].copy /\ m.made = mem[w].made
    BY <1>1, MemFields DEF Mem
  <2>3. Goto(w, s, m) /\ UNCHANGED <<job, copies, unheard>> /\ pc[w] # "stamp"
    BY <1>6, <2>1 DEF FindTask, ClearSet, salesforce, At
  <2> HIDE DEF m
  <2> QED
    BY <1>4, <2>2, <2>3 DEF Busy, Steps
<1>7. CASE PickDay(w)
  <2>1. /\ Goto(w, "create", mem[w]) /\ Patch(j, [Row(w) EXCEPT !.clear = mem[w].clear])
        /\ UNCHANGED salesforce /\ pc[w] = "pickDay"
    BY <1>7 DEF PickDay, At
  <2> DEFINE r == [Row(w) EXCEPT !.clear = mem[w].clear]
  <2>2. r \in JobRow /\ r.st = "in_flight" /\ r.tries = job[j].tries /\ r.copy = job[j].copy
    <3>1. r \in JobRow
      BY <1>1, InHand, RowFields
    <3> QED
      BY <1>1, <1>3, <3>1 DEF JobRow
  <2>3. Patch(j, r)
    BY <2>1
  <2> HIDE DEF r
  <2>4. job'[j].st = "in_flight" /\ job'[j].tries = job[j].tries /\ job'[j].copy = job[j].copy
    BY <1>1, <2>2, <2>3, PatchFacts
  <2>5. pc'[w] = "create" /\ mem'[w] = mem[w]
    BY <1>1, <2>1, GotoFacts DEF Steps
  <2> QED
    BY <1>1, <1>2, <1>3, <2>1, <2>4, <2>5, LoneMove DEF salesforce, Busy, Steps
<1>8. CASE Create(w)
  <2>1. /\ Goto(w, "stamp", mem[w]) /\ UNCHANGED <<job, unheard>> /\ pc[w] = "create"
        /\ copies' = [copies EXCEPT ![j] = @ + 1]
    BY <1>8 DEF Create, At
  <2>2. copies'[j] = copies[j] + 1 /\ unheard'[j] = unheard[j]
    BY <1>1, <2>1 DEF TypeOK
  <2>3. pc'[w] = "stamp" /\ mem'[w] = mem[w]
    BY <1>1, <2>1, GotoFacts DEF Steps
  <2>4. copies'[j] = unheard'[j] + 1
    BY <1>1, <1>3, <2>1, <2>2 DEF Fresh
  <2> QED
    BY <1>1, <1>2, <1>3, <2>1, <2>3, <2>4, LoneMove DEF Busy, Steps
<1>9. CASE StampCopy(w)
  <2> DEFINE m == [mem[w] EXCEPT !.made = TRUE, !.left = mem[w].clear]
             r == [Row(w) EXCEPT !.copy = TRUE]
  <2>1. Goto(w, "complete", m) /\ Patch(j, r) /\ UNCHANGED salesforce /\ pc[w] = "stamp"
    BY <1>9 DEF StampCopy, At
  <2>2. m \in Mem /\ m.made = TRUE /\ m.tries = mem[w].tries
    <3>1. m \in Mem
      BY <1>1, InHand, MemFields
    <3> QED
      BY <1>1, <3>1 DEF Mem
  <2>3. r \in JobRow /\ r.st = "in_flight" /\ r.tries = job[j].tries /\ r.copy = TRUE
    <3>1. r \in JobRow
      BY <1>1, RowFields
    <3> QED
      BY <1>1, <1>3, <3>1 DEF JobRow
  <2> HIDE DEF m, r
  <2>4. job'[j].st = "in_flight" /\ job'[j].tries = job[j].tries /\ job'[j].copy = TRUE
    BY <1>1, <2>1, <2>3, PatchFacts
  <2>5. pc'[w] = "complete" /\ mem'[w] = m
    BY <2>1, <2>2, GotoFacts DEF Steps
  <2>6. copies'[j] = unheard'[j] + 1
    BY <1>1, <1>3, <2>1 DEF salesforce
  <2> QED
    BY <1>1, <1>2, <2>2, <2>4, <2>5, <2>6, LoneMove DEF Busy, Steps
<1>10. CASE Complete(w)
  <2>1. PICK s \in mem[w].left : Goto(w, "complete", [mem[w] EXCEPT !.left = @ \ {s}])
    BY <1>10 DEF Complete
  <2> DEFINE m == [mem[w] EXCEPT !.left = mem[w].left \ {s}]
  <2>2. m \in Mem /\ m.tries = mem[w].tries /\ m.copy = mem[w].copy /\ m.made = mem[w].made
    BY <1>1 DEF Mem
  <2>3. Goto(w, "complete", m) /\ UNCHANGED <<job, copies, unheard>> /\ pc[w] = "complete"
    BY <1>10, <2>1 DEF Complete, At
  <2> HIDE DEF m
  <2> QED
    BY <1>4, <2>2, <2>3 DEF Busy, Steps
<1>11. CASE NothingToRoll(w) \/ NotOwner(w) \/ NoDay(w) \/ Succeed(w)
  <2>1. PICK s \in JobStatus, n \in Notes :
          /\ Close(w, [Row(w) EXCEPT !.st = s, !.note = n])
          /\ s = "failed" => pc[w] = "pickDay"
    BY <1>11 DEF NothingToRoll, NotOwner, NoDay, Succeed, JobStatus, Notes, At
  <2> DEFINE r == [Row(w) EXCEPT !.st = s, !.note = n]
  <2>2. r \in JobRow /\ r.tries = Row(w).tries /\ r.copy = Row(w).copy /\ r.st = s
    <3>1. r \in JobRow
      BY <1>1, <2>1, RowFields
    <3> QED
      BY <1>1, <3>1 DEF JobRow
  <2>3. UNCHANGED salesforce /\ pc[w] # "stamp"
    BY <1>11 DEF NothingToRoll, NotOwner, NoDay, Succeed, At
  <2>4. ~(r.st = "failed" /\ r.copy)
    BY <1>1, <1>3, <2>1, <2>2 DEF Fresh
  <2>5. Close(w, r)
    BY <2>1
  <2> HIDE DEF r
  <2> QED
    BY <1>1, <1>2, <2>2, <2>3, <2>4, <2>5, LoneClose
<1>12. CASE Catch(w)
  <2>1. PICK s \in {"failed", "pending"}, r \in JobRow :
          /\ Close(w, r) /\ r.st = s /\ r.tries = Row(w).tries /\ r.copy = Row(w).copy
          /\ s = "failed" => mem[w].tries >= MaxAttempts \/ ~CopyExists(w)
    <3> DEFINE f == [Row(w) EXCEPT !.st = "failed", !.note = mem[w].err]
               p == [Row(w) EXCEPT !.st = "pending", !.note = mem[w].err, !.due = FALSE]
    <3>1. f \in JobRow /\ p \in JobRow
      BY <1>1, InHand, RowFields DEF JobStatus, Notes
    <3>2. /\ f.st = "failed" /\ f.tries = Row(w).tries /\ f.copy = Row(w).copy
          /\ p.st = "pending" /\ p.tries = Row(w).tries /\ p.copy = Row(w).copy
      BY <1>1, <3>1 DEF JobRow
    <3>3. IF \/ mem[w].err = "reconnect" /\ ~CopyExists(w)
             \/ mem[w].tries >= MaxAttempts
          THEN Close(w, f) ELSE Close(w, p)
      BY <1>12 DEF Catch
    <3> HIDE DEF f, p
    <3> QED
      BY <3>1, <3>2, <3>3
  <2>2. UNCHANGED salesforce /\ pc[w] # "stamp"
    BY <1>12 DEF Catch, At
  <2>3. r.st = "failed" /\ r.copy => r.tries >= MaxAttempts
    BY <1>1, <1>3, <2>1 DEF CopyExists
  <2> QED
    BY <1>1, <1>2, <2>1, <2>2, <2>3, LoneClose
<1> QED
  BY <1>5, <1>6, <1>7, <1>8, <1>9, <1>10, <1>11, <1>12 DEF Process

LEMMA LoneFailure ==
  ASSUME TypeOK, TypeOK', Inv, NEW w \in Replicas, Lone(w), Failure(w)
  PROVE  Lone(w)'
<1> DEFINE j == mem[w].job
<1>1. /\ mem[w] \in Mem /\ j \in Jobs /\ copies[j] \in Nat /\ unheard[j] \in Nat /\ OwnStep(w)
  BY OwnSteps, Types DEF TypeOK
<1>2. job' = job
  BY DEF Failure, CreateUnanswered, StampLost, RequestFails, CatchLost, Crash
<1>3. copies[j] = unheard[j] + (IF job[j].copy \/ pc[w] = "stamp" THEN 1 ELSE 0)
  BY <1>1 DEF Lone, LoneJob, Stamping
<1>4. pc[w] \in Busy => /\ job[j].st = "in_flight" /\ job[j].copy = (mem[w].copy \/ mem[w].made)
                        /\ job[j].tries = mem[w].tries
                        /\ pc[w] \in Fresh => ~mem[w].copy /\ ~mem[w].made /\ ~job[j].copy
  BY DEF Inv, HoldInv, Lone, LoneHold
<1>5. ASSUME NEW e \in {"error", "reconnect"}, Goto(w, "catch", [mem[w] EXCEPT !.err = e]), pc[w] \in Busy,
             copies'[j] = unheard'[j] + (IF job[j].copy THEN 1 ELSE 0)
      PROVE  Lone(w)'
  <2> DEFINE m == [mem[w] EXCEPT !.err = e]
  <2>1. m \in Mem /\ m.tries = mem[w].tries /\ m.copy = mem[w].copy /\ m.made = mem[w].made
    BY <1>1, MemFields DEF Mem
  <2>2. Goto(w, "catch", m)
    BY <1>5
  <2> HIDE DEF m
  <2>3. pc'[w] = "catch" /\ mem'[w] = m
    BY <2>1, <2>2, GotoFacts DEF Steps
  <2> QED
    BY <1>1, <1>2, <1>4, <1>5, <2>1, <2>3, LoneMove DEF Busy, Steps
<1>6. ASSUME pc'[w] \notin Busy, copies'[j] = unheard'[j] + (IF job[j].copy THEN 1 ELSE 0)
      PROVE  Lone(w)'
  <2>1. /\ batch'[w] \subseteq batch[w] /\ \A i \in Jobs \ {j} : copies'[i] = copies[i] /\ unheard'[i] = unheard[i]
    BY <1>1 DEF OwnStep
  <2>2. LoneList(w)'
    BY <1>2, <2>1 DEF Lone, LoneList
  <2>3. LoneHold(w)'
    BY <1>6 DEF LoneHold
  <2>4. ASSUME NEW i \in Jobs PROVE LoneJob(w, i)'
    BY <1>2, <1>6, <2>1 DEF Lone, LoneJob, Stamping, Busy, Steps
  <2> QED
    BY <2>2, <2>3, <2>4 DEF Lone
<1>7. CASE CreateUnanswered(w)
  <2>1. /\ pc[w] = "create" /\ copies' = [copies EXCEPT ![j] = @ + 1] /\ unheard' = [unheard EXCEPT ![j] = @ + 1]
        /\ Goto(w, "catch", [mem[w] EXCEPT !.err = "error"])
    BY <1>7 DEF CreateUnanswered, At
  <2>2. copies'[j] = copies[j] + 1 /\ unheard'[j] = unheard[j] + 1
    BY <1>1, <2>1 DEF TypeOK
  <2>3. copies'[j] = unheard'[j] + (IF job[j].copy THEN 1 ELSE 0)
    BY <1>1, <1>3, <2>1, <2>2
  <2> QED
    BY <1>5, <2>1, <2>3 DEF Busy, Steps
<1>8. CASE StampLost(w)
  <2>1. /\ pc[w] = "stamp" /\ copies' = copies /\ unheard' = [unheard EXCEPT ![j] = @ + 1]
        /\ Goto(w, "catch", [mem[w] EXCEPT !.err = "error"])
    BY <1>8 DEF StampLost, At
  <2>2. copies'[j] = copies[j] /\ unheard'[j] = unheard[j] + 1 /\ ~job[j].copy
    BY <1>1, <1>4, <2>1 DEF TypeOK, Busy, Steps, Fresh
  <2>3. copies'[j] = unheard'[j] + (IF job[j].copy THEN 1 ELSE 0)
    BY <1>1, <1>3, <2>1, <2>2
  <2> QED
    BY <1>5, <2>1, <2>3 DEF Busy, Steps
<1>9. CASE RequestFails(w)
  <2>1. PICK e \in {"error", "reconnect"} : Goto(w, "catch", [mem[w] EXCEPT !.err = e])
    BY <1>9 DEF RequestFails
  <2>2. UNCHANGED salesforce /\ pc[w] \in Busy /\ pc[w] # "stamp"
    BY <1>9 DEF RequestFails, Busy, Steps
  <2> QED
    BY <1>3, <1>5, <2>1, <2>2 DEF salesforce
<1>10. CASE CatchLost(w)
  <2>1. pc'[w] = "batch" /\ UNCHANGED salesforce /\ pc[w] # "stamp"
    BY <1>10, GotoFacts, NoMemType DEF CatchLost, Steps, At
  <2> QED
    BY <1>3, <1>6, <2>1 DEF salesforce, Busy
<1>11. CASE Crash(w)
  <2>1. /\ pc'[w] = "idle" /\ copies' = copies
        /\ unheard' = [unheard EXCEPT ![j] = @ + IF pc[w] = "stamp" THEN 1 ELSE 0]
    BY <1>11 DEF Crash, TypeOK
  <2>2. unheard'[j] = unheard[j] + IF pc[w] = "stamp" THEN 1 ELSE 0
    BY <1>1, <2>1 DEF TypeOK
  <2>3. pc[w] = "stamp" => ~job[j].copy
    BY <1>4 DEF Busy, Steps, Fresh
  <2> QED
    BY <1>1, <1>3, <1>6, <2>1, <2>2, <2>3 DEF Busy
<1> QED
  BY <1>7, <1>8, <1>9, <1>10, <1>11 DEF Failure

\* A step of the table, and of the tick's own statements.
LEMMA LoneTable ==
  ASSUME TypeOK, NEW w \in Replicas, Lone(w), NEW j \in Jobs, Table(j)
  PROVE  Lone(w)'
<1>1. \A m \in batch[w] : m.job \in Jobs
  BY Types
<1>2. pc' = pc /\ mem' = mem /\ batch' = batch /\ copies' = copies /\ unheard' = unheard /\ mem[w].job \in Jobs
  BY Types DEF Table, Enqueue, Due, Stale, RepCompletes, salesforce
<1>3. ASSUME NEW i \in Jobs
      PROVE  job'[i].tries = job[i].tries /\ job'[i].copy = job[i].copy
             /\ (job'[i].st = "failed" => job[i].st = "failed")
  <2>1. job[i] \in JobRow
    BY DEF TypeOK
  <2>2. \/ job'[i] = job[i] \/ job'[i] = [job[i] EXCEPT !.st = "pending"]
        \/ job'[i] = [job[i] EXCEPT !.due = TRUE] \/ job'[i] = [job[i] EXCEPT !.old = TRUE]
    BY DEF Table, Enqueue, Due, Stale, RepCompletes, TypeOK
  <2> QED
    BY <2>1, <2>2 DEF JobRow
<1> QED
  BY <1>1, <1>2, <1>3 DEF Lone, LoneList, LoneHold, LoneJob, Stamping

LEMMA LoneTick ==
  ASSUME TypeOK, TypeOK', Inv, NEW w \in Replicas, Lone(w), Tick(w)
  PROVE  Lone(w)'
<1>1. copies' = copies /\ unheard' = unheard
  BY DEF Tick, Reap, List, Claim, Lose, EndTick, salesforce
<1>2. mem[w].job \in Jobs /\ \A m \in batch[w] : m.job \in Jobs
  BY Types
<1>3. \A i \in Jobs : LoneJob(w, i)
  BY DEF Lone
<1>4. CASE Reap(w)
  <2>1. Goto(w, "list", NoMem) /\ pc[w] = "idle"
    BY <1>4 DEF Reap, At
  <2>2. pc'[w] = "list" /\ batch' = batch
    BY <2>1, GotoFacts, NoMemType DEF Steps
  <2>3. ASSUME NEW i \in Jobs
        PROVE  job'[i].tries = job[i].tries /\ job'[i].copy = job[i].copy
               /\ (job'[i].st = "failed" => job[i].st = "failed")
    <3>1. job[i] \in JobRow
      BY DEF TypeOK
    <3>2. job'[i] = job[i] \/ job'[i] = [job[i] EXCEPT !.st = "pending", !.old = FALSE]
      BY <1>4 DEF Reap
    <3> QED
      BY <3>1, <3>2 DEF JobRow
  <2> QED
    BY <1>1, <1>2, <2>1, <2>2, <2>3 DEF Lone, LoneList, LoneHold, LoneJob, Stamping, Busy
<1>5. CASE List(w)
  <2>1. pc'[w] = "batch" /\ job' = job /\ pc[w] = "list"
    BY <1>5 DEF List, TypeOK, At
  <2>2. \A m \in batch'[w] : \E j \in Jobs : m = Listed(j)
    BY <1>5 DEF List, TypeOK
  <2>3. ASSUME NEW j \in Jobs
        PROVE  Listed(j).job = j /\ Listed(j).tries = job[j].tries /\ Listed(j).copy = job[j].copy
    BY NoMemType DEF Listed, Mem, NoMem
  <2>4. LoneList(w)'
    BY <2>1, <2>2, <2>3 DEF LoneList
  <2>5. LoneHold(w)'
    BY <2>1 DEF LoneHold, Busy
  <2>6. ASSUME NEW i \in Jobs PROVE LoneJob(w, i)'
    BY <1>1, <1>3, <2>1 DEF LoneJob, Stamping
  <2> QED
    BY <2>4, <2>5, <2>6 DEF Lone
<1>6. CASE Claim(w)
  <2>1. PICK m \in batch[w] :
          /\ job[m.job].st = "pending"
          /\ Patch(m.job, [job[m.job] EXCEPT !.st = "in_flight", !.tries = @ + 1])
          /\ batch' = [batch EXCEPT ![w] = @ \ {m}]
          /\ mem' = [mem EXCEPT ![w] = [m EXCEPT !.tries = @ + 1]]
          /\ pc' = [pc EXCEPT ![w] = "start"]
    BY <1>6 DEF Claim
  <2> DEFINE r == [job[m.job] EXCEPT !.st = "in_flight", !.tries = @ + 1]
  <2>2. m \in Mem /\ m.job \in Jobs /\ job[m.job] \in JobRow /\ r \in JobRow
    BY Types, RowFields
  <2>3. r.st = "in_flight" /\ r.copy = job[m.job].copy /\ r.tries = job[m.job].tries + 1
    BY <2>2 DEF JobRow
  <2>4. /\ job'[m.job].st = "in_flight" /\ job'[m.job].copy = job[m.job].copy
        /\ job'[m.job].tries = job[m.job].tries + 1
        /\ \A i \in Jobs \ {m.job} : job'[i] = job[i]
    <3>1. Patch(m.job, r)
      BY <2>1
    <3> HIDE DEF r
    <3> QED
      BY <2>2, <2>3, <3>1, PatchFacts
  <2>5. /\ mem'[w].job = m.job /\ mem'[w].copy = m.copy /\ mem'[w].made = m.made /\ mem'[w].tries = m.tries + 1
        /\ pc'[w] = "start" /\ batch'[w] = batch[w] \ {m}
    <3>1. [m EXCEPT !.tries = @ + 1] \in Mem
      BY <2>2, MemFields
    <3>2. mem'[w] = [m EXCEPT !.tries = @ + 1]
      BY <2>1 DEF TypeOK
    <3> QED
      BY <2>1, <2>2, <3>1, <3>2 DEF TypeOK, Mem
  <2>6. m.tries = job[m.job].tries /\ m.copy = job[m.job].copy /\ \A n \in batch[w] : m.job = n.job => m = n
    BY DEF Lone, LoneList
  <2>7. ~m.made
    BY DEF Inv, ListInv
  <2>8. LoneList(w)'
    BY <1>2, <2>4, <2>5, <2>6 DEF Lone, LoneList
  <2>9. LoneHold(w)'
    <3>1. m.copy \in BOOLEAN
      BY <2>2 DEF Mem
    <3>2. job'[m.job].copy = (mem'[w].copy \/ mem'[w].made)
      BY <2>4, <2>5, <2>6, <2>7, <3>1
    <3>3. \A n \in batch'[w] : n.job # m.job
      BY <2>5, <2>6
    <3> QED
      BY <2>4, <2>5, <2>6, <3>2, <3>3 DEF LoneHold
  <2>10. pc[w] = "batch"
    BY <1>6 DEF Claim, At
  <2>11. ASSUME NEW i \in Jobs PROVE LoneJob(w, i)'
    BY <1>1, <1>3, <2>4, <2>5, <2>10 DEF LoneJob, Stamping
  <2> QED
    BY <2>8, <2>9, <2>11 DEF Lone
<1>7. CASE Lose(w)
  <2>1. batch'[w] \subseteq batch[w] /\ job' = job /\ pc' = pc /\ mem' = mem
    BY <1>7 DEF Lose, TypeOK
  <2> QED
    BY <1>1, <1>2, <2>1 DEF Lone, LoneList, LoneHold, LoneJob, Stamping
<1>8. CASE EndTick(w)
  <2>1. Goto(w, "idle", NoMem) /\ job' = job /\ pc[w] = "batch"
    BY <1>8 DEF EndTick, At
  <2>2. pc'[w] = "idle" /\ batch' = batch
    BY <2>1, GotoFacts, NoMemType DEF Steps
  <2> QED
    BY <1>1, <1>2, <2>1, <2>2 DEF Lone, LoneList, LoneHold, LoneJob, Stamping, Busy
<1> QED
  BY <1>4, <1>5, <1>6, <1>7, <1>8 DEF Tick

LEMMA LoneInvHolds == Spec => []LoneInv
<1>1. Init => LoneInv
  <2> SUFFICES ASSUME Init, NEW w \in Replicas PROVE Lone(w)
    BY DEF LoneInv
  <2>1. \A j \in Jobs : job[j].st = "none" /\ ~job[j].copy
    BY DEF Init, NoJob
  <2> QED
    BY <2>1 DEF Init, Lone, LoneList, LoneHold, LoneJob, Stamping, Busy
<1>2. TypeOK /\ Inv /\ LoneInv /\ [Next]_vars => LoneInv'
  <2> SUFFICES ASSUME TypeOK, Inv, LoneInv, [Next]_vars, NEW w \in Replicas, up' = {w} PROVE Lone(w)'
    BY DEF LoneInv
  <2>1. TypeOK'
    BY TypeStep
  <2>2. CASE UNCHANGED vars
    BY <2>2 DEF vars, LoneInv, Lone, LoneList, LoneHold, LoneJob, Stamping
  <2>3. ASSUME NEW j \in Jobs, Table(j) PROVE Lone(w)'
    <3>1. up' = up
      BY <2>3 DEF Table, Enqueue, Due, Stale, RepCompletes
    <3> QED
      BY <2>3, <3>1, LoneTable DEF LoneInv
  <2>4. ASSUME NEW v \in Replicas, Tick(v) \/ Process(v) \/ Failure(v) PROVE Lone(w)'
    <3>1. CASE Tick(v)
      <4>1. v \in up /\ up' = up
        BY <3>1 DEF Tick, Reap, List, Claim, Lose, EndTick, At, Goto
      <4>2. v = w /\ Lone(w)
        BY <4>1 DEF LoneInv
      <4> QED
        BY <2>1, <3>1, <4>2, LoneTick
    <3>2. CASE Process(v)
      <4>1. v \in up
        BY <3>2 DEF Process, Start, FindTask, NothingToRoll, NotOwner, ClearSet, NoDay, PickDay, Create,
           StampCopy, Complete, Succeed, Catch, At
      <4>2. v = w /\ Lone(w)
        BY <3>2, <4>1, OwnSteps DEF LoneInv, OwnStep
      <4> QED
        BY <2>1, <3>2, <4>2, LoneProcess
    <3>3. CASE Failure(v)
      <4>1. v \in up
        BY <3>3 DEF Failure, CreateUnanswered, StampLost, RequestFails, CatchLost, Crash, At
      <4>2. v = w /\ Lone(w)
        BY <3>3, <4>1, OwnSteps DEF LoneInv, OwnStep
      <4> QED
        BY <2>1, <3>3, <4>2, LoneFailure
    <3> QED
      BY <2>4, <3>1, <3>2, <3>3
  <2> QED
    BY <2>2, <2>3, <2>4 DEF Next
<1> QED
  BY <1>1, <1>2, InvHolds, TypeCorrect, PTL DEF Spec

LEMMA OneUp == TypeOK /\ Cardinality(up) = 1 => \E w \in Replicas : up = {w}
<1> SUFFICES ASSUME TypeOK, Cardinality(up) = 1 PROVE \E w \in Replicas : up = {w}
  OBVIOUS
<1>1. IsFiniteSet(up)
  BY FS_Subset, RolloverAssumption DEF TypeOK
<1>2. PICK w : up = {w}
  BY <1>1, FS_Singleton
<1> QED
  BY <1>2 DEF TypeOK

\* followup-worker.ts:18, one replica by itself: a second copy only for a first
\* whose id the code never saw.
THEOREM NoSecondCopyAloneHolds == Spec => []NoSecondCopyAlone
<1>1. TypeOK /\ LoneInv => NoSecondCopyAlone
  <2> SUFFICES ASSUME TypeOK, LoneInv, Cardinality(up) = 1, NEW j \in Jobs
               PROVE  copies[j] <= 1 + unheard[j]
    BY DEF NoSecondCopyAlone, NoSecondCopy
  <2>1. PICK w \in Replicas : Lone(w)
    BY OneUp DEF LoneInv
  <2>2. copies[j] \in Nat /\ unheard[j] \in Nat
    BY DEF TypeOK
  <2> QED
    BY <2>1, <2>2 DEF Lone, LoneJob
<1> QED
  BY <1>1, LoneInvHolds, TypeCorrect, PTL

\* followup-worker.ts:349-351, 420: a job that succeeds with a copy leaves no task
\* open; and a lone replica gives a made copy up only out of attempts.
THEOREM MovedWholeHolds == Spec => []MovedWhole
<1>1. TypeOK /\ Inv /\ LoneInv => MovedWhole
  <2> SUFFICES ASSUME TypeOK, Inv, LoneInv, NEW j \in Jobs
               PROVE  /\ job[j].st = "succeeded" /\ job[j].note = "none" => copies[j] > 0 /\ open[j] = {}
                      /\ Cardinality(up) = 1 /\ job[j].st = "failed" /\ job[j].copy => job[j].tries >= MaxAttempts
    BY DEF MovedWhole
  <2>1. job[j].st = "succeeded" /\ job[j].note = "none" => copies[j] > 0 /\ open[j] = {}
    BY DEF Inv, JobInv
  <2>2. ASSUME Cardinality(up) = 1, job[j].st = "failed" /\ job[j].copy PROVE job[j].tries >= MaxAttempts
    <3>1. PICK w \in Replicas : Lone(w)
      BY <2>2, OneUp DEF LoneInv
    <3> QED
      BY <2>2, <3>1 DEF Lone, LoneJob
  <2> QED
    BY <2>1, <2>2
<1> QED
  BY <1>1, InvHolds, LoneInvHolds, TypeCorrect, PTL
=============================================================================
