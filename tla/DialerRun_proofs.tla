-------------------------- MODULE DialerRun_proofs --------------------------
(* What DialerRun promises for every instance, proved.                     *)
EXTENDS DialerRun, FiniteSetTheorems, WellFoundedInduction, TLAPS

-----------------------------------------------------------------------------
(* Helpers of the specification.                                           *)

\* A non-empty set of numbers up to a bound has a greatest one.
LEMMA GreatestExists ==
  ASSUME NEW m \in Nat, NEW S, S \subseteq 0 .. m, S # {}
  PROVE  \E o \in S : \A x \in S : x <= o
<1> DEFINE T == {m - x : x \in S}
<1>1. \A x \in S : x \in Nat /\ x <= m /\ m - x \in Nat
  OBVIOUS
<1>2. T \subseteq Nat /\ T # {}
  BY <1>1
<1>3. PICK t \in T : \A u \in T : <<u, t>> \notin OpToRel(<, Nat)
  <2> HIDE DEF T
  <2> QED  BY <1>2, WFMin, NatLessThanWellFounded
<1>4. \A u \in T : ~(u < t)
  <2> HIDE DEF T
  <2> QED  BY <1>2, <1>3 DEF OpToRel
<1>5. PICK o \in S : t = m - o
  OBVIOUS
<1>6. ASSUME NEW x \in S PROVE x <= o
  <2>1. m - x \in T
    OBVIOUS
  <2>2. ~(m - x < m - o)
    BY <2>1, <1>4, <1>5
  <2> QED  BY <2>2, <1>1
<1> QED
  BY <1>6

\* LastOrdinal is the greatest ordinal on the queue.
LEMMA LastOrdinalIsLast ==
  ASSUME TypeQueue, NEW r \in Rows, r \in Present
  PROVE  \E q \in Present : LastOrdinal = row[q].ord
<1> DEFINE S == {row[q].ord : q \in Present}
<1>1. S \subseteq 0 .. MaxRows /\ S # {}
  BY SMTT(20) DEF TypeQueue, Row, Present
<1>2. PICK o \in S : \A x \in S : x <= o
  BY <1>1, GreatestExists, RunAssumption
<1>3. \E a \in S : \A q \in Present : row[q].ord <= a
  BY <1>2
<1>4. LastOrdinal \in S
  BY <1>3 DEF LastOrdinal
<1> QED
  BY <1>4

\* No row leaves the queue's table.
Kept == \A r \in Rows : st[r] # "absent" => st'[r] # "absent"

\* A worker that goes to a step it may take, with a row that is in the table,
\* keeps the workers' type.
LEMMA GotoType ==
  ASSUME TypeWorkers, Kept, NEW w \in Workers, NEW s \in Steps, NEW j \in Job,
         s \in RowSteps => j.row # 0, j.row # 0 => st'[j.row] # "absent",
         s = "amdHangUp" => j.amd # 0, Goto(w, s, j)
  PROVE  TypeWorkers'
<1>1. \A v \in Workers : job'[v] = IF v = w THEN j ELSE job[v]
  BY DEF TypeWorkers, Goto
<1>2. \A v \in Workers : pc'[v] = IF v = w THEN s ELSE pc[v]
  BY DEF TypeWorkers, Goto
<1>3. pc' \in [Workers -> Steps] /\ job' \in [Workers -> Job]
  BY DEF TypeWorkers, Goto
<1>4. \A v \in Workers : job[v].row # 0 => job[v].row \in Rows
  BY RunAssumption DEF TypeWorkers, Job, Rows
<1> QED
  BY <1>1, <1>2, <1>3, <1>4 DEF TypeWorkers, Kept

LEMMA NoJobType == NoJob \in Job
BY RunAssumption DEF NoJob, Job, Rows, Outcomes

LEMMA OnwardType ==
  ASSUME NEW j \in Job
  PROVE  Onward(j) \in Job /\ Onward(j).row = 0
<1>1. j.due \in SUBSET Rows /\ j.amd \in 0 .. MaxRows
  BY DEF Job
<1> QED
  BY <1>1, NoJobType DEF Onward, Job, NoJob

LEMMA FinishType ==
  ASSUME TypeWorkers, Kept, NEW w \in Workers, NEW j \in Job, Finish(w, j)
  PROVE  TypeWorkers'
<1>1. [NoJob EXCEPT !.amd = j.amd] \in Job
  BY NoJobType DEF Job, NoJob
<1>2. /\ [NoJob EXCEPT !.amd = j.amd].row = 0 /\ NoJob.row = 0
      /\ [NoJob EXCEPT !.amd = j.amd].amd = j.amd
  BY DEF NoJob
<1> QED
  BY <1>1, <1>2, NoJobType, GotoType DEF Finish, Steps, RowSteps

\* Hanging calls up keeps the phones' type.
LEMMA EndCallsType ==
  ASSUME TypePhones, NEW R, R \subseteq Rows, EndCalls(R), UNCHANGED dials
  PROVE  TypePhones'
BY DEF TypePhones, EndCalls, CallStatus, Outcomes

\* What an action leaves alone keeps its type.
LEMMA RunFrame ==
  ASSUME TypeRun, UNCHANGED <<runVars, bounds, rolled, due, lock>>
  PROVE  TypeRun'
BY DEF TypeRun, runVars, bounds

LEMMA QueueFrame ==
  ASSUME TypeQueue, TypeOrder, UNCHANGED <<queueVars, log>>
  PROVE  TypeQueue' /\ TypeOrder'
BY DEF TypeQueue, TypeOrder, queueVars

LEMMA PhonesFrame ==
  ASSUME TypePhones, UNCHANGED phoneVars
  PROVE  TypePhones'
BY DEF TypePhones, phoneVars

LEMMA WorkersFrame ==
  ASSUME TypeWorkers, Kept, UNCHANGED <<pc, job>>
  PROVE  TypeWorkers'
<1>1. \A v \in Workers : job[v].row # 0 => job[v].row \in Rows
  BY RunAssumption DEF TypeWorkers, Job, Rows
<1> QED
  BY <1>1 DEF TypeWorkers, Kept

\* What a worker carries, and how its fields may be replaced.
LEMMA JobType ==
  ASSUME TypeWorkers, NEW w \in Workers
  PROVE  /\ job[w] \in Job /\ pc[w] \in Steps
         /\ pc[w] \in RowSteps => job[w].row # 0
         /\ job[w].row # 0 => job[w].row \in Rows /\ st[job[w].row] # "absent"
         /\ pc[w] = "amdHangUp" => job[w].amd \in Rows
BY RunAssumption DEF TypeWorkers, Job, Rows

LEMMA JobFields ==
  ASSUME NEW j \in Job
  PROVE  /\ \A r \in 0 .. MaxRows : [j EXCEPT !.row = r] \in Job
         /\ \A P \in SUBSET Rows : [j EXCEPT !.pend = P] \in Job
         /\ \A D \in SUBSET Rows : [j EXCEPT !.due = D] \in Job
         /\ \A n \in Nat : [j EXCEPT !.refusals = n] \in Job
         /\ \A b \in BOOLEAN : /\ [j EXCEPT !.requeue = b] \in Job
                              /\ [j EXCEPT !.roll = b] \in Job
                              /\ [j EXCEPT !.sid = b] \in Job
         /\ \A r \in 0 .. MaxRows : [j EXCEPT !.amd = r] \in Job
         /\ \A o \in Outcomes : [j EXCEPT !.outcome = o] \in Job
BY DEF Job

-----------------------------------------------------------------------------
(* Type correctness, one lemma per group of actions.                       *)

LEMMA AdvanceReadsType ==
  ASSUME TypeOK, NEW w \in Workers,
         \/ ReadSession(w) \/ LoadQueue(w) \/ RunOut(w) \/ Reload(w) \/ AfterRefusal(w)
  PROVE  TypeOK'
<1>1. /\ job[w] \in Job /\ TypeWorkers /\ Kept /\ Pending \subseteq Rows
      /\ job[w].row # 0 => st'[job[w].row] # "absent"
  BY JobType DEF TypeOK, Kept, Pending, queueVars, ReadSession, LoadQueue, RunOut, Reload, AfterRefusal
<1>2. [job[w] EXCEPT !.pend = Pending] \in Job /\ [job[w] EXCEPT !.pend = Pending].row = job[w].row
  BY <1>1 DEF Job
<1>3. TypeWorkers'
  <2>1. CASE ReadSession(w)
    BY <1>1, <2>1, GotoType, FinishType DEF ReadSession, Steps, RowSteps
  <2>2. CASE LoadQueue(w)
    <3> DEFINE k == [job[w] EXCEPT !.pend = Pending]
    <3>1. Finish(w, job[w]) \/ Goto(w, "pick", k)
      BY <2>2, Zenon DEF LoadQueue
    <3>2. k \in Job /\ k.row = job[w].row
      BY <1>2
    <3> HIDE DEF k
    <3> QED
      BY <1>1, <3>1, <3>2, GotoType, FinishType DEF Steps, RowSteps
  <2>3. CASE RunOut(w)
    BY <1>1, <2>3, GotoType, FinishType DEF RunOut, Steps, RowSteps
  <2>4. CASE Reload(w)
    <3> DEFINE k == [job[w] EXCEPT !.pend = Pending]
    <3>1. Finish(w, job[w]) \/ Goto(w, "pick", k)
      BY <2>4, Zenon DEF Reload
    <3>2. k \in Job /\ k.row = job[w].row
      BY <1>2
    <3> HIDE DEF k
    <3> QED
      BY <1>1, <3>1, <3>2, GotoType, FinishType DEF Steps, RowSteps
  <2>5. CASE AfterRefusal(w)
    BY <1>1, <2>5, GotoType, FinishType DEF AfterRefusal, Steps, RowSteps
  <2> QED
    BY <2>1, <2>2, <2>3, <2>4, <2>5
<1>4. UNCHANGED <<queueVars, phoneVars, runVars, bounds, log, rolled, due, lock>>
  BY DEF ReadSession, LoadQueue, RunOut, Reload, AfterRefusal
<1> QED
  BY <1>3, <1>4, RunFrame, QueueFrame, PhonesFrame DEF TypeOK

LEMMA StatusWriteType ==
  ASSUME TypeOK, NEW w \in Workers,
         \/ SetDone(w) \/ NoNumbers(w) \/ SetPaused(w) \/ SetActive(w)
         \/ SetStopped(w) \/ CutIdle(w) \/ PauseToEnd(w)
  PROVE  TypeOK'
<1>1. /\ job[w] \in Job /\ Onward(job[w]) \in Job /\ Onward(job[w]).row = 0 /\ TypeWorkers
      /\ job[w].row # 0 => st[job[w].row] # "absent"
  BY JobType, OnwardType DEF TypeOK
<1>2. st' = st /\ Kept
  BY DEF Kept, queueVars, SetDone, NoNumbers, SetPaused, SetActive, SetStopped, CutIdle, PauseToEnd
<1>3. TypeWorkers'
  <2>1. CASE SetDone(w) \/ NoNumbers(w) \/ SetPaused(w)
    BY <1>1, <1>2, <2>1, FinishType DEF SetDone, NoNumbers, SetPaused
  <2>2. CASE SetActive(w)
    BY <1>1, <1>2, <2>2, GotoType DEF SetActive, Steps, RowSteps
  <2>3. CASE SetStopped(w)
    BY <1>1, <1>2, <2>3, GotoType, FinishType DEF SetStopped, Steps, RowSteps
  <2>4. CASE CutIdle(w)
    BY <1>1, <1>2, <2>4, GotoType, FinishType DEF CutIdle, Steps, RowSteps
  <2>5. CASE PauseToEnd(w)
    BY <1>1, <1>2, <2>5, GotoType, FinishType DEF PauseToEnd, Steps, RowSteps
  <2> QED
    BY <2>1, <2>2, <2>3, <2>4, <2>5
<1>4. TypeRun'
  <2>1. UNCHANGED <<passes, rolled, due, lock>>
    BY DEF SetDone, NoNumbers, SetPaused, SetActive, SetStopped, CutIdle, PauseToEnd
  <2>2. session' \in SessionStatus
    BY DEF TypeOK, TypeRun, SessionStatus, SetDone, NoNumbers, SetPaused, SetActive, SetStopped,
           CutIdle, PauseToEnd
  <2>3. presses' \in Nat /\ faults' \in Nat
    BY DEF TypeOK, TypeRun, bounds, Fault, SetDone, NoNumbers, SetPaused, SetActive, SetStopped,
           CutIdle, PauseToEnd
  <2> QED
    BY <2>1, <2>2, <2>3 DEF TypeOK, TypeRun
<1>5. UNCHANGED <<queueVars, phoneVars, log>>
  BY DEF SetDone, NoNumbers, SetPaused, SetActive, SetStopped, CutIdle, PauseToEnd
<1> QED
  BY <1>3, <1>4, <1>5, QueueFrame, PhonesFrame DEF TypeOK

\* A row's new status, outcome mark or both, and nothing inserted.
LEMMA SettleType ==
  ASSUME TypeOK, NEW w \in Workers,
         \/ GateSkip(w) \/ Claim(w) \/ OriginateRefused(w) \/ OriginateFailed(w)
         \/ SettleCurrent(w) \/ EndRow(w) \/ CutLate(w) \/ Connect(w)
  PROVE  TypeOK'
<1>1. /\ job[w] \in Job /\ Onward(job[w]) \in Job /\ Onward(job[w]).row = 0 /\ TypeWorkers
      /\ job[w].row # 0 => job[w].row \in Rows /\ st[job[w].row] # "absent"
      /\ pc[w] \in RowSteps => job[w].row # 0
  BY JobType, OnwardType DEF TypeOK
<1>2. NextItems(job[w]) \subseteq Rows /\ job[w].pend \subseteq Rows
  BY <1>1 DEF NextItems, Eligible, Job
<1>3. \/ st' = st
      \/ \E r \in Rows, s \in ItemStatus \ {"absent"} :
           st[r] # "absent" /\ st' = [st EXCEPT ![r] = s]
  <2>1. CASE GateSkip(w)
    BY <1>2, <2>1 DEF GateSkip, ItemStatus
  <2>2. CASE Claim(w)
    BY <1>2, <2>2 DEF Claim, Claimable, ItemStatus
  <2>3. CASE OriginateRefused(w)
    BY <1>1, <2>3 DEF OriginateRefused, RowSteps, ItemStatus
  <2>4. CASE OriginateFailed(w)
    BY <1>1, <2>4 DEF OriginateFailed, RolledBack, RowSteps, ItemStatus
  <2>5. CASE SettleCurrent(w)
    BY <1>1, <2>5 DEF SettleCurrent, RowSteps, ItemStatus
  <2>6. CASE EndRow(w)
    BY <1>1, <2>6 DEF EndRow, RowSteps, ItemStatus
  <2>7. CASE CutLate(w)
    BY <1>1, <2>7 DEF CutLate, RowSteps, ItemStatus
  <2>8. CASE Connect(w)
    BY <1>1, <2>8 DEF Connect, RowSteps, ItemStatus
  <2> QED
    BY <2>1, <2>2, <2>3, <2>4, <2>5, <2>6, <2>7, <2>8
<1>4. /\ st' \in [Rows -> ItemStatus] /\ Kept
      /\ \A r \in Rows : st'[r] = "absent" <=> st[r] = "absent"
      /\ job[w].row # 0 => st'[job[w].row] # "absent"
  BY <1>1, <1>3 DEF TypeOK, TypeQueue, Kept
<1>5. TypeWorkers'
  <2>1. CASE GateSkip(w)
    <3>1. \A r \in Rows : job[w].pend \ {r} \in SUBSET Rows
      BY <1>2
    <3>2. \A r \in Rows : [job[w] EXCEPT !.pend = @ \ {r}] \in Job
      BY <1>1, <3>1, JobFields, Zenon
    <3>3. \A r \in Rows : [job[w] EXCEPT !.pend = @ \ {r}].row = job[w].row
      BY <1>1 DEF Job
    <3>4. \/ \E r \in Rows : Goto(w, "pick", [job[w] EXCEPT !.pend = @ \ {r}])
          \/ Goto(w, "reload", job[w])
      BY <1>2, <2>1, Zenon DEF GateSkip
    <3>5. \A r \in Rows : Goto(w, "pick", [job[w] EXCEPT !.pend = @ \ {r}]) => TypeWorkers'
      <4> TAKE r \in Rows
      <4> DEFINE k == [job[w] EXCEPT !.pend = @ \ {r}]
      <4>1. k \in Job /\ k.row = job[w].row
        BY <3>2, <3>3
      <4> HIDE DEF k
      <4>2. Goto(w, "pick", k) => TypeWorkers'
        BY <1>1, <1>4, <4>1, GotoType DEF Steps, RowSteps
      <4> QED
        BY <4>2 DEF k
    <3>6. Goto(w, "reload", job[w]) => TypeWorkers'
      BY <1>1, <1>4, GotoType DEF Steps, RowSteps
    <3> QED
      BY <3>4, <3>5, <3>6
  <2>2. CASE Claim(w)
    <3>1. \A r \in Rows : r \in 0 .. MaxRows
      BY RunAssumption DEF Rows
    <3>2. \A r \in Rows : [job[w] EXCEPT !.row = r] \in Job
      BY <1>1, <3>1, JobFields, Zenon
    <3>3. \A r \in Rows : [job[w] EXCEPT !.row = r].row = r /\ r # 0
      BY <1>1, RunAssumption DEF Job, Rows
    <3>4. CASE \E r \in Rows : /\ Goto(w, "originate", [job[w] EXCEPT !.row = r])
                               /\ st'[r] # "absent"
      BY ZenonT(30), <1>1, <1>4, <3>2, <3>3, <3>4, GotoType DEF Steps, RowSteps
    <3>5. CASE Finish(w, job[w])
      BY <1>1, <1>4, <3>5, FinishType
    <3> QED
      BY <1>2, <2>2, <3>4, <3>5 DEF Claim, TypeOK, TypeQueue
  <2>3. CASE OriginateRefused(w)
    <3> DEFINE j == [job[w] EXCEPT !.row = 0, !.refusals = @ + 1]
    <3>1. j \in Job /\ j.row = 0
      <4>1. job[w].refusals + 1 \in Nat /\ 0 \in 0 .. MaxRows
        BY <1>1, RunAssumption DEF Job
      <4>2. [job[w] EXCEPT !.row = 0].refusals = job[w].refusals
        BY <1>1 DEF Job
      <4>3. j \in Job
        BY <1>1, <4>1, <4>2, JobFields, Zenon
      <4>4. j.row = 0
        BY <1>1 DEF Job
      <4> QED
        BY <4>3, <4>4
    <3>2. \A r \in Rows : j.pend \ {r} \in SUBSET Rows
      BY <3>1 DEF Job
    <3>3. \A r \in Rows : [j EXCEPT !.pend = @ \ {r}] \in Job
      BY <3>1, <3>2, JobFields, Zenon
    <3>4. \/ Goto(w, "refused", [j EXCEPT !.pend = @ \ {job[w].row}])
          \/ Goto(w, "refusedLost", j)
      BY <2>3, Zenon DEF OriginateRefused
    <3>5. job[w].row \in Rows
      BY <1>1, <2>3 DEF OriginateRefused, RowSteps
    <3> HIDE DEF j
    <3>6. \A r \in Rows : [j EXCEPT !.pend = @ \ {r}].row = 0
      BY <3>1 DEF Job
    <3> DEFINE k == [j EXCEPT !.pend = @ \ {job[w].row}]
    <3>7. (k \in Job /\ k.row = 0) /\ (Goto(w, "refused", k) \/ Goto(w, "refusedLost", j))
      BY <3>3, <3>4, <3>5, <3>6
    <3> HIDE DEF k
    <3> QED
      BY <1>1, <1>4, <3>1, <3>7, GotoType DEF Steps, RowSteps
  <2>4. CASE OriginateFailed(w)
    BY <1>1, <1>4, <2>4, FinishType DEF OriginateFailed
  <2>5. CASE SettleCurrent(w)
    BY <1>1, <1>4, <2>5, GotoType DEF SettleCurrent, Steps, RowSteps
  <2>6. CASE EndRow(w)
    BY <1>1, <1>4, <2>6, GotoType, FinishType DEF EndRow, Steps, RowSteps
  <2>7. CASE CutLate(w)
    BY <1>1, <1>4, <2>7, GotoType, FinishType DEF CutLate, Steps, RowSteps
  <2>8. CASE Connect(w)
    BY <1>1, <1>4, <2>8, GotoType DEF Connect, Steps, RowSteps
  <2> QED
    BY <2>1, <2>2, <2>3, <2>4, <2>5, <2>6, <2>7, <2>8
<1>6. TypeRun'
  <2>1. UNCHANGED <<runVars, rolled, due, lock>>
    BY DEF GateSkip, Claim, OriginateRefused, OriginateFailed, SettleCurrent, EndRow, CutLate, Connect
  <2>2. presses' \in Nat /\ faults' \in Nat
    BY DEF TypeOK, TypeRun, bounds, Fault, GateSkip, Claim, OriginateRefused, OriginateFailed, SettleCurrent, EndRow, CutLate, Connect
  <2> QED
    BY <2>1, <2>2 DEF TypeOK, TypeRun, runVars
<1>7. UNCHANGED phoneVars
  BY DEF GateSkip, Claim, OriginateRefused, OriginateFailed, SettleCurrent, EndRow, CutLate, Connect
<1>8. TypeQueue' /\ TypeOrder'
  <2>1. UNCHANGED <<row, sid, ended>>
    BY DEF GateSkip, Claim, OriginateRefused, OriginateFailed, SettleCurrent, EndRow, CutLate, Connect
  <2>2. canceled' \in [Rows -> BOOLEAN]
    BY DEF TypeOK, TypeQueue, GateSkip, Claim, OriginateRefused, OriginateFailed, SettleCurrent, EndRow, CutLate, Connect
  <2>3. log' \in [Rows -> {"none", "dialed", "connected"}]
    BY DEF TypeOK, TypeQueue, GateSkip, Claim, OriginateRefused, OriginateFailed, SettleCurrent, EndRow, CutLate, Connect
  <2> QED
    BY <1>4, <2>1, <2>2, <2>3 DEF TypeOK, TypeQueue, TypeOrder
<1> QED
  BY <1>5, <1>6, <1>7, <1>8, PhonesFrame DEF TypeOK

\* A worker's row, alone in a fresh job.
LEMMA RowJobType ==
  ASSUME NEW r \in 0 .. MaxRows, NEW a \in 0 .. MaxRows, NEW b \in BOOLEAN
  PROVE  /\ [NoJob EXCEPT !.row = r, !.sid = b] \in Job
         /\ [NoJob EXCEPT !.row = r, !.sid = b].row = r
         /\ [NoJob EXCEPT !.row = r] \in Job
         /\ [NoJob EXCEPT !.row = r].row = r
         /\ [NoJob EXCEPT !.row = r, !.amd = a] \in Job
         /\ [NoJob EXCEPT !.row = r, !.amd = a].row = r
<1>1. [NoJob EXCEPT !.row = r] \in Job
  BY NoJobType, JobFields, Zenon
<1>2. [NoJob EXCEPT !.row = r, !.sid = b] \in Job
  BY <1>1, JobFields, Zenon
<1>3. [NoJob EXCEPT !.row = r, !.amd = a] \in Job
  BY <1>1, JobFields, Zenon
<1>4. /\ [NoJob EXCEPT !.row = r, !.sid = b].row = r
      /\ [NoJob EXCEPT !.row = r].row = r
      /\ [NoJob EXCEPT !.row = r, !.amd = a].row = r
  BY DEF NoJob
<1> QED
  BY <1>1, <1>2, <1>3, <1>4

LEMMA HangUpsType ==
  ASSUME TypeOK, NEW w \in Workers,
         \/ ReleaseAtEnd(w) \/ ReleaseAtStop(w) \/ HangUp(w) \/ AmdHangUp(w)
  PROVE  TypeOK'
<1>1. /\ job[w] \in Job /\ Onward(job[w]) \in Job /\ Onward(job[w]).row = 0 /\ TypeWorkers
      /\ pc[w] \in RowSteps => job[w].row # 0
      /\ job[w].row # 0 => job[w].row \in Rows /\ st[job[w].row] # "absent"
  BY JobType, OnwardType DEF TypeOK
<1>2. UNCHANGED <<queueVars, runVars, bounds, log, rolled, due, lock, dials>>
  BY DEF ReleaseAtEnd, ReleaseAtStop, HangUp, AmdHangUp
<1>3. Kept /\ st' = st
  BY <1>2 DEF Kept, queueVars
<1>4. TypeWorkers'
  <2>1. CASE ReleaseAtEnd(w)
    BY <1>1, <1>3, <2>1, GotoType DEF ReleaseAtEnd, Steps, RowSteps
  <2>2. CASE ReleaseAtStop(w)
    BY <1>1, <1>3, <2>2, GotoType DEF ReleaseAtStop, Steps, RowSteps
  <2>3. CASE HangUp(w)
    BY <1>1, <1>3, <2>3, GotoType, FinishType DEF HangUp, Steps, RowSteps
  <2>4. CASE AmdHangUp(w)
    BY <1>1, <1>3, <2>4, GotoType, NoJobType DEF AmdHangUp, Steps, RowSteps, NoJob
  <2> QED
    BY <2>1, <2>2, <2>3, <2>4
<1>5. TypePhones'
  <2>1. \/ EndCalls(InRoom)
        \/ job[w].row \in Rows /\ EndCalls({job[w].row})
        \/ job[w].amd \in Rows /\ EndCalls({job[w].amd})
    BY <1>1, JobType DEF TypeOK, ReleaseAtEnd, ReleaseAtStop, HangUp, AmdHangUp, RowSteps
  <2>2. InRoom \subseteq Rows
    BY DEF InRoom
  <2> QED
    BY <1>2, <2>1, <2>2, EndCallsType DEF TypeOK
<1> QED
  BY <1>2, <1>4, <1>5, RunFrame, QueueFrame DEF TypeOK

LEMMA CallsType ==
  ASSUME TypeOK, NEW w \in Workers, Originate(w) \/ Stamp(w) \/ Bridge(w)
  PROVE  TypeOK'
<1>1. /\ job[w] \in Job /\ TypeWorkers
      /\ job[w].row # 0 /\ job[w].row \in Rows /\ st[job[w].row] # "absent"
  BY JobType DEF TypeOK, Originate, Stamp, Bridge, RowSteps
<1>2. UNCHANGED <<runVars, bounds, rolled, due, lock, st, row, ended, canceled>>
  BY DEF Originate, Stamp, Bridge, queueVars
<1>3. Kept /\ st' = st
  BY <1>2 DEF Kept
<1>4. TypeWorkers'
  <2>1. CASE Originate(w)
    <3> DEFINE k == [NoJob EXCEPT !.row = job[w].row, !.amd = job[w].amd]
    <3>1. Goto(w, "stamp", k)
      BY <2>1, Zenon DEF Originate
    <3>2. job[w].row \in 0 .. MaxRows /\ job[w].amd \in 0 .. MaxRows
      BY <1>1 DEF Job
    <3>3. k \in Job /\ k.row = job[w].row
      BY <3>2, RowJobType, Zenon
    <3> HIDE DEF k
    <3> QED
      BY <1>1, <1>3, <3>1, <3>3, GotoType DEF Steps, RowSteps
  <2>2. CASE Stamp(w)
    BY <1>1, <1>3, <2>2, GotoType, FinishType DEF Stamp, Steps, RowSteps
  <2>3. CASE Bridge(w)
    BY <1>1, <1>3, <2>3, FinishType DEF Bridge
  <2> QED
    BY <2>1, <2>2, <2>3
<1>5. TypePhones'
  <2>1. CASE Originate(w)
    <3>1. /\ call' = [call EXCEPT ![job[w].row] = "ringing"]
          /\ dials' = [dials EXCEPT ![job[w].row] = @ + 1]
          /\ msgs' = msgs
      BY <2>1, Zenon DEF Originate
    <3>2. PICK r \in Rows : r = job[w].row
      BY <1>1
    <3>3. call' \in [Rows -> CallStatus]
      BY <3>1, <3>2 DEF TypeOK, TypePhones, CallStatus
    <3>4. dials' \in [Rows -> Nat]
      BY <3>1, <3>2 DEF TypeOK, TypePhones
    <3> QED
      BY <3>1, <3>3, <3>4 DEF TypeOK, TypePhones
  <2>2. CASE Stamp(w)
    BY <2>2, PhonesFrame DEF Stamp, TypeOK
  <2>3. CASE Bridge(w)
    BY <2>3 DEF Bridge, TypeOK, TypePhones, CallStatus
  <2> QED
    BY <2>1, <2>2, <2>3
<1>6. TypeQueue' /\ TypeOrder'
  <2>1. CASE Originate(w) \/ Bridge(w)
    BY <2>1, QueueFrame DEF Originate, Bridge, TypeOK
  <2>2. CASE Stamp(w)
    <3>1. sid' \in [Rows -> BOOLEAN]
      BY <2>2, Zenon DEF Stamp, Stamped, TypeOK, TypeQueue
    <3>2. log' \in [Rows -> {"none", "dialed", "connected"}]
      BY <2>2 DEF Stamp, TypeOK, TypeQueue
    <3> QED
      BY <1>2, <3>1, <3>2 DEF TypeOK, TypeQueue, TypeOrder
  <2> QED
    BY <2>1, <2>2
<1> QED
  BY <1>2, <1>4, <1>5, <1>6, RunFrame DEF TypeOK

\* A handler that begins with a row it read keeps the workers' type.
LEMMA BeginType ==
  ASSUME TypeOK, Kept, NEW w \in Workers, NEW s \in Steps, NEW j \in Job,
         s \in RowSteps => j.row # 0, j.row # 0 => st'[j.row] # "absent",
         s # "amdHangUp", Begin(w, s, j)
  PROVE  TypeWorkers'
<1> DEFINE k == [j EXCEPT !.due = due]
<1>1. Goto(w, s, k)
  BY DEF Begin
<1>2. due \in SUBSET Rows
  BY DEF TypeOK, TypeRun
<1>3. k \in Job /\ k.row = j.row
  <2>1. k \in Job
    BY <1>2, JobFields, Zenon
  <2> QED
    BY <2>1 DEF Job
<1> HIDE DEF k
<1> QED
  BY <1>1, <1>3, GotoType DEF TypeOK

LEMMA PressType ==
  ASSUME TypeOK, NEW w \in Workers,
         \/ StartAgain(w) \/ Pause(w) \/ Resume(w) \/ Skip(w) \/ RepNext(w) \/ Stop(w)
         \/ IdleCheck(w) \/ EndCall(w) \/ Redial(w) \/ TakeCallback(w) \/ Nudge(w)
  PROVE  TypeOK'
<1>1. UNCHANGED <<queueVars, phoneVars, runVars, log, rolled, due>>
  BY DEF StartAgain, Pause, Resume, Skip, RepNext, Stop, IdleCheck, EndCall, Redial, TakeCallback, Nudge
<1>2. Kept /\ st' = st
  BY <1>1 DEF Kept, queueVars
<1>3. /\ NoJob \in Job /\ NoJob.row = 0
      /\ \A r \in InFlight, b \in BOOLEAN :
           /\ [NoJob EXCEPT !.row = r] \in Job /\ [NoJob EXCEPT !.row = r].row = r
           /\ [NoJob EXCEPT !.row = r, !.sid = b] \in Job
           /\ [NoJob EXCEPT !.row = r, !.sid = b].row = r
           /\ r # 0 /\ st[r] # "absent" /\ sid[r] \in BOOLEAN
  <2>1. \A r \in InFlight : /\ r \in 0 .. MaxRows /\ r # 0 /\ st[r] # "absent"
                             /\ 0 \in 0 .. MaxRows /\ sid[r] \in BOOLEAN
    BY RunAssumption DEF InFlight, Rows, TypeOK, TypeQueue
  <2>2. NoJob.row = 0
    BY DEF NoJob
  <2> QED
    BY <2>1, <2>2, RowJobType, NoJobType, Zenon
<1> DEFINE Read(j) == /\ j \in Job
                      /\ j.row # 0 => st[j.row] # "absent"
<1>4. /\ Read(NoJob)
      /\ \A r \in InFlight : Read([NoJob EXCEPT !.row = r])
      /\ \A r \in InFlight : Read([NoJob EXCEPT !.row = r, !.sid = sid[r]])
      /\ \A r \in InFlight : /\ [NoJob EXCEPT !.row = r].row # 0
                              /\ [NoJob EXCEPT !.row = r, !.sid = sid[r]].row # 0
  BY <1>3, Zenon
<1> HIDE DEF Read
<1> DEFINE Q == {"advance", "setPaused", "setActive", "releaseAtStop", "setStopped", "cutIdle",
                 "pauseToEnd", "takeCallback"}
<1>5. \/ \E s \in Q : \E j : Read(j) /\ Begin(w, s, j)
      \/ \E s \in {"setSkipped", "setDoneRow", "redial"} : \E j : Read(j) /\ j.row # 0 /\ Begin(w, s, j)
  <2>1. CASE StartAgain(w) \/ Pause(w) \/ Resume(w) \/ IdleCheck(w) \/ Nudge(w)
    BY <1>4, <2>1 DEF StartAgain, Pause, Resume, IdleCheck, Nudge
  <2>2. CASE Skip(w)
    BY <1>4, <2>2, Zenon DEF Skip
  <2>3. CASE RepNext(w)
    BY <1>4, <2>3, Zenon DEF RepNext
  <2>4. CASE Stop(w)
    BY <1>4, <2>4, Zenon DEF Stop
  <2>5. CASE EndCall(w)
    BY <1>4, <2>5, Zenon DEF EndCall
  <2>6. CASE Redial(w)
    BY <1>4, <2>6, Zenon DEF Redial
  <2>7. CASE TakeCallback(w)
    BY <1>4, <2>7, Zenon DEF TakeCallback
  <2> QED
    BY <2>1, <2>2, <2>3, <2>4, <2>5, <2>6, <2>7
<1>6. TypeWorkers'
  <2>1. ASSUME NEW s \in Q, NEW j, Read(j), Begin(w, s, j)
        PROVE  TypeWorkers'
    BY <1>2, <2>1, BeginType DEF Read, Steps, RowSteps
  <2>2. ASSUME NEW s \in {"setSkipped", "setDoneRow", "redial"}, NEW j, Read(j), j.row # 0, Begin(w, s, j)
        PROVE  TypeWorkers'
    BY <1>2, <2>2, BeginType DEF Read, Steps
  <2> QED
    BY <1>5, <2>1, <2>2
<1>7. TypeRun'
  <2>1. lock' = lock \/ lock' = {w}
    BY DEF StartAgain, Pause, Resume, Skip, RepNext, Stop, IdleCheck, EndCall, Redial, TakeCallback, Nudge
  <2>2. (UNCHANGED bounds) \/ \E op : Press(op)
    BY Zenon DEF StartAgain, Pause, Resume, Skip, RepNext, Stop, IdleCheck, EndCall, Redial,
                 TakeCallback, Nudge
  <2>3. presses' \in Nat /\ faults' \in Nat
    BY <2>2 DEF TypeOK, TypeRun, Press, bounds
  <2> QED
    BY <1>1, <2>1, <2>3 DEF TypeOK, TypeRun, runVars
<1> QED
  BY <1>1, <1>6, <1>7, QueueFrame, PhonesFrame DEF TypeOK

LEMMA StartType ==
  ASSUME TypeOK, NEW w \in Workers, Start(w)
  PROVE  TypeOK'
<1>1. PICK T \in SUBSET Rows :
        /\ \A r \in T : st[r] # "absent"
        /\ st' = [r \in Rows |-> IF r \in T THEN "trimmed" ELSE st[r]]
  <2>1. PICK size \in Sizes :
          st' = [r \in Rows |-> IF st[r] # "absent" /\ \E k \in LastKept(size) : row[r].ord > row[k].ord
                                THEN "trimmed" ELSE st[r]]
    BY DEF Start
  <2> DEFINE T == {r \in Rows : st[r] # "absent" /\ \E k \in LastKept(size) : row[r].ord > row[k].ord}
  <2>2. st' = [r \in Rows |-> IF r \in T THEN "trimmed" ELSE st[r]]
    BY <2>1, Zenon
  <2> QED
    BY <2>2, Zenon
<1>2. Kept /\ \A r \in Rows : st'[r] = "absent" <=> st[r] = "absent"
  BY <1>1 DEF Kept
<1>3. TypeWorkers'
  BY <1>2, BeginType, NoJobType DEF Start, Steps, RowSteps, NoJob
<1>4. TypeRun'
  BY RunAssumption DEF Start, TypeOK, TypeRun, SessionStatus, bounds
<1>5. TypeQueue' /\ TypeOrder'
  <2>1. st' \in [Rows -> ItemStatus]
    BY <1>1 DEF TypeOK, TypeQueue, ItemStatus
  <2>2. UNCHANGED <<row, sid, ended, canceled, log>>
    BY DEF Start
  <2> QED
    BY <1>2, <2>1, <2>2 DEF TypeOK, TypeQueue, TypeOrder
<1> QED
  BY <1>3, <1>4, <1>5, PhonesFrame DEF Start, TypeOK

\* A copy of a settled row, inserted in its order.
LEMMA InsertType ==
  ASSUME TypeQueue, TypeOrder, NEW q \in Rows, NEW r \in Rows, NEW c,
         NEW s \in ItemStatus \ {"absent"}, st[r] # "absent", Insert(q, c),
         c \in Row, c.ord <= q, st' = [st EXCEPT ![r] = s, ![q] = "pending"]
  PROVE  /\ st' \in [Rows -> ItemStatus] /\ row' \in [Rows -> Row]
         /\ TypeOrder' /\ Kept /\ r < q
<1>1. /\ st[q] = "absent" /\ \A p \in Rows : p < q => st[p] # "absent"
      /\ row' = [row EXCEPT ![q] = c]
  BY DEF Insert, FreshRow
<1>2. r # q
  BY <1>1
<1>3. \A p \in Rows : st'[p] = "absent" <=> st[p] = "absent" /\ p # q
  <2>1. \A p \in Rows : st'[p] = IF p = q THEN "pending" ELSE IF p = r THEN s ELSE st[p]
    BY <1>2 DEF TypeQueue
  <2>2. s # "absent"
    OBVIOUS
  <2>3. "pending" # "absent"
    OBVIOUS
  <2> QED
    BY <1>2, <2>1, <2>2, <2>3, Zenon
<1>4. \A p \in Rows : row'[p] = IF p = q THEN c ELSE row[p]
  BY <1>1 DEF TypeQueue
<1>5. st' \in [Rows -> ItemStatus] /\ row' \in [Rows -> Row]
  BY <1>1 DEF TypeQueue, ItemStatus
<1>6. \A p \in Rows : st[p] # "absent" => p < q
  BY <1>1 DEF TypeOrder, Rows
<1>7. \A p \in Rows : row'[p].ord <= p
  BY <1>4 DEF TypeOrder
<1>8. \A p, o \in Rows : p < o /\ st'[p] = "absent" => st'[o] = "absent"
  <2> SUFFICES ASSUME NEW p \in Rows, NEW o \in Rows, p < o, st'[p] = "absent"
               PROVE  st'[o] = "absent"
    OBVIOUS
  <2>1. st[p] = "absent" /\ p # q
    BY <1>3
  <2>2. st[o] = "absent"
    BY <2>1 DEF TypeOrder
  <2>3. q < p
    BY <2>1, <1>1 DEF Rows
  <2>4. o # q
    BY <2>3, RunAssumption DEF Rows
  <2> QED
    BY <2>2, <2>4, <1>3, Zenon
<1>9. Kept
  BY <1>3 DEF Kept
<1> QED
  BY <1>5, <1>6, <1>7, <1>8, <1>9 DEF TypeOrder

\* Every copy the code inserts is a row, at an ordinal the order allows.
LEMMA CopyType ==
  ASSUME TypeQueue, TypeOrder, NEW r \in Rows, NEW q \in Rows, FreshRow(q), st[r] # "absent"
  PROVE  /\ RedialCopy(r) \in Row /\ RedialCopy(r).ord <= q
         /\ CallbackCopy(r) \in Row /\ CallbackCopy(r).ord <= q
         /\ r \in Present => RetryCopy(r) \in Row /\ RetryCopy(r).ord <= q
<1>1. \A p \in Rows : st[p] # "absent" => p < q
  BY DEF TypeOrder, FreshRow, Rows
<1>2. row[r] \in Row /\ row[r].ord <= q /\ row[r].ord \in 0 .. MaxRows
  BY <1>1, RunAssumption DEF TypeQueue, TypeOrder, Row, Rows
<1>3. ASSUME r \in Present
      PROVE  LastOrdinal + 1 \in 0 .. MaxRows /\ LastOrdinal + 1 <= q
  <2>1. PICK p \in Present : LastOrdinal = row[p].ord
    BY <1>3, LastOrdinalIsLast
  <2>2. p \in Rows /\ p < q
    BY <1>1 DEF Present
  <2>3. row[p].ord \in 0 .. MaxRows /\ row[p].ord <= p
    BY <2>2 DEF TypeQueue, TypeOrder, Row
  <2> QED
    BY <2>1, <2>2, <2>3, RunAssumption DEF Rows
<1>4. \A c \in Row, b \in BOOLEAN :
        [c EXCEPT !.floor = b] \in Row /\ [c EXCEPT !.floor = b].ord = c.ord
  BY DEF Row
<1>5. RedialCopy(r) \in Row /\ RedialCopy(r).ord = row[r].ord
  <2> DEFINE d == [row[r] EXCEPT !.redial = TRUE]
  <2>1. d \in Row /\ d.ord = row[r].ord
    BY <1>2 DEF Row
  <2> HIDE DEF d
  <2>2. [d EXCEPT !.floor = FALSE] \in Row /\ [d EXCEPT !.floor = FALSE].ord = d.ord
    BY <1>4, <2>1, Zenon
  <2> QED
    BY <2>1, <2>2, Zenon DEF d, RedialCopy
<1>6. CallbackCopy(r) \in Row /\ CallbackCopy(r).ord = row[r].ord
  BY <1>2, <1>4, Zenon DEF CallbackCopy
<1>7. ASSUME r \in Present
      PROVE  RetryCopy(r) \in Row /\ RetryCopy(r).ord = LastOrdinal + 1
  <2>1. LastOrdinal + 1 \in 0 .. MaxRows
    BY <1>3, <1>7
  <2> DEFINE d == [row[r] EXCEPT !.ord = LastOrdinal + 1]
             e == [d EXCEPT !.attempt = 2]
  <2>2. d \in Row /\ d.ord = LastOrdinal + 1
    BY <1>2, <2>1 DEF Row
  <2>3. e \in Row /\ e.ord = d.ord
    <3> HIDE DEF d
    <3> QED
      BY <2>2 DEF Row
  <2> HIDE DEF e
  <2>4. [e EXCEPT !.floor = TRUE] \in Row /\ [e EXCEPT !.floor = TRUE].ord = e.ord
    BY <1>4, <2>3, Zenon
  <2> QED
    BY <2>2, <2>3, <2>4, Zenon DEF d, e, RetryCopy
<1> QED
  BY <1>2, <1>3, <1>5, <1>6, <1>7

\* What the transactions that close a row, and may queue its person again, write.
Closed == {"no_connect", "done", "skipped"}
Requeues(r) ==
  \/ st' = st /\ row' = row
  \/ \E s \in Closed :
       r \in Rows /\ st[r] = "dialing" /\ st' = [st EXCEPT ![r] = s] /\ row' = row
  \/ \E q \in Rows, s \in Closed :
       /\ r \in Rows /\ st[r] \in {"dialing", "connected"}
       /\ Insert(q, RedialCopy(r)) \/ Insert(q, CallbackCopy(r)) \/ (r \in Present /\ Insert(q, RetryCopy(r)))
       /\ st' = [st EXCEPT ![r] = s, ![q] = "pending"]

LEMMA RequeueTxWrites ==
  ASSUME TypeOK, NEW w \in Workers, RedialTx(w) \/ TakeCallbackTx(w) \/ Miss(w)
  PROVE  Requeues(job[w].row)
<1> DEFINE r == job[w].row
<1>1. /\ r # 0 => r \in Rows /\ st[r] # "absent"
      /\ pc[w] \in RowSteps => r # 0
      /\ "no_connect" \in Closed /\ "done" \in Closed /\ "skipped" \in Closed
      /\ "dialing" \in {"dialing", "connected"} /\ "connected" \in {"dialing", "connected"}
  BY JobType DEF TypeOK, Closed
<1>2. CASE RedialTx(w)
  <2>1. r \in Rows
    BY <1>1, <1>2 DEF RedialTx, RowSteps
  <2> QED
    BY <1>1, <1>2, <2>1, Zenon DEF RedialTx, Requeues
<1>3. CASE TakeCallbackTx(w)
  BY <1>1, <1>3, Zenon DEF TakeCallbackTx, Requeues
<1>4. CASE Miss(w)
  <2>1. r \in Rows /\ (st[r] = "dialing" => r \in Present)
    BY <1>1, <1>4 DEF Miss, RowSteps, Present
  <2> QED
    BY <1>1, <1>4, <2>1, Zenon DEF Miss, Requeues
<1> QED
  BY <1>2, <1>3, <1>4

LEMMA RequeueTxType ==
  ASSUME TypeOK, NEW w \in Workers, RedialTx(w) \/ TakeCallbackTx(w) \/ Miss(w)
  PROVE  TypeOK'
<1> DEFINE r == job[w].row
<1>1. /\ job[w] \in Job /\ Onward(job[w]) \in Job /\ Onward(job[w]).row = 0 /\ TypeWorkers
      /\ r # 0 => r \in Rows /\ st[r] # "absent"
      /\ pc[w] \in RowSteps => r # 0
  BY JobType, OnwardType DEF TypeOK
<1>2. Requeues(r) /\ Closed \subseteq ItemStatus \ {"absent"}
  BY RequeueTxWrites DEF Closed, ItemStatus
<1>3. /\ st' \in [Rows -> ItemStatus] /\ row' \in [Rows -> Row] /\ TypeOrder' /\ Kept
  <2>1. CASE st' = st /\ row' = row
    BY <2>1 DEF TypeOK, TypeQueue, TypeOrder, Kept
  <2>2. ASSUME NEW s \in Closed, r \in Rows, st[r] = "dialing", st' = [st EXCEPT ![r] = s], row' = row
        PROVE  st' \in [Rows -> ItemStatus] /\ row' \in [Rows -> Row] /\ TypeOrder' /\ Kept
    <3>1. PICK p \in Rows : p = r
      BY <2>2
    <3>2. st' \in [Rows -> ItemStatus] /\ \A q \in Rows : st'[q] = "absent" <=> st[q] = "absent"
      BY <1>2, <2>2, <3>1 DEF TypeOK, TypeQueue
    <3> QED
      BY <2>2, <3>2 DEF TypeOK, TypeQueue, TypeOrder, Kept
  <2>3. ASSUME NEW q \in Rows, NEW s \in Closed, r \in Rows, st[r] \in {"dialing", "connected"},
               \/ Insert(q, RedialCopy(r)) \/ Insert(q, CallbackCopy(r))
               \/ (r \in Present /\ Insert(q, RetryCopy(r))),
               st' = [st EXCEPT ![r] = s, ![q] = "pending"]
        PROVE  st' \in [Rows -> ItemStatus] /\ row' \in [Rows -> Row] /\ TypeOrder' /\ Kept
    <3>1. FreshRow(q) /\ st[r] # "absent" /\ s \in ItemStatus \ {"absent"}
      BY <1>2, <2>3 DEF Insert
    <3>2. /\ RedialCopy(r) \in Row /\ RedialCopy(r).ord <= q
          /\ CallbackCopy(r) \in Row /\ CallbackCopy(r).ord <= q
          /\ r \in Present => RetryCopy(r) \in Row /\ RetryCopy(r).ord <= q
      BY <2>3, <3>1, CopyType, Zenon DEF TypeOK
    <3>3. PICK c : c \in Row /\ c.ord <= q /\ Insert(q, c)
      BY <2>3, <3>2, Zenon
    <3> QED
      BY <2>3, <3>1, <3>3, InsertType, Zenon DEF TypeOK
  <2> QED
    BY <1>2, <2>1, <2>2, <2>3, Zenon DEF Requeues
<1>4. TypeQueue'
  <2>1. UNCHANGED <<sid, ended, log>>
    BY DEF RedialTx, TakeCallbackTx, Miss
  <2>2. canceled' \in [Rows -> BOOLEAN]
    <3>1. canceled' = canceled \/ \E a, b : b \in BOOLEAN /\ canceled' = [canceled EXCEPT ![a] = b]
      BY Zenon DEF RedialTx, TakeCallbackTx, Miss
    <3> QED
      BY <3>1, Zenon DEF TypeOK, TypeQueue
  <2> QED
    BY <1>3, <2>1, <2>2 DEF TypeOK, TypeQueue
<1>5. TypeRun'
  <2>1. UNCHANGED <<passes, due>> /\ UNCHANGED bounds
    BY DEF RedialTx, TakeCallbackTx, Miss, runVars
  <2>2. session' \in SessionStatus /\ lock' \subseteq Workers
    <3>1. session' = session \/ session' = "paused"
      BY Zenon DEF RedialTx, TakeCallbackTx, Miss, runVars
    <3>2. lock' = lock \/ lock' = {}
      BY DEF RedialTx, TakeCallbackTx, Miss
    <3> QED
      BY <3>1, <3>2 DEF TypeOK, TypeRun, SessionStatus
  <2>3. rolled' \subseteq 0 .. N
    <3>1. CASE Miss(w)
      <4>1. row[r].person \in 0 .. N
        BY <1>1, <3>1 DEF Miss, RowSteps, TypeOK, TypeQueue, Row
      <4>2. rolled' = rolled \/ rolled' = rolled \cup {row[r].person}
        BY <3>1, Zenon DEF Miss
      <4> QED
        BY <4>1, <4>2 DEF TypeOK, TypeRun
    <3> QED
      BY <3>1 DEF RedialTx, TakeCallbackTx, TypeOK, TypeRun
  <2> QED
    BY <2>1, <2>2, <2>3 DEF TypeOK, TypeRun, bounds
<1>6. TypeWorkers'
  <2>1. r # 0 => st'[r] # "absent"
    BY <1>1, <1>3 DEF Kept
  <2>2. CASE RedialTx(w)
    BY <1>1, <1>3, <2>1, <2>2, GotoType DEF RedialTx, Steps, RowSteps
  <2>3. CASE TakeCallbackTx(w)
    <3>1. Finish(w, job[w]) \/ (r # 0 /\ Goto(w, "hangUp", job[w]))
      BY <2>3, Zenon DEF TakeCallbackTx
    <3> QED
      BY <1>1, <1>3, <2>1, <3>1, GotoType, FinishType DEF Steps, RowSteps
  <2>4. CASE Miss(w)
    <3>1. Finish(w, job[w]) \/ Goto(w, "advance", Onward(job[w]))
      BY <2>4, Zenon DEF Miss, AfterMiss
    <3> QED
      BY <1>1, <1>3, <3>1, GotoType, FinishType DEF Steps, RowSteps
  <2> QED
    BY <2>2, <2>3, <2>4
<1>7. UNCHANGED phoneVars
  BY DEF RedialTx, TakeCallbackTx, Miss
<1> QED
  BY <1>3, <1>4, <1>5, <1>6, <1>7, PhonesFrame DEF TypeOK

\* Handlers that read the database, or stamp the prospect's end.
LEMMA ReadsType ==
  ASSUME TypeOK, NEW w \in Workers,
         \/ FindDial(w) \/ StampEnded(w) \/ ReadRun(w) \/ LostConnect(w) \/ ReadHistory(w)
  PROVE  TypeOK'
<1> DEFINE r == job[w].row
<1>1. /\ job[w] \in Job /\ TypeWorkers
      /\ r # 0 => r \in Rows /\ st[r] # "absent"
      /\ pc[w] \in RowSteps => r # 0
  BY JobType DEF TypeOK
<1>2. /\ UNCHANGED <<phoneVars, runVars, log, rolled, due, lock, st, row, sid, canceled>>
  BY DEF FindDial, StampEnded, ReadRun, LostConnect, ReadHistory, queueVars
<1>3. Kept /\ st' = st
  BY <1>2 DEF Kept
<1>4. TypeWorkers'
  <2>1. CASE FindDial(w)
    <3>1. \/ \E q \in InFlight : Goto(w, "hangUp", [job[w] EXCEPT !.row = q])
          \/ Finish(w, job[w])
      BY <2>1, Zenon DEF FindDial
    <3>2. ASSUME NEW q \in InFlight, Goto(w, "hangUp", [job[w] EXCEPT !.row = q])
          PROVE  TypeWorkers'
      <4> DEFINE k == [job[w] EXCEPT !.row = q]
      <4>1. q \in 0 .. MaxRows /\ q # 0 /\ st[q] # "absent"
        BY RunAssumption DEF InFlight, Rows
      <4>2. k \in Job /\ k.row = q /\ Goto(w, "hangUp", k)
        BY <1>1, <3>2, <4>1 DEF Job
      <4> HIDE DEF k
      <4> QED
        BY <1>1, <1>3, <4>1, <4>2, GotoType DEF Steps, RowSteps
    <3> QED
      BY <1>1, <1>3, <3>1, <3>2, FinishType
  <2>2. CASE StampEnded(w)
    BY <1>1, <1>3, <2>2, FinishType DEF StampEnded
  <2>3. CASE ReadRun(w) \/ ReadHistory(w)
    <3>1. \/ \E s \in {"connect", "cutLate"} : Goto(w, s, job[w])
          \/ \E s \in {"miss", "history"} : Goto(w, s, [job[w] EXCEPT !.requeue = Requeue(r)])
          \/ Goto(w, "miss", [job[w] EXCEPT !.roll = RolloverDue(row[r].person)])
          \/ Goto(w, "miss", job[w])
      BY <2>3, Zenon DEF ReadRun, ReadHistory
    <3>2. r # 0
      BY <1>1, <2>3 DEF ReadRun, ReadHistory, RowSteps
    <3>3. ASSUME NEW b \in BOOLEAN
          PROVE  /\ [job[w] EXCEPT !.requeue = b] \in Job /\ [job[w] EXCEPT !.requeue = b].row = r
                 /\ [job[w] EXCEPT !.roll = b] \in Job /\ [job[w] EXCEPT !.roll = b].row = r
      BY <1>1 DEF Job
    <3>4. Requeue(r) \in BOOLEAN /\ RolloverDue(row[r].person) \in BOOLEAN
      BY Zenon DEF Requeue, RolloverDue
    <3>5. PICK s \in {"connect", "cutLate", "miss", "history"}, k \in Job : k.row = r /\ Goto(w, s, k)
      BY <1>1, <3>1, <3>3, <3>4, Zenon
    <3> QED
      BY <1>1, <1>3, <3>2, <3>5, GotoType DEF Steps, RowSteps
  <2>4. CASE LostConnect(w)
    BY <1>1, <1>3, <2>4, GotoType, FinishType DEF LostConnect, Steps, RowSteps
  <2> QED
    BY <2>1, <2>2, <2>3, <2>4
<1>5. TypeQueue' /\ TypeOrder'
  <2>1. ended' \in [Rows -> BOOLEAN]
    <3>1. ended' = ended \/ ended' = [ended EXCEPT ![r] = TRUE]
      BY Zenon DEF FindDial, StampEnded, ReadRun, LostConnect, ReadHistory, queueVars
    <3> QED
      BY <3>1 DEF TypeOK, TypeQueue
  <2> QED
    BY <1>2, <2>1 DEF TypeOK, TypeQueue, TypeOrder
<1>6. TypeRun'
  <2>1. (UNCHANGED bounds) \/ Fault("history")
    BY Zenon DEF FindDial, StampEnded, ReadRun, LostConnect, ReadHistory
  <2> QED
    BY <1>2, <2>1 DEF TypeOK, TypeRun, runVars, bounds, Fault
<1> QED
  BY <1>2, <1>4, <1>5, <1>6, PhonesFrame DEF TypeOK

LEMMA DeliverType ==
  ASSUME TypeOK, NEW w \in Workers, Deliver(w)
  PROVE  TypeOK'
<1>1. UNCHANGED <<queueVars, runVars, log, rolled, due, lock, call, dials>>
  BY DEF Deliver
<1>2. Kept /\ st' = st
  BY <1>1 DEF Kept, queueVars
<1> DEFINE J(m) == [NoJob EXCEPT !.row = m.call, !.due = due, !.outcome = m.outcome,
                                 !.amd = IF m.outcome = "machine" THEN m.call ELSE 0]
<1>3. PICK m \in msgs :
        /\ msgs' \subseteq msgs
        /\ (UNCHANGED bounds) \/ Fault("redeliver")
        /\ \/ Finish(w, J(m))
           \/ Entry(m.call, m.outcome) # "return" /\ Goto(w, Entry(m.call, m.outcome), J(m))
  BY Zenon DEF Deliver
<1>4. m.call \in Rows /\ m.outcome \in Outcomes /\ due \in SUBSET Rows
  BY DEF TypeOK, TypePhones, TypeRun
<1>5. J(m) \in Job /\ J(m).row = m.call
  <2>1. 0 \in 0 .. MaxRows /\ m.call \in 0 .. MaxRows
    BY <1>4, RunAssumption DEF Rows
  <2>2. (IF m.outcome = "machine" THEN m.call ELSE 0) \in 0 .. MaxRows
    BY <2>1
  <2>3. J(m).row = m.call
    BY DEF NoJob
  <2>4. J(m) \in Job
    <3> DEFINE j1 == [NoJob EXCEPT !.row = m.call]
               j2 == [j1 EXCEPT !.due = due]
               j3 == [j2 EXCEPT !.outcome = m.outcome]
               j4 == [j3 EXCEPT !.amd = IF m.outcome = "machine" THEN m.call ELSE 0]
    <3>1. j1 \in Job
      BY <2>1, NoJobType, JobFields, Zenon
    <3>2. j2 \in Job
      BY <3>1, <1>4, JobFields, Zenon
    <3>3. j3 \in Job
      BY <3>2, <1>4, JobFields, Zenon
    <3>4. j4 \in Job
      BY <3>3, <2>2, JobFields, Zenon
    <3> QED
      BY <3>4, Zenon
  <2> QED
    BY <2>3, <2>4
<1> DEFINE k == J(m)
<1> HIDE DEF k
<1>6. Entry(m.call, m.outcome) # "return" =>
        Entry(m.call, m.outcome) \in {"stampEnded", "hangUp", "readRun"} /\ st[m.call] # "absent"
  BY DEF Entry, Talking
<1>7. TypeWorkers'
  <2>1. m.call # 0
    BY <1>4, RunAssumption DEF Rows
  <2>2. k \in Job /\ k.row = m.call
    BY <1>5 DEF k
  <2>3. CASE Finish(w, J(m))
    <3>1. Finish(w, k)
      BY <2>3 DEF k
    <3> QED
      BY <1>2, <2>2, <3>1, FinishType DEF TypeOK
  <2>4. CASE Entry(m.call, m.outcome) # "return" /\ Goto(w, Entry(m.call, m.outcome), J(m))
    <3>1. PICK s \in {"stampEnded", "hangUp", "readRun"} : Goto(w, s, k)
      BY <2>4, <1>6, Zenon DEF k
    <3>2. st[m.call] # "absent"
      BY <2>4, <1>6
    <3> HIDE DEF J
    <3> QED
      BY <1>2, <2>1, <2>2, <3>1, <3>2, GotoType DEF Steps, RowSteps, TypeOK
  <2> QED
    BY <1>3, <2>3, <2>4
<1>8. TypeRun'
  BY <1>1, <1>3 DEF TypeOK, TypeRun, runVars, bounds, Fault
<1>9. TypePhones'
  <2>1. msgs' \subseteq msgs /\ call' = call /\ dials' = dials
    BY <1>1, <1>3, Zenon
  <2> QED
    BY <2>1 DEF TypeOK, TypePhones
<1> QED
  BY <1>1, <1>7, <1>8, <1>9, QueueFrame DEF TypeOK

LEMMA EnvironmentType ==
  ASSUME TypeOK, LegLost \/ Phones \/ FloorPasses \/ (\E w \in Workers : Crash(w)) \/ UNCHANGED vars
  PROVE  TypeOK'
<1>1. CASE LegLost
  <2>1. Kept
    BY <1>1 DEF LegLost, Kept, queueVars
  <2>2. TypeRun'
    BY <1>1 DEF LegLost, Press, TypeOK, TypeRun, SessionStatus
  <2> QED
    BY <1>1, <2>1, <2>2, QueueFrame, PhonesFrame, WorkersFrame DEF LegLost, TypeOK
<1>2. CASE Phones
  <2>1. UNCHANGED <<queueVars, runVars, bounds, log, rolled, due, lock, pc, job, dials>> /\ Kept
    BY <1>2 DEF Phones, Kept, queueVars
  <2>2. PICK r \in Rows, c \in CallStatus, o \in Outcomes :
          call' = [call EXCEPT ![r] = c] /\ msgs' = msgs \cup {[call |-> r, outcome |-> o]}
    BY <1>2 DEF Phones, PersonAnswers, MachineAnswers, CallEnds, Reports, CallStatus, Outcomes
  <2>3. TypePhones'
    BY <2>1, <2>2 DEF TypeOK, TypePhones
  <2> QED
    BY <2>1, <2>3, RunFrame, QueueFrame, WorkersFrame DEF TypeOK
<1>3. CASE FloorPasses
  <2>1. UNCHANGED <<queueVars, phoneVars, runVars, bounds, log, rolled, lock, pc, job>> /\ Kept
    BY <1>3 DEF FloorPasses, Kept, queueVars
  <2>2. TypeRun'
    BY <1>3 DEF FloorPasses, TypeOK, TypeRun, runVars, bounds
  <2> QED
    BY <2>1, <2>2, QueueFrame, PhonesFrame, WorkersFrame DEF TypeOK
<1>4. ASSUME NEW w \in Workers, Crash(w)
      PROVE  TypeOK'
  <2>1. UNCHANGED <<queueVars, phoneVars, runVars, log, rolled, due>> /\ Kept
    BY <1>4 DEF Crash, Kept, queueVars
  <2>2. TypeWorkers'
    BY <1>4, <2>1, GotoType, NoJobType DEF Crash, Steps, RowSteps, NoJob, TypeOK
  <2>3. TypeRun'
    BY <1>4, <2>1 DEF Crash, Fault, TypeOK, TypeRun, runVars
  <2> QED
    BY <2>1, <2>2, <2>3, QueueFrame, PhonesFrame DEF TypeOK
<1>5. CASE UNCHANGED vars
  BY <1>5, RunFrame, QueueFrame, PhonesFrame, WorkersFrame
     DEF vars, TypeOK, runVars, bounds, queueVars, phoneVars, Kept
<1> QED
  BY <1>1, <1>2, <1>3, <1>4, <1>5

LEMMA InitType == Init => TypeOK
<1> SUFFICES ASSUME Init PROVE TypeOK
  OBVIOUS
<1>1. TypeRun
  BY RunAssumption DEF Init, TypeRun, SessionStatus
<1>2. TypeQueue
  <2>1. row \in [Rows -> Row]
    BY RunAssumption DEF Init, Row, NoRow, Rows
  <2> QED
    BY <2>1 DEF Init, TypeQueue, ItemStatus
<1>3. TypeOrder
  BY RunAssumption DEF Init, TypeOrder, Rows, NoRow
<1>4. TypePhones
  BY DEF Init, TypePhones, CallStatus
<1>5. TypeWorkers
  BY NoJobType DEF Init, TypeWorkers, Steps, RowSteps, NoJob
<1> QED
  BY <1>1, <1>2, <1>3, <1>4, <1>5 DEF TypeOK

LEMMA StepType == TypeOK /\ [Next]_vars => TypeOK'
<1> SUFFICES ASSUME TypeOK, [Next]_vars PROVE TypeOK'
  OBVIOUS
<1>1. ASSUME NEW w \in Workers, Advance(w) PROVE TypeOK'
  BY <1>1, AdvanceReadsType, StatusWriteType, SettleType, HangUpsType, CallsType DEF Advance
<1>2. ASSUME NEW w \in Workers, Buttons(w) PROVE TypeOK'
  BY <1>2, StartType, PressType, StatusWriteType, SettleType, HangUpsType, RequeueTxType, ReadsType
     DEF Buttons
<1>3. ASSUME NEW w \in Workers, Callbacks(w) PROVE TypeOK'
  BY <1>3, DeliverType, ReadsType, SettleType, CallsType, RequeueTxType DEF Callbacks
<1> QED
  BY <1>1, <1>2, <1>3, EnvironmentType DEF Next

\* TypeOK, for every number of people, rows and handlers: no handler of the run
\* ever hangs up, settles or dials a row it did not read from the queue.
THEOREM TypeCorrect == Spec => []TypeOK
BY InitType, StepType, PTL DEF Spec

-----------------------------------------------------------------------------
(* The life of a row, and SettledStays.                                    *)

\* What one step may do to the status of one row.
RowMove(r) ==
  \/ st'[r] = st[r]
  \/ st[r] = "pending" /\ st'[r] = "dialing"
  \/ st[r] = "dialing" /\ st'[r] \in {"pending", "connected"}
  \/ st[r] = "absent" /\ st'[r] = "pending"
  \/ st[r] # "absent" /\ st'[r] \in {"done", "no_connect", "skipped", "trimmed"}

\* Only the rollback of a failed dial puts a row back in the queue.
LEMMA AdvanceMoves ==
  ASSUME TypeOK, NEW w \in Workers, Advance(w), NEW r \in Rows
  PROVE  RowMove(r) /\ (~OriginateFailed(w) => ~(st[r] = "dialing" /\ st'[r] = "pending"))
<1>1. /\ pc[w] \in RowSteps => job[w].row \in Rows /\ st[job[w].row] # "absent"
      /\ NextItems(job[w]) \subseteq Rows /\ st \in [Rows -> ItemStatus]
  <2>1. job[w].pend \subseteq Rows
    BY JobType DEF TypeOK, Job
  <2> QED
    BY <2>1, JobType DEF TypeOK, TypeQueue, NextItems, Eligible
<1>2. CASE GateSkip(w)
  BY <1>1, <1>2 DEF GateSkip, RowMove
<1>3. CASE Claim(w)
  BY <1>1, <1>3 DEF Claim, Claimable, RowMove
<1>4. CASE OriginateRefused(w)
  BY <1>1, <1>4 DEF OriginateRefused, RowMove, RowSteps
<1>5. CASE OriginateFailed(w)
  BY <1>1, <1>5 DEF OriginateFailed, RolledBack, RowMove, RowSteps
<1>6. CASE \/ ReadSession(w) \/ LoadQueue(w) \/ RunOut(w) \/ ReleaseAtEnd(w) \/ SetDone(w)
           \/ Reload(w) \/ NoNumbers(w) \/ Originate(w) \/ AfterRefusal(w) \/ Stamp(w)
           \/ HangUp(w) \/ AmdHangUp(w)
  <2>1. st' = st
    BY <1>6, Zenon DEF ReadSession, LoadQueue, RunOut, ReleaseAtEnd, SetDone, Reload, NoNumbers,
       Originate, AfterRefusal, Stamp, HangUp, AmdHangUp, queueVars
  <2> QED
    BY <2>1 DEF RowMove
<1> QED
  BY <1>2, <1>3, <1>4, <1>5, <1>6 DEF Advance

LEMMA RequeueMoves ==
  ASSUME TypeOK, NEW p, Requeues(p), NEW r \in Rows
  PROVE  RowMove(r) /\ ~(st[r] = "dialing" /\ st'[r] = "pending")
<1>1. st \in [Rows -> ItemStatus]
  BY DEF TypeOK, TypeQueue
<1>2. CASE st' = st
  BY <1>2 DEF RowMove
<1>3. ASSUME NEW s \in Closed, p \in Rows, st[p] = "dialing", st' = [st EXCEPT ![p] = s]
      PROVE  RowMove(r) /\ ~(st[r] = "dialing" /\ st'[r] = "pending")
  BY <1>1, <1>3 DEF RowMove, Closed
<1>4. ASSUME NEW q \in Rows, NEW s \in Closed, p \in Rows, st[p] \in {"dialing", "connected"},
             st[q] = "absent", st' = [st EXCEPT ![p] = s, ![q] = "pending"]
      PROVE  RowMove(r) /\ ~(st[r] = "dialing" /\ st'[r] = "pending")
  BY <1>1, <1>4 DEF RowMove, Closed
<1> QED
  BY <1>2, <1>3, <1>4, Zenon DEF Requeues, Insert, FreshRow

LEMMA ButtonMoves ==
  ASSUME TypeOK, NEW w \in Workers, Buttons(w), NEW r \in Rows
  PROVE  RowMove(r) /\ ~(st[r] = "dialing" /\ st'[r] = "pending")
<1>1. /\ pc[w] \in RowSteps => job[w].row \in Rows /\ st[job[w].row] # "absent"
      /\ st \in [Rows -> ItemStatus]
  BY JobType DEF TypeOK, TypeQueue
<1>2. CASE Start(w)
  BY <1>1, <1>2 DEF Start, RowMove
<1>3. CASE SettleCurrent(w)
  BY <1>1, <1>3 DEF SettleCurrent, RowMove, RowSteps
<1>4. CASE EndRow(w)
  BY <1>1, <1>4 DEF EndRow, RowMove, RowSteps
<1>5. CASE RedialTx(w) \/ TakeCallbackTx(w)
  BY <1>5, RequeueTxWrites, RequeueMoves
<1>6. CASE \/ StartAgain(w) \/ Pause(w) \/ SetPaused(w) \/ Resume(w) \/ SetActive(w) \/ Skip(w)
           \/ RepNext(w) \/ Stop(w) \/ ReleaseAtStop(w) \/ SetStopped(w) \/ IdleCheck(w)
           \/ CutIdle(w) \/ FindDial(w) \/ EndCall(w) \/ PauseToEnd(w) \/ Redial(w)
           \/ TakeCallback(w) \/ Nudge(w)
  <2>1. st' = st
    BY <1>6, Zenon DEF StartAgain, Pause, SetPaused, Resume, SetActive, Skip, RepNext, Stop,
       ReleaseAtStop, SetStopped, IdleCheck, CutIdle, FindDial, EndCall, PauseToEnd, Redial,
       TakeCallback, Nudge, queueVars
  <2> QED
    BY <2>1 DEF RowMove
<1> QED
  BY <1>2, <1>3, <1>4, <1>5, <1>6 DEF Buttons

LEMMA CallbackMoves ==
  ASSUME TypeOK, NEW w \in Workers, Callbacks(w), NEW r \in Rows
  PROVE  RowMove(r) /\ ~(st[r] = "dialing" /\ st'[r] = "pending")
<1>1. /\ pc[w] \in RowSteps => job[w].row \in Rows /\ st[job[w].row] # "absent"
      /\ st \in [Rows -> ItemStatus]
  BY JobType DEF TypeOK, TypeQueue
<1>2. CASE CutLate(w)
  BY <1>1, <1>2 DEF CutLate, RowMove, RowSteps
<1>3. CASE Connect(w)
  BY <1>1, <1>3 DEF Connect, RowMove, RowSteps
<1>4. CASE Miss(w)
  BY <1>4, RequeueTxWrites, RequeueMoves
<1>5. CASE \/ Deliver(w) \/ StampEnded(w) \/ ReadRun(w) \/ LostConnect(w) \/ Bridge(w) \/ ReadHistory(w)
  <2>1. st' = st
    BY <1>5, Zenon DEF Deliver, StampEnded, ReadRun, LostConnect, Bridge, ReadHistory, queueVars
  <2> QED
    BY <2>1 DEF RowMove
<1> QED
  BY <1>2, <1>3, <1>4, <1>5 DEF Callbacks

LEMMA EnvironmentMoves ==
  ASSUME LegLost \/ Phones \/ FloorPasses \/ (\E w \in Workers : Crash(w)) \/ UNCHANGED vars
  PROVE  st' = st /\ dials' = dials
BY Zenon DEF LegLost, Phones, FloorPasses, Crash, vars, queueVars, phoneVars

\* No step of any handler revives a settled row, however many handlers race for
\* it: every write to `dialing`, `connected` or `pending` is guarded by the
\* status it expects (setItemIfDialing, setItemIfPending, the claim, the swaps).
THEOREM SettledForGood == Spec => SettledStays
<1>1. ASSUME TypeOK, Next, NEW r \in Rows
      PROVE  RowMove(r)
  BY <1>1, AdvanceMoves, ButtonMoves, CallbackMoves, EnvironmentMoves DEF Next, RowMove
<1>2. TypeOK /\ [Next]_vars =>
        [\A r \in Rows : st[r] \in Settled => st'[r] \notin {"pending", "dialing", "connected"}]_vars
  BY <1>1 DEF RowMove, Settled
<1> QED
  BY <1>2, TypeCorrect, PTL DEF Spec, SettledStays

-----------------------------------------------------------------------------
(* Ownership is inductive, and why a row rings at most once.               *)

\* Nobody takes the right to dial.
Sheds == \A v \in Workers : pc'[v] = "originate" => pc[v] = "originate" /\ job'[v] = job[v]
\* No row returns to the queue.
NoReturn == \A r \in Rows : st'[r] \in {"absent", "pending"} => st[r] \in {"absent", "pending"}

LEMMA GotoSheds ==
  ASSUME TypeOK, NEW w \in Workers, NEW s, NEW j, s # "originate", Goto(w, s, j)
  PROVE  Sheds
BY DEF Sheds, Goto, TypeOK, TypeWorkers

\* A step that grants no right, places no call and returns no row to the queue.
LEMMA OwnershipFrame ==
  ASSUME TypeOK, Ownership, Sheds, NoReturn, UNCHANGED dials
  PROVE  Ownership'
<1>1. \A v \in Workers, r \in Rows : Holder(v, r)' => Holder(v, r)
  BY DEF Sheds, Holder
<1>2. \A v \in Workers, r \in Rows : Holder(v, r) => st[r] # "absent"
  BY JobType, RunAssumption DEF TypeOK, Holder, RowSteps, Rows
<1>3. \A v \in Workers, r \in Rows : Holder(v, r)' => st'[r] # "pending" /\ dials'[r] = 0
  BY <1>1, <1>2 DEF Ownership, NoReturn
<1>4. \A v, w \in Workers, r \in Rows : Holder(v, r)' /\ Holder(w, r)' => v = w
  BY <1>1 DEF Ownership
<1>5. \A r \in Rows : st'[r] \in {"absent", "pending"} => dials'[r] = 0
  BY DEF Ownership, NoReturn
<1>6. DialedOnce'
  BY DEF Ownership, DialedOnce
<1> QED
  BY <1>3, <1>4, <1>5, <1>6 DEF Ownership

\* The claim: its swap finds the row pending, so nobody holds it.
LEMMA ClaimOwns ==
  ASSUME TypeOK, Ownership, NEW w \in Workers, Claim(w)
  PROVE  Ownership'
<1>1. CASE Finish(w, job[w]) /\ UNCHANGED st
  <2>1. Sheds
    BY <1>1, GotoSheds, Zenon DEF Finish
  <2> QED
    BY <1>1, <2>1, OwnershipFrame DEF Claim, phoneVars, NoReturn
<1>2. ASSUME NEW r \in Rows, st[r] = "pending", st' = [st EXCEPT ![r] = "dialing"],
             pc' = [pc EXCEPT ![w] = "originate"],
             \A v \in Workers : v # w => job'[v] = job[v],
             job'[w].row = r
      PROVE  Ownership'
  <2>1. dials' = dials
    BY DEF Claim, phoneVars
  <2>2. /\ \A v \in Workers : pc'[v] = IF v = w THEN "originate" ELSE pc[v]
        /\ \A q \in Rows : st'[q] = IF q = r THEN "dialing" ELSE st[q]
    BY <1>2 DEF TypeOK, TypeWorkers, TypeQueue
  <2>3. \A v \in Workers, q \in Rows : Holder(v, q)' => (v = w /\ q = r) \/ (v # w /\ Holder(v, q))
    BY <1>2, <2>2 DEF Holder
  <2>4. \A v \in Workers : ~Holder(v, r)
    BY <1>2 DEF Ownership
  <2>5. \A v \in Workers, q \in Rows : Holder(v, q)' => st'[q] # "pending" /\ dials'[q] = 0
    BY <1>2, <2>1, <2>2, <2>3 DEF Ownership
  <2>6. \A u, v \in Workers, q \in Rows : Holder(u, q)' /\ Holder(v, q)' => u = v
    BY <2>3, <2>4 DEF Ownership
  <2>7. \A q \in Rows : st'[q] \in {"absent", "pending"} => dials'[q] = 0
    BY <2>1, <2>2 DEF Ownership
  <2>8. DialedOnce'
    BY <2>1 DEF Ownership, DialedOnce
  <2> QED
    BY <2>5, <2>6, <2>7, <2>8 DEF Ownership
<1>3. NextItems(job[w]) \subseteq Rows
  BY JobType DEF TypeOK, Job, NextItems, Eligible
<1>4. \A r \in Rows : Goto(w, "originate", [job[w] EXCEPT !.row = r]) =>
        /\ pc' = [pc EXCEPT ![w] = "originate"]
        /\ \A v \in Workers : v # w => job'[v] = job[v]
        /\ job'[w].row = r
  <2> SUFFICES ASSUME NEW r \in Rows, Goto(w, "originate", [job[w] EXCEPT !.row = r])
               PROVE  /\ pc' = [pc EXCEPT ![w] = "originate"]
                      /\ \A v \in Workers : v # w => job'[v] = job[v]
                      /\ job'[w].row = r
    OBVIOUS
  <2> DEFINE k == [job[w] EXCEPT !.row = r]
  <2>1. Goto(w, "originate", k)
    OBVIOUS
  <2>2. k.row = r
    BY JobType DEF TypeOK, Job
  <2> HIDE DEF k
  <2> QED
    BY <2>1, <2>2 DEF Goto, TypeOK, TypeWorkers
<1> QED
  BY <1>1, <1>2, <1>3, <1>4, Zenon DEF Claim, Claimable

\* The call: its holder gives the right up as it is used.
LEMMA OriginateOwns ==
  ASSUME TypeOK, Ownership, NEW w \in Workers, Originate(w)
  PROVE  Ownership'
<1> DEFINE r == job[w].row
<1>1. /\ r \in Rows /\ Holder(w, r) /\ pc[w] = "originate"
  BY JobType DEF TypeOK, Originate, Holder, RowSteps
<1>2. dials[r] = 0 /\ st[r] \notin {"absent", "pending"}
  BY <1>1, JobType, RunAssumption DEF Ownership, TypeOK, Rows
<1>3. st' = st /\ \A q \in Rows : dials'[q] = IF q = r THEN 1 ELSE dials[q]
  <2>1. st' = st /\ dials' = [dials EXCEPT ![r] = @ + 1]
    BY Zenon DEF Originate, queueVars
  <2>2. PICK p \in Rows : p = r
    BY <1>1
  <2> QED
    BY <1>2, <2>1, <2>2 DEF TypeOK, TypePhones
<1>4. \A v \in Workers, q \in Rows : Holder(v, q)' => Holder(v, q) /\ q # r
  <2>1. \A v \in Workers : pc'[v] = "originate" => v # w /\ pc[v] = "originate" /\ job'[v] = job[v]
    <3>1. PICK k : Goto(w, "stamp", k)
      BY Zenon DEF Originate
    <3> QED
      BY <3>1 DEF Goto, TypeOK, TypeWorkers
  <2> QED
    BY <1>1, <2>1 DEF Holder, Ownership
<1>5. \A v \in Workers, q \in Rows : Holder(v, q)' => st'[q] # "pending" /\ dials'[q] = 0
  BY <1>3, <1>4 DEF Ownership
<1>6. \A u, v \in Workers, q \in Rows : Holder(u, q)' /\ Holder(v, q)' => u = v
  BY <1>4 DEF Ownership
<1>7. \A q \in Rows : st'[q] \in {"absent", "pending"} => dials'[q] = 0
  BY <1>2, <1>3 DEF Ownership
<1>8. DialedOnce'
  BY <1>3 DEF Ownership, DialedOnce
<1> QED
  BY <1>5, <1>6, <1>7, <1>8 DEF Ownership

\* The rollback: the row returns to the queue unrung, held by nobody.
LEMMA RollbackOwns ==
  ASSUME TypeOK, Ownership, NEW w \in Workers, OriginateFailed(w)
  PROVE  Ownership'
<1> DEFINE r == job[w].row
<1>1. /\ r \in Rows /\ Holder(w, r) /\ pc[w] = "originate"
  BY JobType DEF TypeOK, OriginateFailed, Holder, RowSteps
<1>2. dials' = dials /\ (st' = st \/ st' = [st EXCEPT ![r] = "pending"])
  BY DEF OriginateFailed, RolledBack, phoneVars
<1>3. \A v \in Workers, q \in Rows : Holder(v, q)' => Holder(v, q) /\ q # r
  <2>1. \A v \in Workers : pc'[v] = "originate" => v # w /\ pc[v] = "originate" /\ job'[v] = job[v]
    <3>1. PICK s, k : s # "originate" /\ Goto(w, s, k)
      BY Zenon DEF OriginateFailed, Finish
    <3> QED
      BY <3>1 DEF Goto, TypeOK, TypeWorkers
  <2> QED
    BY <1>1, <2>1 DEF Holder, Ownership
<1>4. \A q \in Rows : q # r => st'[q] = st[q]
  BY <1>2 DEF TypeOK, TypeQueue
<1>5. dials[r] = 0
  BY <1>1 DEF Ownership
<1>6. \A v \in Workers, q \in Rows : Holder(v, q)' => st'[q] # "pending" /\ dials'[q] = 0
  BY <1>2, <1>3, <1>4 DEF Ownership
<1>7. \A u, v \in Workers, q \in Rows : Holder(u, q)' /\ Holder(v, q)' => u = v
  BY <1>3 DEF Ownership
<1>8. \A q \in Rows : st'[q] \in {"absent", "pending"} => dials'[q] = 0
  BY <1>2, <1>4, <1>5 DEF Ownership
<1>9. DialedOnce'
  BY <1>2 DEF Ownership, DialedOnce
<1> QED
  BY <1>6, <1>7, <1>8, <1>9 DEF Ownership

\* Every other step of a handler.
LEMMA OtherAdvanceOwns ==
  ASSUME TypeOK, Ownership, NEW w \in Workers,
         Advance(w), ~Claim(w), ~Originate(w), ~OriginateFailed(w)
  PROVE  Ownership'
<1>1. \E s, j : s # "originate" /\ Goto(w, s, j)
  BY Zenon DEF Advance, ReadSession, LoadQueue, RunOut, ReleaseAtEnd, SetDone, GateSkip, Reload, NoNumbers,
       OriginateRefused, AfterRefusal, Stamp, HangUp, AmdHangUp, Finish
<1>2. Sheds
  BY <1>1, GotoSheds
<1>3. NoReturn
  BY AdvanceMoves DEF NoReturn, RowMove
<1>4. dials' = dials
  BY Zenon DEF Advance, phoneVars, ReadSession, LoadQueue, RunOut, ReleaseAtEnd, SetDone, GateSkip, Reload, NoNumbers,
       OriginateRefused, AfterRefusal, Stamp, HangUp, AmdHangUp, Finish
<1> QED
  BY <1>2, <1>3, <1>4, OwnershipFrame

LEMMA ButtonOwns ==
  ASSUME TypeOK, Ownership, NEW w \in Workers, Buttons(w)
  PROVE  Ownership'
<1>1. \E s, j : s # "originate" /\ Goto(w, s, j)
  BY Zenon DEF Buttons, Start, StartAgain, Pause, SetPaused, Resume, SetActive, Skip, RepNext, SettleCurrent,
       Stop, ReleaseAtStop, SetStopped, IdleCheck, CutIdle, FindDial, EndCall, PauseToEnd, EndRow,
       Redial, RedialTx, TakeCallback, TakeCallbackTx, Nudge, Begin, Finish
<1>2. Sheds
  BY <1>1, GotoSheds
<1>3. NoReturn
  BY ButtonMoves DEF NoReturn, RowMove
<1>4. dials' = dials
  BY Zenon DEF Buttons, phoneVars, Start, StartAgain, Pause, SetPaused, Resume, SetActive, Skip, RepNext, SettleCurrent,
       Stop, ReleaseAtStop, SetStopped, IdleCheck, CutIdle, FindDial, EndCall, PauseToEnd, EndRow,
       Redial, RedialTx, TakeCallback, TakeCallbackTx, Nudge, Begin, Finish
<1> QED
  BY <1>2, <1>3, <1>4, OwnershipFrame

LEMMA CallbackOwns ==
  ASSUME TypeOK, Ownership, NEW w \in Workers, Callbacks(w)
  PROVE  Ownership'
<1>1. \E s, j : s # "originate" /\ Goto(w, s, j)
  BY Zenon DEF Callbacks, Entry, Deliver, StampEnded, ReadRun, CutLate, Connect, LostConnect, Bridge, ReadHistory,
       Miss, AfterMiss, Finish
<1>2. Sheds
  BY <1>1, GotoSheds
<1>3. NoReturn
  BY CallbackMoves DEF NoReturn, RowMove
<1>4. dials' = dials
  BY Zenon DEF Callbacks, phoneVars, Deliver, StampEnded, ReadRun, CutLate, Connect, LostConnect, Bridge, ReadHistory,
       Miss, AfterMiss, Finish
<1> QED
  BY <1>2, <1>3, <1>4, OwnershipFrame

LEMMA EnvironmentOwns ==
  ASSUME TypeOK, Ownership,
         LegLost \/ Phones \/ FloorPasses \/ (\E w \in Workers : Crash(w)) \/ UNCHANGED vars
  PROVE  Ownership'
<1>1. Sheds
  <2>1. CASE LegLost \/ Phones \/ FloorPasses \/ UNCHANGED vars
    BY <2>1 DEF LegLost, Phones, FloorPasses, vars, Sheds
  <2>2. ASSUME NEW w \in Workers, Crash(w) PROVE Sheds
    BY <2>2, GotoSheds DEF Crash
  <2> QED
    BY <2>1, <2>2
<1>2. st' = st /\ dials' = dials
  BY EnvironmentMoves
<1> QED
  BY <1>1, <1>2, OwnershipFrame DEF NoReturn

\* No two handlers ever hold the right to dial one row, for every number of
\* handlers, people and rows.
THEOREM OwnershipHolds == Spec => []Ownership
<1>1. Init => Ownership
  BY DEF Init, Ownership, Holder, DialedOnce
<1>2. TypeOK /\ Ownership /\ [Next]_vars => Ownership'
  <2> SUFFICES ASSUME TypeOK, Ownership, [Next]_vars PROVE Ownership'
    OBVIOUS
  <2>1. ASSUME NEW w \in Workers, Advance(w) PROVE Ownership'
    BY <2>1, ClaimOwns, OriginateOwns, RollbackOwns, OtherAdvanceOwns
  <2> QED
    BY <2>1, ButtonOwns, CallbackOwns, EnvironmentOwns DEF Next
<1> QED
  BY <1>1, <1>2, TypeCorrect, PTL DEF Spec

\* A queue row rings its person's phone at most once.
THEOREM NeverDialedTwice == Spec => []DialedOnce
<1>1. Ownership => DialedOnce
  BY DEF Ownership
<1> QED
  BY <1>1, OwnershipHolds, PTL

-----------------------------------------------------------------------------
(* Who writes a row, and who arrives at a step on one.                     *)

\* The handlers' steps that write a status, a mark or a new row.
Writes(w) ==
  \/ GateSkip(w) \/ Claim(w) \/ OriginateRefused(w) \/ OriginateFailed(w)
  \/ Start(w) \/ SettleCurrent(w) \/ EndRow(w) \/ RedialTx(w) \/ TakeCallbackTx(w)
  \/ CutLate(w) \/ Connect(w) \/ Miss(w)

LEMMA Reads ==
  ASSUME [Next]_vars, \A w \in Workers : ~Writes(w)
  PROVE  UNCHANGED <<st, row, canceled>>
<1>1. ASSUME NEW w \in Workers, Advance(w) PROVE UNCHANGED <<st, row, canceled>>
  BY <1>1, Zenon DEF Advance, Writes, ReadSession, LoadQueue, RunOut, ReleaseAtEnd, SetDone, Reload,
     NoNumbers, Originate, AfterRefusal, Stamp, HangUp, AmdHangUp, queueVars
<1>2. ASSUME NEW w \in Workers, Buttons(w) PROVE UNCHANGED <<st, row, canceled>>
  BY <1>2, Zenon DEF Buttons, Writes, StartAgain, Pause, SetPaused, Resume, SetActive, Skip, RepNext,
     Stop, ReleaseAtStop, SetStopped, IdleCheck, CutIdle, FindDial, EndCall, PauseToEnd, Redial,
     TakeCallback, Nudge, queueVars
<1>3. ASSUME NEW w \in Workers, Callbacks(w) PROVE UNCHANGED <<st, row, canceled>>
  BY <1>3, Zenon DEF Callbacks, Writes, Deliver, StampEnded, ReadRun, LostConnect, Bridge, ReadHistory,
     queueVars
<1>4. CASE LegLost \/ Phones \/ FloorPasses \/ (\E w \in Workers : Crash(w)) \/ UNCHANGED vars
  BY <1>4, Zenon DEF LegLost, Phones, FloorPasses, Crash, vars, queueVars
<1> QED
  BY <1>1, <1>2, <1>3, <1>4 DEF Next

\* Start alone opens a run and sets its tries; nothing makes one ready again.
LEMMA Opened ==
  ASSUME [Next]_vars, \A w \in Workers : ~Start(w)
  PROVE  passes' = passes /\ (session' = session \/ session' \in {"active", "paused", "stopped", "done"})
<1> DEFINE P == passes' = passes /\ (session' = session \/ session' \in {"active", "paused", "stopped", "done"})
<1>1. ASSUME NEW w \in Workers, Advance(w) PROVE P
  BY <1>1, Zenon DEF Advance, ReadSession, LoadQueue, RunOut, ReleaseAtEnd, SetDone, GateSkip, Reload,
     NoNumbers, Claim, Originate, OriginateRefused, AfterRefusal, OriginateFailed, Stamp, HangUp, AmdHangUp,
     runVars
<1>2. ASSUME NEW w \in Workers, Buttons(w) PROVE P
  BY <1>2, Zenon DEF Buttons, StartAgain, Pause, SetPaused, Resume, SetActive, Skip, RepNext, SettleCurrent,
     Stop, ReleaseAtStop, SetStopped, IdleCheck, CutIdle, FindDial, EndCall, PauseToEnd, EndRow,
     Redial, RedialTx, TakeCallback, TakeCallbackTx, Nudge, runVars
<1>3. ASSUME NEW w \in Workers, Callbacks(w) PROVE P
  BY <1>3, Zenon DEF Callbacks, Deliver, StampEnded, ReadRun, CutLate, Connect, LostConnect, Bridge,
     ReadHistory, Miss, runVars
<1>4. CASE LegLost \/ Phones \/ FloorPasses \/ (\E w \in Workers : Crash(w)) \/ UNCHANGED vars
  BY <1>4, Zenon DEF LegLost, Phones, FloorPasses, Crash, vars, runVars
<1> QED
  BY <1>1, <1>2, <1>3, <1>4 DEF Next

\* The step that brings a worker to a step on a row.
Via(w, s) ==
  /\ s = "originate" => Claim(w)
  /\ s = "stamp" => Originate(w)
  /\ s = "setSkipped" => Skip(w)
  /\ s = "setDoneRow" => RepNext(w)
  /\ s = "pauseToEnd" => EndCall(w)
  /\ s = "endRow" => PauseToEnd(w)
  /\ s = "redial" => Redial(w)
  /\ s = "takeCallback" => TakeCallback(w)
  /\ s = "stampEnded" => Deliver(w)
  /\ s = "readRun" => Deliver(w)
  /\ s \in {"cutLate", "connect", "history"} => ReadRun(w)
  /\ s = "miss" => ReadRun(w) \/ ReadHistory(w)
  /\ s \in {"lostConnect", "bridge"} => Connect(w)
  /\ s = "refused" => OriginateRefused(w)
  /\ s = "pick" => LoadQueue(w) \/ Reload(w) \/ GateSkip(w) \/ AfterRefusal(w)

\* Steps a worker reaches without the row of a dial in hand being read there.
Plain == {"idle", "amdHangUp", "advance", "load", "release", "setDone", "reload", "refusedLost",
          "hangUp", "hangUpAdvance", "setPaused", "setActive", "releaseAtStop", "releaseIdle",
          "setStopped", "cutIdle", "findDial"}
Plainly(w) == \E s \in Plain : \E j : Goto(w, s, j)
To(w, s) == \E j : Goto(w, s, j)

LEMMA PlainSteps ==
  ASSUME NEW w \in Workers
  PROVE  /\ To(w, "idle") \/ To(w, "amdHangUp") \/ To(w, "advance") \/ To(w, "load") => Plainly(w)
         /\ To(w, "release") \/ To(w, "setDone") \/ To(w, "reload") \/ To(w, "refusedLost") => Plainly(w)
         /\ To(w, "hangUp") \/ To(w, "hangUpAdvance") \/ To(w, "setPaused") \/ To(w, "setActive") => Plainly(w)
         /\ To(w, "releaseAtStop") \/ To(w, "releaseIdle") \/ To(w, "setStopped") => Plainly(w)
         /\ To(w, "cutIdle") \/ To(w, "findDial") => Plainly(w)
BY DEF Plainly, Plain, To

LEMMA FinishTo ==
  ASSUME NEW w \in Workers, NEW j, Finish(w, j)
  PROVE  Plainly(w)
<1>1. To(w, "idle") \/ To(w, "amdHangUp")
  BY Zenon DEF Finish, To
<1> QED
  BY <1>1, PlainSteps

LEMMA AdvanceVia ==
  ASSUME NEW w \in Workers, Advance(w)
  PROVE  \/ Plainly(w)
         \/ Claim(w) /\ To(w, "originate")
         \/ Originate(w) /\ To(w, "stamp")
         \/ OriginateRefused(w) /\ To(w, "refused")
         \/ (LoadQueue(w) \/ Reload(w) \/ GateSkip(w) \/ AfterRefusal(w)) /\ To(w, "pick")
<1>1. CASE Claim(w)
  <2>1. To(w, "originate") \/ Finish(w, job[w])
    BY <1>1, Zenon DEF Claim, To
  <2> QED
    BY <1>1, <2>1, FinishTo
<1>2. CASE Originate(w)
  BY <1>2, Zenon DEF Originate, To
<1>3. CASE OriginateRefused(w)
  <2>1. To(w, "refused") \/ To(w, "refusedLost")
    BY <1>3, Zenon DEF OriginateRefused, To
  <2> QED
    BY <1>3, <2>1, PlainSteps
<1>4. CASE LoadQueue(w) \/ Reload(w) \/ GateSkip(w) \/ AfterRefusal(w)
  <2>1. To(w, "pick") \/ To(w, "reload") \/ Finish(w, job[w])
    BY <1>4, Zenon DEF LoadQueue, Reload, GateSkip, AfterRefusal, To
  <2> QED
    BY <1>4, <2>1, FinishTo, PlainSteps
<1>5. CASE ReadSession(w) \/ RunOut(w) \/ SetDone(w) \/ NoNumbers(w) \/ OriginateFailed(w) \/ Stamp(w)
  <2>1. Finish(w, job[w]) \/ To(w, "load") \/ To(w, "release") \/ To(w, "hangUp")
    BY <1>5, Zenon DEF ReadSession, RunOut, SetDone, NoNumbers, OriginateFailed, Stamp, To
  <2> QED
    BY <2>1, FinishTo, PlainSteps
<1>6. CASE ReleaseAtEnd(w) \/ HangUp(w) \/ AmdHangUp(w)
  <2>1. Finish(w, job[w]) \/ To(w, "setDone") \/ To(w, "advance") \/ To(w, "idle")
    BY <1>6, Zenon DEF ReleaseAtEnd, HangUp, AmdHangUp, To
  <2> QED
    BY <2>1, FinishTo, PlainSteps
<1> QED
  BY <1>1, <1>2, <1>3, <1>4, <1>5, <1>6 DEF Advance

LEMMA ButtonVia ==
  ASSUME NEW w \in Workers, Buttons(w)
  PROVE  \/ Plainly(w)
         \/ Skip(w) /\ To(w, "setSkipped")
         \/ RepNext(w) /\ To(w, "setDoneRow")
         \/ EndCall(w) /\ To(w, "pauseToEnd")
         \/ PauseToEnd(w) /\ To(w, "endRow")
         \/ Redial(w) /\ To(w, "redial")
         \/ TakeCallback(w) /\ To(w, "takeCallback")
<1>1. CASE \/ Start(w) \/ StartAgain(w) \/ Pause(w) \/ SetPaused(w) \/ Resume(w) \/ SetActive(w)
           \/ IdleCheck(w) \/ Nudge(w)
  <2>1. \/ To(w, "advance") \/ To(w, "setPaused") \/ To(w, "setActive") \/ To(w, "cutIdle")
        \/ Finish(w, job[w])
    BY <1>1, Zenon DEF Start, StartAgain, Pause, SetPaused, Resume, SetActive, IdleCheck, Nudge, Begin, To
  <2> QED
    BY <2>1, FinishTo, PlainSteps
<1>2. CASE SettleCurrent(w) \/ Stop(w) \/ ReleaseAtStop(w) \/ SetStopped(w)
  <2>1. \/ To(w, "hangUpAdvance") \/ To(w, "advance") \/ To(w, "releaseAtStop") \/ To(w, "setStopped")
        \/ To(w, "findDial") \/ To(w, "hangUp") \/ Finish(w, job[w])
    BY <1>2, Zenon DEF SettleCurrent, Stop, ReleaseAtStop, SetStopped, Begin, To
  <2> QED
    BY <2>1, FinishTo, PlainSteps
<1>3. CASE CutIdle(w) \/ FindDial(w) \/ EndRow(w) \/ RedialTx(w) \/ TakeCallbackTx(w)
  <2>1. To(w, "releaseIdle") \/ To(w, "hangUp") \/ To(w, "advance") \/ Finish(w, job[w])
    BY <1>3, Zenon DEF CutIdle, FindDial, EndRow, RedialTx, TakeCallbackTx, To
  <2> QED
    BY <2>1, FinishTo, PlainSteps
<1>4. CASE Skip(w)
  <2>1. To(w, "advance") \/ To(w, "setSkipped")
    BY <1>4, Zenon DEF Skip, Begin, To
  <2> QED
    BY <1>4, <2>1, PlainSteps
<1>5. CASE RepNext(w)
  <2>1. To(w, "advance") \/ To(w, "setDoneRow")
    BY <1>5, Zenon DEF RepNext, Begin, To
  <2> QED
    BY <1>5, <2>1, PlainSteps
<1>6. CASE EndCall(w)
  BY <1>6, Zenon DEF EndCall, Begin, To
<1>7. CASE PauseToEnd(w)
  <2>1. To(w, "endRow") \/ Finish(w, job[w])
    BY <1>7, Zenon DEF PauseToEnd, To
  <2> QED
    BY <1>7, <2>1, FinishTo
<1>8. CASE Redial(w)
  BY <1>8, Zenon DEF Redial, Begin, To
<1>9. CASE TakeCallback(w)
  BY <1>9, Zenon DEF TakeCallback, Begin, To
<1> QED
  BY <1>1, <1>2, <1>3, <1>4, <1>5, <1>6, <1>7, <1>8, <1>9 DEF Buttons

LEMMA CallbackVia ==
  ASSUME NEW w \in Workers, Callbacks(w)
  PROVE  \/ Plainly(w)
         \/ Deliver(w) /\ (To(w, "stampEnded") \/ To(w, "readRun"))
         \/ ReadRun(w) /\ (To(w, "cutLate") \/ To(w, "connect") \/ To(w, "history") \/ To(w, "miss"))
         \/ ReadHistory(w) /\ To(w, "miss")
         \/ Connect(w) /\ (To(w, "lostConnect") \/ To(w, "bridge"))
<1>1. CASE Deliver(w)
  <2>1. \/ \E j : Finish(w, j)
        \/ \E r, o, j : Entry(r, o) # "return" /\ Goto(w, Entry(r, o), j)
    BY <1>1, Zenon DEF Deliver
  <2>2. ASSUME NEW r, NEW o, NEW j, Entry(r, o) # "return", Goto(w, Entry(r, o), j)
        PROVE  To(w, "stampEnded") \/ To(w, "hangUp") \/ To(w, "readRun")
    <3>1. Entry(r, o) \in {"stampEnded", "hangUp", "readRun"}
      BY <2>2 DEF Entry
    <3> QED
      BY <2>2, <3>1, Zenon DEF To
  <2> QED
    BY <1>1, <2>1, <2>2, FinishTo, PlainSteps
<1>2. CASE ReadRun(w)
  BY <1>2, Zenon DEF ReadRun, To
<1>3. CASE ReadHistory(w)
  BY <1>3, Zenon DEF ReadHistory, To
<1>4. CASE Connect(w)
  BY <1>4, Zenon DEF Connect, To
<1>5. CASE StampEnded(w) \/ CutLate(w) \/ LostConnect(w) \/ Bridge(w) \/ Miss(w)
  <2>1. To(w, "hangUp") \/ To(w, "advance") \/ Finish(w, job[w])
    BY <1>5, Zenon DEF StampEnded, CutLate, LostConnect, Bridge, Miss, AfterMiss, To
  <2> QED
    BY <2>1, FinishTo, PlainSteps
<1> QED
  BY <1>1, <1>2, <1>3, <1>4, <1>5 DEF Callbacks

\* Only its own action brings a worker to a step on a row.
Still(v) == pc'[v] = pc[v] /\ job'[v] = job[v]

LEMMA Arrivals ==
  ASSUME TypeOK, [Next]_vars, NEW v \in Workers, ~Still(v)
  PROVE  Via(v, pc'[v])
<1>1. \A w \in Workers : \A s : To(w, s) => pc'[w] = s /\ \A u \in Workers : u # w => Still(u)
  BY DEF To, Goto, TypeOK, TypeWorkers, Still
<1>2. \A w \in Workers : Plainly(w) => pc'[w] \in Plain /\ \A u \in Workers : u # w => Still(u)
  BY DEF Plainly, Goto, TypeOK, TypeWorkers, Still
<1>3. pc'[v] \in Plain => Via(v, pc'[v])
  BY DEF Plain, Via
<1>4. ASSUME NEW w \in Workers, Advance(w) PROVE Via(v, pc'[v])
  <2>1. CASE Plainly(w)
    BY <2>1, <1>2, <1>3
  <2>2. CASE Claim(w) /\ To(w, "originate")
    BY <2>2, <1>1 DEF Via
  <2>3. CASE Originate(w) /\ To(w, "stamp")
    BY <2>3, <1>1 DEF Via
  <2>4. CASE OriginateRefused(w) /\ To(w, "refused")
    BY <2>4, <1>1 DEF Via
  <2>5. CASE (LoadQueue(w) \/ Reload(w) \/ GateSkip(w) \/ AfterRefusal(w)) /\ To(w, "pick")
    BY <2>5, <1>1 DEF Via
  <2> QED
    BY <1>4, AdvanceVia, <2>1, <2>2, <2>3, <2>4, <2>5
<1>5. ASSUME NEW w \in Workers, Buttons(w) PROVE Via(v, pc'[v])
  <2>1. CASE Plainly(w)
    BY <2>1, <1>2, <1>3
  <2>2. CASE Skip(w) /\ To(w, "setSkipped")
    BY <2>2, <1>1 DEF Via
  <2>3. CASE RepNext(w) /\ To(w, "setDoneRow")
    BY <2>3, <1>1 DEF Via
  <2>4. CASE EndCall(w) /\ To(w, "pauseToEnd")
    BY <2>4, <1>1 DEF Via
  <2>5. CASE PauseToEnd(w) /\ To(w, "endRow")
    BY <2>5, <1>1 DEF Via
  <2>6. CASE Redial(w) /\ To(w, "redial")
    BY <2>6, <1>1 DEF Via
  <2>7. CASE TakeCallback(w) /\ To(w, "takeCallback")
    BY <2>7, <1>1 DEF Via
  <2> QED
    BY <1>5, ButtonVia, <2>1, <2>2, <2>3, <2>4, <2>5, <2>6, <2>7
<1>6. ASSUME NEW w \in Workers, Callbacks(w) PROVE Via(v, pc'[v])
  <2>1. CASE Plainly(w)
    BY <2>1, <1>2, <1>3
  <2>2. CASE Deliver(w) /\ (To(w, "stampEnded") \/ To(w, "readRun"))
    BY <2>2, <1>1 DEF Via
  <2>3. CASE ReadRun(w) /\ (To(w, "cutLate") \/ To(w, "connect") \/ To(w, "history") \/ To(w, "miss"))
    BY <2>3, <1>1 DEF Via
  <2>4. CASE ReadHistory(w) /\ To(w, "miss")
    BY <2>4, <1>1 DEF Via
  <2>5. CASE Connect(w) /\ (To(w, "lostConnect") \/ To(w, "bridge"))
    BY <2>5, <1>1 DEF Via
  <2> QED
    BY <1>6, CallbackVia, <2>1, <2>2, <2>3, <2>4, <2>5
<1>7. ASSUME NEW w \in Workers, Crash(w) PROVE Via(v, pc'[v])
  <2>1. To(w, "idle")
    BY <1>7, Zenon DEF Crash, To
  <2> QED
    BY <2>1, <1>2, <1>3, PlainSteps
<1>8. CASE LegLost \/ Phones \/ FloorPasses \/ UNCHANGED vars
  BY <1>8, Zenon DEF LegLost, Phones, FloorPasses, vars, Still
<1> QED
  BY <1>4, <1>5, <1>6, <1>7, <1>8 DEF Next

\* A handler is one worker's: the others stay where they are.
LEMMA Alone ==
  ASSUME TypeOK, NEW w \in Workers, Advance(w) \/ Buttons(w) \/ Callbacks(w) \/ Crash(w)
  PROVE  \A u \in Workers : u # w => Still(u)
<1>1. \A s : To(w, s) => \A u \in Workers : u # w => Still(u)
  BY DEF To, Goto, TypeOK, TypeWorkers, Still
<1>2. Plainly(w) => \A u \in Workers : u # w => Still(u)
  BY DEF Plainly, Goto, TypeOK, TypeWorkers, Still
<1>3. Crash(w) => To(w, "idle")
  BY Zenon DEF Crash, To
<1> QED
  BY <1>1, <1>2, <1>3, AdvanceVia, ButtonVia, CallbackVia, Zenon

\* What a step may replace in a job leaves the rest of it.
LEMMA EditsKeep ==
  ASSUME NEW j \in Job, NEW x
  PROVE  /\ [j EXCEPT !.pend = x].row = j.row /\ [j EXCEPT !.pend = x].due = j.due
         /\ [j EXCEPT !.pend = x].pend = x
         /\ [j EXCEPT !.requeue = x].row = j.row /\ [j EXCEPT !.requeue = x].due = j.due
         /\ [j EXCEPT !.requeue = x].pend = j.pend
         /\ [j EXCEPT !.roll = x].row = j.row /\ [j EXCEPT !.roll = x].due = j.due
         /\ [j EXCEPT !.roll = x].pend = j.pend
         /\ [j EXCEPT !.row = x].row = x /\ [j EXCEPT !.row = x].due = j.due
         /\ [j EXCEPT !.row = x].pend = j.pend
         /\ Onward(j).row = 0 /\ Onward(j).due = j.due /\ Onward(j).pend = {}
         /\ NoJob.row = 0 /\ NoJob.due = {} /\ NoJob.pend = {}
BY DEF Job, Onward, NoJob

\* The row a worker takes in hand is on the queue when it does; its clock is the
\* request's; its snapshot is of rows that were pending.
InHand(r, old) == r = 0 \/ r = old \/ r \in Present
Clock(d, old) == d = {} \/ d = old \/ d = due
Snap(p, old) == p \subseteq old \/ p \subseteq Pending
Held(j, old) == InHand(j.row, old.row) /\ Clock(j.due, old.due) /\ Snap(j.pend, old.pend)
Carries(w) == \E s, j : Goto(w, s, j) /\ Held(j, job[w])

LEMMA CarriesOn ==
  ASSUME TypeOK, NEW w \in Workers
  PROVE  /\ \A s : Goto(w, s, job[w]) => Carries(w)
         /\ \A s : Goto(w, s, Onward(job[w])) => Carries(w)
         /\ \A j : Finish(w, j) => Carries(w)
         /\ \A s, x : x \subseteq job[w].pend \/ x \subseteq Pending =>
                         (Goto(w, s, [job[w] EXCEPT !.pend = x]) => Carries(w))
         /\ \A s, x : Goto(w, s, [job[w] EXCEPT !.requeue = x]) => Carries(w)
         /\ \A s, x : Goto(w, s, [job[w] EXCEPT !.roll = x]) => Carries(w)
         /\ \A s, x : x \in Present /\ Goto(w, s, [job[w] EXCEPT !.row = x]) => Carries(w)
         /\ \A s, j : Held(j, job[w]) => (Goto(w, s, j) => Carries(w))
<1>1. job[w] \in Job
  BY JobType DEF TypeOK
<1>2. \A s, j : Held(j, job[w]) => (Goto(w, s, j) => Carries(w))
  BY DEF Carries
<1>3. \A j : j.row = 0 /\ j.due \in {{}, job[w].due, due} /\ j.pend \in {{}, job[w].pend} => Held(j, job[w])
  BY DEF Held, InHand, Clock, Snap
<1>4. \A j : Finish(w, j) => Carries(w)
  <2>1. \A j : /\ [NoJob EXCEPT !.amd = j.amd].row = 0 /\ NoJob.row = 0
               /\ [NoJob EXCEPT !.amd = j.amd].due = {} /\ NoJob.due = {}
               /\ [NoJob EXCEPT !.amd = j.amd].pend = {} /\ NoJob.pend = {}
    BY DEF NoJob
  <2>2. Held(NoJob, job[w])
    BY <1>3, <2>1
  <2>3. ASSUME NEW j PROVE Held([NoJob EXCEPT !.amd = j.amd], job[w])
    <3> DEFINE k == [NoJob EXCEPT !.amd = j.amd]
    <3>1. k.row = 0 /\ k.due = {} /\ k.pend = {}
      BY <2>1
    <3> HIDE DEF k
    <3>2. Held(k, job[w])
      BY <1>3, <3>1
    <3> QED
      BY <3>2 DEF k
  <2> QED
    BY <1>2, <2>2, <2>3, Zenon DEF Finish
<1>5. Held(job[w], job[w])
  BY DEF Held, InHand, Clock, Snap
<1>6. Held(Onward(job[w]), job[w])
  BY <1>1, EditsKeep DEF Held, InHand, Clock, Snap
<1>7. ASSUME NEW x, x \subseteq job[w].pend \/ x \subseteq Pending
      PROVE  Held([job[w] EXCEPT !.pend = x], job[w])
  <2> DEFINE k == [job[w] EXCEPT !.pend = x]
  <2>1. k.row = job[w].row /\ k.due = job[w].due /\ k.pend = x
    BY <1>1, EditsKeep
  <2> HIDE DEF k
  <2>2. Held(k, job[w])
    BY <1>7, <2>1 DEF Held, InHand, Clock, Snap
  <2> QED
    BY <2>2 DEF k
<1>8. ASSUME NEW x
      PROVE  Held([job[w] EXCEPT !.requeue = x], job[w]) /\ Held([job[w] EXCEPT !.roll = x], job[w])
  <2> DEFINE k == [job[w] EXCEPT !.requeue = x]
             l == [job[w] EXCEPT !.roll = x]
  <2>1. /\ k.row = job[w].row /\ k.due = job[w].due /\ k.pend = job[w].pend
        /\ l.row = job[w].row /\ l.due = job[w].due /\ l.pend = job[w].pend
    BY <1>1, EditsKeep
  <2> HIDE DEF k, l
  <2>2. Held(k, job[w]) /\ Held(l, job[w])
    BY <2>1 DEF Held, InHand, Clock, Snap
  <2> QED
    BY <2>2 DEF k, l
<1>9. ASSUME NEW x, x \in Present
      PROVE  Held([job[w] EXCEPT !.row = x], job[w])
  <2> DEFINE k == [job[w] EXCEPT !.row = x]
  <2>1. k.row = x /\ k.due = job[w].due /\ k.pend = job[w].pend
    BY <1>1, EditsKeep
  <2> HIDE DEF k
  <2>2. Held(k, job[w])
    BY <1>9, <2>1 DEF Held, InHand, Clock, Snap
  <2> QED
    BY <2>2 DEF k
<1> QED
  BY <1>2, <1>4, <1>5, <1>6, <1>7, <1>8, <1>9, Zenon

\* A job made afresh.
LEMMA FreshHeld ==
  ASSUME NEW old, NEW j, InHand(j.row, old.row), j.due = {} \/ j.due = due, j.pend = {}
  PROVE  Held(j, old)
BY DEF Held, Clock, Snap

LEMMA AdvanceCarries ==
  ASSUME TypeOK, NEW w \in Workers, Advance(w)
  PROVE  Carries(w)
<1>1. job[w] \in Job /\ NextItems(job[w]) \subseteq Rows
  BY JobType DEF TypeOK, Job, NextItems, Eligible
<1>2. CASE \/ ReadSession(w) \/ LoadQueue(w) \/ RunOut(w) \/ ReleaseAtEnd(w) \/ SetDone(w) \/ GateSkip(w)
           \/ Reload(w) \/ NoNumbers(w) \/ AfterRefusal(w) \/ OriginateFailed(w) \/ Stamp(w) \/ HangUp(w)
  <2>1. Pending \subseteq Pending /\ \A r : job[w].pend \ {r} \subseteq job[w].pend
    OBVIOUS
  <2> QED
    BY <1>2, <2>1, CarriesOn, Zenon DEF ReadSession, LoadQueue, RunOut, ReleaseAtEnd, SetDone, GateSkip,
       Reload, NoNumbers, AfterRefusal, OriginateFailed, Stamp, HangUp
<1>3. CASE Claim(w)
  <2>1. \A r \in Rows : Claimable(r) => r \in Present
    BY DEF Claimable, Present
  <2> QED
    BY <1>1, <1>3, <2>1, CarriesOn, Zenon DEF Claim
<1>4. CASE Originate(w)
  <2> DEFINE k == [NoJob EXCEPT !.row = job[w].row, !.amd = job[w].amd]
  <2>1. k.row = job[w].row /\ k.due = {} /\ k.pend = {}
    BY DEF NoJob
  <2>2. Goto(w, "stamp", k)
    BY <1>4, Zenon DEF Originate
  <2> HIDE DEF k
  <2>3. Held(k, job[w])
    BY <2>1, FreshHeld DEF InHand
  <2> QED
    BY <2>2, <2>3, CarriesOn, Zenon
<1>5. CASE OriginateRefused(w)
  <2> DEFINE j == [job[w] EXCEPT !.row = 0, !.refusals = @ + 1]
  <2> DEFINE k == [j EXCEPT !.pend = @ \ {job[w].row}]
  <2>1. Goto(w, "refusedLost", j) \/ Goto(w, "refused", k)
    BY <1>5, Zenon DEF OriginateRefused
  <2>2. /\ j.row = 0 /\ j.due = job[w].due /\ j.pend = job[w].pend
        /\ k.row = 0 /\ k.due = job[w].due /\ k.pend = job[w].pend \ {job[w].row}
    BY <1>1 DEF Job
  <2> HIDE DEF j, k
  <2>3. Held(j, job[w]) /\ Held(k, job[w])
    BY <2>2 DEF Held, InHand, Clock, Snap
  <2> QED
    BY <2>1, <2>3, CarriesOn, Zenon
<1>6. CASE AmdHangUp(w)
  <2>1. Held(NoJob, job[w])
    BY FreshHeld DEF NoJob, InHand
  <2> QED
    BY <1>6, <2>1, CarriesOn, Zenon DEF AmdHangUp
<1> QED
  BY <1>2, <1>3, <1>4, <1>5, <1>6 DEF Advance

LEMMA ButtonCarries ==
  ASSUME TypeOK, NEW w \in Workers, Buttons(w)
  PROVE  Carries(w)
<1>1. job[w] \in Job /\ InFlight \subseteq Present
  BY JobType DEF TypeOK, InFlight, Present
<1>2. CASE \/ SetPaused(w) \/ SetActive(w) \/ SettleCurrent(w) \/ ReleaseAtStop(w) \/ SetStopped(w)
           \/ CutIdle(w) \/ PauseToEnd(w) \/ EndRow(w) \/ RedialTx(w) \/ TakeCallbackTx(w)
  BY <1>2, CarriesOn, Zenon DEF SetPaused, SetActive, SettleCurrent, ReleaseAtStop, SetStopped,
     CutIdle, PauseToEnd, EndRow, RedialTx, TakeCallbackTx
<1>3. CASE FindDial(w)
  BY <1>1, <1>3, CarriesOn, Zenon DEF FindDial
<1> DEFINE Read(j) == Held([j EXCEPT !.due = due], job[w])
<1>5. \A s, j : Read(j) /\ Begin(w, s, j) => Carries(w)
  BY CarriesOn, Zenon DEF Begin
<1>6. /\ Read(NoJob)
      /\ \A r \in InFlight : Read([NoJob EXCEPT !.row = r])
      /\ \A r \in InFlight : Read([NoJob EXCEPT !.row = r, !.sid = sid[r]])
  <2>1. Read(NoJob)
    <3> DEFINE k == [NoJob EXCEPT !.due = due]
    <3>1. k.row = 0 /\ k.due = due /\ k.pend = {}
      BY DEF NoJob
    <3> HIDE DEF k
    <3>2. Held(k, job[w])
      BY <3>1, FreshHeld DEF InHand
    <3> QED
      BY <3>2 DEF k
  <2>2. ASSUME NEW r \in InFlight PROVE Read([NoJob EXCEPT !.row = r])
    <3> DEFINE k == [[NoJob EXCEPT !.row = r] EXCEPT !.due = due]
    <3>1. k.row = r /\ k.due = due /\ k.pend = {} /\ r \in Present
      BY <1>1 DEF NoJob
    <3> HIDE DEF k
    <3>2. Held(k, job[w])
      BY <3>1, FreshHeld DEF InHand
    <3> QED
      BY <3>2 DEF k
  <2>3. ASSUME NEW r \in InFlight PROVE Read([NoJob EXCEPT !.row = r, !.sid = sid[r]])
    <3> DEFINE k == [[NoJob EXCEPT !.row = r, !.sid = sid[r]] EXCEPT !.due = due]
    <3>1. k.row = r /\ k.due = due /\ k.pend = {} /\ r \in Present
      BY <1>1 DEF NoJob
    <3> HIDE DEF k
    <3>2. Held(k, job[w])
      BY <3>1, FreshHeld DEF InHand
    <3> QED
      BY <3>2 DEF k
  <2> QED
    BY <2>1, <2>2, <2>3
<1> HIDE DEF Read
<1>7. CASE \/ Start(w) \/ StartAgain(w) \/ Pause(w) \/ Resume(w) \/ Skip(w) \/ RepNext(w) \/ IdleCheck(w)
           \/ Redial(w) \/ Nudge(w)
  BY <1>5, <1>6, <1>7, Zenon DEF Start, StartAgain, Pause, Resume, Skip, RepNext, IdleCheck, Redial, Nudge
<1>8. CASE Stop(w)
  BY <1>5, <1>6, <1>8, Zenon DEF Stop
<1>9. CASE EndCall(w)
  BY <1>5, <1>6, <1>9, Zenon DEF EndCall
<1>10. CASE TakeCallback(w)
  BY <1>5, <1>6, <1>10, Zenon DEF TakeCallback
<1> QED
  BY <1>2, <1>3, <1>7, <1>8, <1>9, <1>10 DEF Buttons

LEMMA CallbackCarries ==
  ASSUME TypeOK, NEW w \in Workers, Callbacks(w)
  PROVE  Carries(w)
<1>1. job[w] \in Job
  BY JobType DEF TypeOK
<1>2. CASE \/ StampEnded(w) \/ ReadRun(w) \/ CutLate(w) \/ Connect(w) \/ LostConnect(w) \/ Bridge(w)
           \/ ReadHistory(w) \/ Miss(w)
  BY <1>2, CarriesOn, Zenon DEF StampEnded, ReadRun, CutLate, Connect, LostConnect, Bridge,
     ReadHistory, Miss, AfterMiss
<1>3. CASE Deliver(w)
  <2> DEFINE J(m) == [NoJob EXCEPT !.row = m.call, !.due = due, !.outcome = m.outcome,
                                   !.amd = IF m.outcome = "machine" THEN m.call ELSE 0]
  <2>1. PICK m \in msgs :
          \/ Finish(w, J(m))
          \/ Entry(m.call, m.outcome) # "return" /\ Goto(w, Entry(m.call, m.outcome), J(m))
    BY <1>3, Zenon DEF Deliver
  <2>2. J(m).row = m.call /\ J(m).due = due /\ J(m).pend = {} /\ m.call \in Rows
    BY DEF NoJob, TypeOK, TypePhones
  <2>3. Entry(m.call, m.outcome) # "return" => m.call \in Present
    <3>1. Entry(m.call, m.outcome) # "return" => st[m.call] \in {"connected", "skipped", "dialing"}
      BY DEF Entry, Talking
    <3> QED
      BY <2>2, <3>1 DEF Present
  <2> DEFINE k == J(m)
  <2>4. k.row = m.call /\ k.due = due /\ k.pend = {}
    BY <2>2
  <2>5. (Finish(w, k) \/ (Entry(m.call, m.outcome) # "return" /\ Goto(w, Entry(m.call, m.outcome), k)))
    BY <2>1, <2>2
  <2> HIDE DEF k, J
  <2>6. m.call \in Present => Held(k, job[w])
    BY <2>4, FreshHeld DEF InHand
  <2> QED
    BY <2>3, <2>5, <2>6, CarriesOn, Zenon
<1> QED
  BY <1>2, <1>3 DEF Callbacks

\* A worker's row after a step is none, the one it had, or one on the queue; so
\* are its clock and its snapshot.
LEMMA Hands ==
  ASSUME TypeOK, [Next]_vars, NEW v \in Workers
  PROVE  Held(job'[v], job[v])
<1>1. \A w \in Workers : Carries(w) => Held(job'[w], job[w]) /\ \A u \in Workers : u # w => Still(u)
  BY DEF Carries, Goto, TypeOK, TypeWorkers, Still
<1>2. Still(v) => Held(job'[v], job[v])
  BY DEF Still, Held, InHand, Clock, Snap
<1>3. \A w \in Workers : Crash(w) => Carries(w)
  <2>1. \A w \in Workers : Held(NoJob, job[w])
    BY FreshHeld DEF NoJob, InHand
  <2> QED
    BY <2>1, CarriesOn, Zenon DEF Crash
<1>4. LegLost \/ Phones \/ FloorPasses \/ UNCHANGED vars => Still(v)
  BY Zenon DEF LegLost, Phones, FloorPasses, vars, Still
<1> QED
  BY <1>1, <1>2, <1>3, <1>4, AdvanceCarries, ButtonCarries, CallbackCarries DEF Next

-----------------------------------------------------------------------------
(* Before Start, and FirstPassTotalFixed.                                  *)

\* Until Start the queue is as it was created: nothing was dialed, nothing was
\* copied, and the only handler that can be under way is a Stop.
Unstarted ==
  /\ \A r \in Rows : /\ st[r] \in {"absent", "pending", "unreachable"}
                     /\ st[r] = "absent" <=> r > N
                     /\ row[r] = IF r <= N
                          THEN [ord |-> r, person |-> r, attempt |-> 1, redial |-> FALSE, floor |-> FALSE]
                          ELSE NoRow
                     /\ dials[r] = 0 /\ call[r] = "none" /\ log[r] = "none"
                     /\ ~sid[r] /\ ~canceled[r]
  /\ msgs = {} /\ due = {} /\ rolled = {}
  /\ \A w \in Workers : pc[w] \in {"idle", "setStopped"} /\ job[w].row = 0 /\ job[w].amd = 0 /\ job[w].due = {}
ReadyInv == session = "ready" => Unstarted

LEMMA ReadyStep ==
  ASSUME TypeOK, ReadyInv, [Next]_vars
  PROVE  ReadyInv'
<1> SUFFICES ASSUME session' = "ready" PROVE Unstarted'
  BY DEF ReadyInv
<1>1. \A w \in Workers : ~Start(w)
  BY DEF Start
<1>2. session = "ready"
  BY <1>1, Opened
<1>3. Unstarted
  BY <1>2 DEF ReadyInv
<1>4. \A w \in Workers : pc[w] = "idle" \/ pc[w] = "setStopped"
  BY <1>3 DEF Unstarted
<1>5. InFlight = {} /\ \A r \in Rows : ~row[r].floor
  <2>1. InFlight = {}
    BY <1>3 DEF Unstarted, InFlight
  <2>2. ASSUME NEW r \in Rows PROVE ~row[r].floor
    <3>1. row[r] = NoRow \/ row[r] = [ord |-> r, person |-> r, attempt |-> 1, redial |-> FALSE, floor |-> FALSE]
      BY <1>3 DEF Unstarted
    <3> QED
      BY <3>1 DEF NoRow
  <2> QED
    BY <2>1, <2>2
<1>6. ASSUME NEW w \in Workers, Advance(w) PROVE FALSE
  <2>1. CASE \/ ReadSession(w) \/ LoadQueue(w) \/ RunOut(w) \/ ReleaseAtEnd(w) \/ SetDone(w) \/ GateSkip(w)
             \/ Reload(w) \/ NoNumbers(w)
    BY <1>4, <2>1, SMT DEF ReadSession, LoadQueue, RunOut, ReleaseAtEnd, SetDone, GateSkip, Reload, NoNumbers
  <2>2. CASE \/ Claim(w) \/ Originate(w) \/ OriginateRefused(w) \/ OriginateFailed(w) \/ Stamp(w)
    BY <1>4, <2>2, Zenon DEF Claim, Originate, OriginateRefused, OriginateFailed, Stamp
  <2>3. CASE AfterRefusal(w) \/ HangUp(w) \/ AmdHangUp(w)
    BY <1>4, <2>3 DEF AfterRefusal, HangUp, AmdHangUp
  <2> QED
    BY <1>6, <2>1, <2>2, <2>3 DEF Advance
<1>7. ASSUME NEW w \in Workers, Callbacks(w) PROVE FALSE
  <2>1. ~\E m \in msgs : TRUE
    BY <1>3 DEF Unstarted
  <2> QED
    BY <1>4, <1>7, <2>1, Zenon DEF Callbacks, Deliver, StampEnded, ReadRun, CutLate, Connect, LostConnect,
       Bridge, ReadHistory, Miss
<1>8. ASSUME NEW w \in Workers, Buttons(w) PROVE Begin(w, "setStopped", NoJob) /\ Stop(w)
  <2>1. session # "active" /\ session # "paused" /\ session \notin Live /\ session' # "stopped"
    BY <1>2 DEF Live
  <2>2. ~\E r \in InFlight : TRUE
    BY <1>5
  <2>3. Stop(w)
    BY <1>1, <1>4, <1>8, <2>1, <2>2, Zenon DEF Buttons, Start, StartAgain, Pause, SetPaused, Resume, SetActive,
       Skip, RepNext, SettleCurrent, Stop, ReleaseAtStop, SetStopped, IdleCheck, CutIdle, FindDial, EndCall,
       PauseToEnd, EndRow, Redial, RedialTx, TakeCallback, TakeCallbackTx, Nudge
  <2> QED
    BY <2>1, <2>2, <2>3, Zenon DEF Stop
<1> DEFINE Rest == UNCHANGED <<queueVars, phoneVars, runVars, log, rolled, due>>
           Moves(w, s) == /\ pc' = [pc EXCEPT ![w] = s] /\ job' = [job EXCEPT ![w] = NoJob]
<1>9. \/ Rest /\ UNCHANGED <<pc, job>>
      \/ \E w \in Workers : Rest /\ (Moves(w, "idle") \/ Moves(w, "setStopped"))
  <2>1. ASSUME NEW w \in Workers, Buttons(w) PROVE Rest /\ Moves(w, "setStopped")
    <3>1. due = NoJob.due
      BY <1>3 DEF Unstarted, NoJob
    <3>2. [NoJob EXCEPT !.due = due] = NoJob
      BY <3>1 DEF NoJob
    <3>3. Goto(w, "setStopped", NoJob)
      BY <2>1, <1>8, <3>2 DEF Begin
    <3> QED
      BY <2>1, <3>3, <1>8 DEF Stop, Goto
  <2>2. ASSUME NEW w \in Workers, Crash(w) PROVE Rest /\ Moves(w, "idle")
    BY <2>2 DEF Crash, Goto
  <2>3. CASE LegLost
    BY <1>2, <2>3 DEF LegLost
  <2>4. CASE Phones
    BY <1>3, <2>4 DEF Phones, PersonAnswers, MachineAnswers, CallEnds, Unstarted
  <2>5. CASE FloorPasses
    BY <1>5, <2>5 DEF FloorPasses
  <2>6. CASE UNCHANGED vars
    BY <2>6, Zenon DEF vars, queueVars, phoneVars, runVars
  <2> QED
    BY <1>6, <1>7, <2>1, <2>2, <2>3, <2>4, <2>5, <2>6 DEF Next
<1>10. NoJob.row = 0 /\ NoJob.amd = 0 /\ NoJob.due = {}
  BY DEF NoJob
<1>11. \A v \in Workers : pc'[v] \in {"idle", "setStopped"} /\ job'[v].row = 0 /\ job'[v].amd = 0 /\ job'[v].due = {}
  BY <1>3, <1>9, <1>10 DEF Unstarted, TypeOK, TypeWorkers
<1>12. Rest
  BY <1>9
<1> QED
  BY <1>3, <1>11, <1>12 DEF Unstarted, queueVars, phoneVars, runVars

\* A worker's row is on the queue: it was not trimmed when the run was cut to
\* its size, for nobody held a row then.
WorkRows == \A w \in Workers : job[w].row # 0 => job[w].row \in Present

\* Only Start trims, so what is on the queue stays on it.
LEMMA StaysPresent ==
  ASSUME TypeOK, [Next]_vars, \A w \in Workers : ~Start(w)
  PROVE  Present \subseteq Present'
<1>1. \A r \in Rows : st[r] # "absent" => st'[r] # "absent"
  BY AdvanceMoves, ButtonMoves, CallbackMoves, EnvironmentMoves DEF Next, RowMove
<1>2. ASSUME NEW w \in Workers, Writes(w), NEW r \in Rows, st'[r] = "trimmed"
      PROVE  st[r] = "trimmed"
  <2>1. /\ pc[w] \in RowSteps => job[w].row \in Rows
        /\ NextItems(job[w]) \subseteq Rows /\ st \in [Rows -> ItemStatus]
    BY JobType DEF TypeOK, TypeQueue, NextItems, Eligible, Job
  <2>2. CASE GateSkip(w) \/ Claim(w)
    BY <1>2, <2>1, <2>2 DEF GateSkip, Claim
  <2>3. CASE OriginateRefused(w) \/ OriginateFailed(w)
    BY <1>2, <2>1, <2>3 DEF OriginateRefused, OriginateFailed, RolledBack
  <2>4. CASE SettleCurrent(w) \/ EndRow(w) \/ CutLate(w) \/ Connect(w)
    BY <1>2, <2>1, <2>4 DEF SettleCurrent, EndRow, CutLate, Connect
  <2>5. CASE RedialTx(w) \/ TakeCallbackTx(w) \/ Miss(w)
    <3>1. Requeues(job[w].row)
      BY <2>5, RequeueTxWrites
    <3> QED
      BY <1>2, <2>1, <3>1 DEF Requeues, Closed
  <2> QED
    BY <1>2, <2>2, <2>3, <2>4, <2>5 DEF Writes
<1>3. \A r \in Rows : st'[r] = "trimmed" => st[r] = "trimmed"
  BY <1>2, Reads
<1> QED
  BY <1>1, <1>3 DEF Present

LEMMA WorkRowsStep ==
  ASSUME TypeOK, ReadyInv, WorkRows, [Next]_vars
  PROVE  WorkRows'
<1>1. CASE \A w \in Workers : ~Start(w)
  BY <1>1, StaysPresent, Hands DEF WorkRows, Held, InHand
<1>2. ASSUME NEW w \in Workers, Start(w) PROVE WorkRows'
  <2>1. \A v \in Workers : job[v].row = 0
    BY <1>2 DEF Start, ReadyInv, Unstarted
  <2>2. \A v \in Workers : job'[v].row = 0
    <3> DEFINE k == [NoJob EXCEPT !.due = due]
    <3>1. k.row = 0
      BY DEF NoJob
    <3>2. Goto(w, "advance", k)
      BY <1>2 DEF Start, Begin
    <3> HIDE DEF k
    <3> QED
      BY <2>1, <3>1, <3>2 DEF Goto, TypeOK, TypeWorkers
  <2> QED
    BY <2>2 DEF WorkRows
<1> QED
  BY <1>1, <1>2

LEMMA ReadyHolds == Spec => [](ReadyInv /\ WorkRows)
<1>1. Init => ReadyInv /\ WorkRows
  BY DEF Init, ReadyInv, Unstarted, WorkRows, NoJob
<1>2. TypeOK /\ ReadyInv /\ WorkRows /\ [Next]_vars => (ReadyInv /\ WorkRows)'
  BY ReadyStep, WorkRowsStep
<1> QED
  BY <1>1, <1>2, TypeCorrect, PTL DEF Spec

\* The ordinals of the first pass.
FirstPass == {row[r].ord : r \in {q \in Present : row[q].attempt = 1 /\ ~row[q].redial}}

LEMMA FirstPassKept ==
  ASSUME TypeOK, WorkRows, [Next]_vars, \A w \in Workers : ~Start(w)
  PROVE  FirstPass' = FirstPass
<1>1. ASSUME row' = row, Present' = Present PROVE FirstPass' = FirstPass
  BY <1>1 DEF FirstPass
<1>2. CASE \A w \in Workers : ~Writes(w)
  <2>1. UNCHANGED <<st, row>>
    BY <1>2, Reads
  <2> QED
    BY <1>1, <2>1 DEF Present
<1>3. ASSUME NEW w \in Workers, Writes(w) PROVE FirstPass' = FirstPass
  <2>1. /\ pc[w] \in RowSteps => job[w].row \in Rows /\ job[w].row \in Present
        /\ NextItems(job[w]) \subseteq Rows /\ st \in [Rows -> ItemStatus]
    BY JobType DEF TypeOK, TypeQueue, NextItems, Eligible, Job, WorkRows
  <2>2. CASE GateSkip(w) \/ Claim(w)
    <3>1. row' = row /\ Present' = Present
      BY <2>1, <2>2 DEF GateSkip, Claim, Claimable, Present
    <3> QED
      BY <1>1, <3>1
  <2>3. CASE OriginateRefused(w) \/ OriginateFailed(w)
    <3>1. row' = row /\ Present' = Present
      BY <2>1, <2>3 DEF OriginateRefused, OriginateFailed, RolledBack, Present, RowSteps
    <3> QED
      BY <1>1, <3>1
  <2>4. CASE SettleCurrent(w) \/ EndRow(w) \/ CutLate(w) \/ Connect(w)
    <3>1. row' = row /\ Present' = Present
      BY <2>1, <2>4 DEF SettleCurrent, EndRow, CutLate, Connect, Present, RowSteps
    <3> QED
      BY <1>1, <3>1
  <2>5. CASE RedialTx(w) \/ TakeCallbackTx(w) \/ Miss(w)
    <3>1. Requeues(job[w].row)
      BY <2>5, RequeueTxWrites
    <3> DEFINE r == job[w].row
    <3>2. CASE st' = st /\ row' = row
      BY <1>1, <3>2 DEF Present
    <3>3. CASE \E s \in Closed : r \in Rows /\ st[r] = "dialing" /\ st' = [st EXCEPT ![r] = s] /\ row' = row
      <4>1. Present' = Present
        BY <2>1, <3>3 DEF Closed, Present
      <4> QED
        BY <1>1, <3>3, <4>1
    <3>4. ASSUME NEW q \in Rows, NEW s \in Closed, r \in Rows, st[r] \in {"dialing", "connected"},
                 NEW c, Insert(q, c), c = RedialCopy(r) \/ c = CallbackCopy(r) \/ c = RetryCopy(r),
                 st' = [st EXCEPT ![r] = s, ![q] = "pending"]
          PROVE  FirstPass' = FirstPass
      <4>1. st[q] = "absent" /\ row' = [row EXCEPT ![q] = c] /\ row \in [Rows -> Row] /\ row[r] \in Row
        BY <3>4 DEF Insert, FreshRow, TypeOK, TypeQueue
      <4>2. r \in Present /\ q \notin Present /\ q # r /\ Present' = Present \cup {q}
        BY <2>1, <3>4, <4>1 DEF Present, Closed
      <4>3. c.attempt = 1 /\ ~c.redial => c.ord = row[r].ord /\ row[r].attempt = 1 /\ ~row[r].redial
        <5>1. RedialCopy(r).redial
          BY <4>1 DEF RedialCopy, Row
        <5>2. RetryCopy(r).attempt = 2
          BY <4>1 DEF RetryCopy, Row
        <5>3. /\ CallbackCopy(r).ord = row[r].ord /\ CallbackCopy(r).attempt = row[r].attempt
              /\ CallbackCopy(r).redial = row[r].redial
          BY <4>1 DEF CallbackCopy, Row
        <5> QED
          BY <3>4, <5>1, <5>2, <5>3
      <4>4. row'[q] = c /\ \A p \in Present : row'[p] = row[p] /\ p \in Rows
        BY <4>1, <4>2 DEF Present
      <4>5. ASSUME NEW o \in FirstPass PROVE o \in FirstPass'
        BY <4>5, <4>2, <4>4 DEF FirstPass
      <4>6. ASSUME NEW o \in FirstPass' PROVE o \in FirstPass
        <5>1. PICK p \in Present' : o = row'[p].ord /\ row'[p].attempt = 1 /\ ~row'[p].redial
          BY <4>6 DEF FirstPass
        <5> QED
          BY <5>1, <4>2, <4>3, <4>4 DEF FirstPass
      <4> QED
        BY <4>5, <4>6
    <3> QED
      BY <3>1, <3>2, <3>3, <3>4, Zenon DEF Requeues
  <2> QED
    BY <1>3, <2>2, <2>3, <2>4, <2>5 DEF Writes
<1> QED
  BY <1>2, <1>3

\* Once a run has started, no retry, redial or callback copy moves its first
\* pass total (routes/dialer.ts firstPassTotal): a retry is a second attempt, a
\* redial is marked, and a callback's copy stands at its row's own ordinal.
THEOREM FirstPassTotalStays == Spec => FirstPassTotalFixed
<1>1. TypeOK /\ WorkRows /\ [Next]_vars => [session # "ready" => FirstPassTotal' = FirstPassTotal]_vars
  <2> SUFFICES ASSUME TypeOK, WorkRows, [Next]_vars, session # "ready"
               PROVE  FirstPassTotal' = FirstPassTotal
    OBVIOUS
  <2>1. \A w \in Workers : ~Start(w)
    BY DEF Start
  <2>2. FirstPass' = FirstPass
    BY <2>1, FirstPassKept
  <2> QED
    BY <2>2 DEF FirstPassTotal, FirstPass
<1> QED
  BY <1>1, TypeCorrect, ReadyHolds, PTL DEF Spec, FirstPassTotalFixed

-----------------------------------------------------------------------------
(* Which step brings a row to a status, a mark, or the table.              *)

\* The transactions that may queue a person again.
Requeuing(w) == RedialTx(w) \/ TakeCallbackTx(w) \/ Miss(w)

\* A row becomes connected by the swap, dialing by the claim, pending by the
\* rollback of its dial or by being inserted.
Reaches(r) ==
  /\ st'[r] = "connected" => \/ st[r] = "connected"
                             \/ \E w \in Workers : Connect(w) /\ job[w].row = r /\ st[r] = "dialing"
  /\ st'[r] = "dialing" => \/ st[r] = "dialing"
                           \/ \E w \in Workers : Claim(w) /\ st[r] = "pending"
  /\ st'[r] = "pending" => \/ st[r] = "pending"
                           \/ \E w \in Workers : OriginateFailed(w) /\ job[w].row = r /\ st[r] = "dialing"
                           \/ st[r] = "absent" /\ \E w \in Workers : Requeuing(w)
  /\ st'[r] = "absent" => st[r] = "absent"

LEMMA RowReaches ==
  ASSUME TypeOK, [Next]_vars, NEW r \in Rows
  PROVE  Reaches(r)
<1>1. CASE \A w \in Workers : ~Writes(w)
  <2>1. st' = st
    BY <1>1, Reads
  <2> QED
    BY <2>1 DEF Reaches
<1>2. ASSUME NEW w \in Workers, Writes(w) PROVE Reaches(r)
  <2>1. /\ pc[w] \in RowSteps => job[w].row \in Rows /\ st[job[w].row] # "absent"
        /\ NextItems(job[w]) \subseteq Rows /\ st \in [Rows -> ItemStatus]
    BY JobType DEF TypeOK, TypeQueue, NextItems, Eligible, Job
  <2>2. CASE GateSkip(w)
    BY <2>1, <2>2 DEF GateSkip, Reaches
  <2>3. CASE Claim(w)
    <3>1. st' = st \/ \E q \in Rows : st[q] = "pending" /\ st' = [st EXCEPT ![q] = "dialing"]
      BY <2>1, <2>3 DEF Claim, Claimable
    <3> QED
      BY <2>1, <2>3, <3>1 DEF Reaches
  <2>4. CASE OriginateRefused(w)
    BY <2>1, <2>4 DEF OriginateRefused, Reaches
  <2>5. CASE OriginateFailed(w)
    <3>1. \/ st' = st
          \/ st[job[w].row] = "dialing" /\ st' = [st EXCEPT ![job[w].row] = "pending"] /\ job[w].row \in Rows
      BY <2>1, <2>5 DEF OriginateFailed, RolledBack, RowSteps
    <3> QED
      BY <2>1, <2>5, <3>1 DEF Reaches
  <2>6. CASE SettleCurrent(w) \/ EndRow(w) \/ CutLate(w)
    <3>1. st' = st \/ \E s \in Settled : st' = [st EXCEPT ![job[w].row] = s] /\ job[w].row \in Rows
      BY <2>1, <2>6 DEF SettleCurrent, EndRow, CutLate, RowSteps, Settled
    <3> QED
      BY <2>1, <3>1 DEF Reaches, Settled
  <2>7. CASE Connect(w)
    <3>1. \/ st' = st
          \/ st[job[w].row] = "dialing" /\ st' = [st EXCEPT ![job[w].row] = "connected"] /\ job[w].row \in Rows
      BY <2>1, <2>7 DEF Connect, RowSteps
    <3> QED
      BY <2>1, <2>7, <3>1 DEF Reaches
  <2>8. CASE RedialTx(w) \/ TakeCallbackTx(w) \/ Miss(w)
    <3>1. Requeues(job[w].row)
      BY <2>8, RequeueTxWrites
    <3>2. \/ st' = st
          \/ \E s \in Closed : job[w].row \in Rows /\ st' = [st EXCEPT ![job[w].row] = s]
          \/ \E s \in Closed, q \in Rows : /\ job[w].row \in Rows /\ st[q] = "absent"
                                           /\ st' = [st EXCEPT ![job[w].row] = s, ![q] = "pending"]
      BY <3>1, Zenon DEF Requeues, Insert, FreshRow
    <3>3. CASE \/ st' = st
               \/ \E s \in Closed : job[w].row \in Rows /\ st' = [st EXCEPT ![job[w].row] = s]
      BY <2>1, <3>3 DEF Reaches, Closed
    <3>4. ASSUME NEW s \in Closed, NEW q \in Rows, job[w].row \in Rows, st[q] = "absent",
                 st' = [st EXCEPT ![job[w].row] = s, ![q] = "pending"]
          PROVE  Reaches(r)
      BY <2>1, <2>8, <3>4 DEF Reaches, Closed, Requeuing
    <3> QED
      BY <3>2, <3>3, <3>4
  <2>9. CASE Start(w)
    BY <2>1, <2>9 DEF Start, Reaches
  <2> QED
    BY <1>2, <2>2, <2>3, <2>4, <2>5, <2>6, <2>7, <2>8, <2>9 DEF Writes
<1> QED
  BY <1>1, <1>2

\* Only the stamp and the swap write callId and the attempt's outcome.
LEMMA Marks ==
  ASSUME [Next]_vars
  PROVE  /\ (\A w \in Workers : ~Stamp(w)) => sid' = sid
         /\ (\A w \in Workers : ~Stamp(w) /\ ~Connect(w)) => log' = log
         /\ due' = due \/ FloorPasses
         /\ dials' = dials \/ \E w \in Workers : Originate(w)
<1> DEFINE P == /\ (\A w \in Workers : ~Stamp(w)) => sid' = sid
                /\ (\A w \in Workers : ~Stamp(w) /\ ~Connect(w)) => log' = log
                /\ due' = due \/ FloorPasses
                /\ dials' = dials \/ \E w \in Workers : Originate(w)
           Same == UNCHANGED <<sid, log, due, dials>>
<1>1. ASSUME NEW w \in Workers, Advance(w) PROVE Same \/ (Stamp(w) /\ UNCHANGED <<due, dials>>) \/ (Originate(w) /\ UNCHANGED <<sid, log, due>>)
  BY <1>1, Zenon DEF Advance, ReadSession, LoadQueue, RunOut, ReleaseAtEnd, SetDone, GateSkip, Reload,
     NoNumbers, Claim, Originate, OriginateRefused, AfterRefusal, OriginateFailed, Stamp, HangUp, AmdHangUp,
     queueVars, phoneVars
<1>2. ASSUME NEW w \in Workers, Buttons(w) PROVE Same
  BY <1>2, Zenon DEF Buttons, Start, StartAgain, Pause, SetPaused, Resume, SetActive, Skip, RepNext, SettleCurrent,
     Stop, ReleaseAtStop, SetStopped, IdleCheck, CutIdle, FindDial, EndCall, PauseToEnd, EndRow,
     Redial, RedialTx, TakeCallback, TakeCallbackTx, Nudge, queueVars, phoneVars
<1>3. ASSUME NEW w \in Workers, Callbacks(w) PROVE Same \/ (Connect(w) /\ UNCHANGED <<sid, due, dials>>)
  BY <1>3, Zenon DEF Callbacks, Deliver, StampEnded, ReadRun, CutLate, Connect, LostConnect, Bridge,
     ReadHistory, Miss, queueVars, phoneVars
<1>4. CASE LegLost \/ Phones \/ FloorPasses \/ (\E w \in Workers : Crash(w)) \/ UNCHANGED vars
  <2>1. UNCHANGED <<sid, log, dials>> /\ (due' = due \/ FloorPasses)
    BY <1>4, Zenon DEF LegLost, Phones, FloorPasses, Crash, vars, queueVars, phoneVars
  <2> QED
    BY <2>1
<1>5. Same => P
  OBVIOUS
<1> QED
  BY <1>1, <1>2, <1>3, <1>4, <1>5 DEF Next

\* A row that rang has rung.
LEMMA Rings ==
  ASSUME TypeOK, [Next]_vars, NEW r \in Rows, dials[r] # 0
  PROVE  dials'[r] # 0
<1>1. CASE dials' = dials
  BY <1>1
<1>2. ASSUME NEW w \in Workers, Originate(w) PROVE dials'[r] # 0
  <2>1. job[w].row \in Rows /\ dials' = [dials EXCEPT ![job[w].row] = @ + 1]
    BY <1>2, JobType DEF Originate, RowSteps, TypeOK
  <2> QED
    BY <2>1 DEF TypeOK, TypePhones
<1> QED
  BY <1>1, <1>2, Marks

\* What is past the call: a row whose callId or attempt is stamped, or that is
\* connected, rang; and so did the row of a worker past Originate.
PastCall == {"stamp", "readRun", "cutLate", "connect", "history", "miss"}
RangInv ==
  /\ \A r \in Rows : sid[r] \/ st[r] = "connected" \/ log[r] # "none" => dials[r] # 0
  /\ \A w \in Workers : pc[w] \in PastCall => dials[job[w].row] # 0

LEMMA KeepsJobRow ==
  ASSUME TypeOK, NEW w \in Workers, ReadRun(w) \/ ReadHistory(w) \/ Connect(w) \/ Originate(w)
  PROVE  /\ job'[w].row = job[w].row /\ job[w].row \in Rows
         /\ Originate(w) => pc[w] = "originate" /\ pc'[w] = "stamp"
         /\ ReadRun(w) => pc[w] = "readRun"
         /\ ReadHistory(w) => pc[w] = "history"
         /\ Connect(w) => pc[w] = "connect"
<1>1. job[w] \in Job /\ job[w].row \in Rows
  BY JobType DEF TypeOK, ReadRun, ReadHistory, Connect, Originate, RowSteps
<1>2. \E s, j : Goto(w, s, j) /\ j.row = job[w].row
  <2>1. CASE ReadRun(w)
    <3> DEFINE k == [job[w] EXCEPT !.requeue = Requeue(job[w].row)]
    <3>1. \E s : Goto(w, s, job[w]) \/ Goto(w, s, k)
      BY <2>1, Zenon DEF ReadRun
    <3>2. k.row = job[w].row
      BY <1>1, EditsKeep
    <3> HIDE DEF k
    <3> QED
      BY <3>1, <3>2, Zenon
  <2>2. CASE ReadHistory(w)
    <3> DEFINE k == [job[w] EXCEPT !.roll = RolloverDue(row[job[w].row].person)]
    <3>1. \E s : Goto(w, s, job[w]) \/ Goto(w, s, k)
      BY <2>2, Zenon DEF ReadHistory
    <3>2. k.row = job[w].row
      BY <1>1, EditsKeep
    <3> HIDE DEF k
    <3> QED
      BY <3>1, <3>2, Zenon
  <2>3. CASE Connect(w)
    BY <2>3, Zenon DEF Connect
  <2>4. CASE Originate(w)
    <3> DEFINE k == [NoJob EXCEPT !.row = job[w].row, !.amd = job[w].amd]
    <3>1. k.row = job[w].row
      BY DEF NoJob
    <3> QED
      BY <2>4, <3>1, Zenon DEF Originate
  <2> QED
    BY <2>1, <2>2, <2>3, <2>4
<1>3. job'[w].row = job[w].row
  BY <1>2 DEF Goto, TypeOK, TypeWorkers
<1>4. Originate(w) => pc'[w] = "stamp"
  <2>1. Originate(w) => \E j : Goto(w, "stamp", j)
    BY Zenon DEF Originate
  <2> QED
    BY <2>1 DEF Goto, TypeOK, TypeWorkers
<1> QED
  BY <1>1, <1>3, <1>4 DEF ReadRun, ReadHistory, Connect, Originate

\* A callback that goes on to the run has found its row dialing, with its callId.
LEMMA DeliverFinds ==
  ASSUME TypeOK, NEW w \in Workers, Deliver(w)
  PROVE  /\ pc'[w] = "readRun" => /\ job'[w].row \in Rows /\ sid[job'[w].row]
                                  /\ st[job'[w].row] = "dialing"
         /\ pc'[w] \in {"idle", "amdHangUp", "stampEnded", "hangUp", "readRun"}
         /\ pc'[w] = "stampEnded" => job'[w].row \in Rows /\ st[job'[w].row] = "connected"
<1> DEFINE J(m) == [NoJob EXCEPT !.row = m.call, !.due = due, !.outcome = m.outcome,
                                 !.amd = IF m.outcome = "machine" THEN m.call ELSE 0]
<1>1. PICK m \in msgs :
        \/ Finish(w, J(m))
        \/ Entry(m.call, m.outcome) # "return" /\ Goto(w, Entry(m.call, m.outcome), J(m))
  BY Zenon DEF Deliver
<1>2. J(m).row = m.call /\ m.call \in Rows
  BY DEF NoJob, TypeOK, TypePhones
<1>3. /\ Entry(m.call, m.outcome) = "readRun" => sid[m.call] /\ st[m.call] = "dialing"
      /\ Entry(m.call, m.outcome) = "stampEnded" => st[m.call] = "connected"
      /\ Entry(m.call, m.outcome) \in {"stampEnded", "hangUp", "readRun", "return"}
  BY DEF Entry, Talking
<1> HIDE DEF J
<1>4. CASE Finish(w, J(m))
  <2>1. pc'[w] \in {"idle", "amdHangUp"}
    BY <1>4 DEF Finish, Goto, TypeOK, TypeWorkers
  <2> QED
    BY <2>1
<1>5. CASE Entry(m.call, m.outcome) # "return" /\ Goto(w, Entry(m.call, m.outcome), J(m))
  <2>1. pc'[w] = Entry(m.call, m.outcome) /\ job'[w] = J(m) /\ Entry(m.call, m.outcome) # "return"
    BY <1>5 DEF Goto, TypeOK, TypeWorkers
  <2> QED
    BY <1>2, <1>3, <2>1
<1> QED
  BY <1>1, <1>4, <1>5

LEMMA RangStep ==
  ASSUME TypeOK, RangInv, [Next]_vars
  PROVE  RangInv'
<1>1. ASSUME NEW r \in Rows, sid'[r] \/ st'[r] = "connected" \/ log'[r] # "none"
      PROVE  dials'[r] # 0
  <2>1. CASE sid[r] \/ st[r] = "connected" \/ log[r] # "none"
    BY <2>1, Rings DEF RangInv
  <2>2. CASE st'[r] = "connected" /\ st[r] # "connected"
    <3>1. PICK w \in Workers : Connect(w) /\ job[w].row = r
      BY <2>2, RowReaches DEF Reaches
    <3>2. dials[r] # 0
      BY <3>1 DEF RangInv, Connect, PastCall
    <3> QED
      BY <3>2, Rings
  <2>3. CASE ~sid[r] /\ log[r] = "none" /\ ~(st'[r] = "connected")
    <3>1. CASE \A w \in Workers : ~Stamp(w) /\ ~Connect(w)
      <4>1. sid' = sid /\ log' = log
        BY <3>1, Marks
      <4> QED
        BY <1>1, <2>3, <4>1
    <3>2. ASSUME NEW w \in Workers, Stamp(w) PROVE dials'[r] # 0
      <4>1. /\ sid' = [sid EXCEPT ![job[w].row] = Stamped(job[w].row)]
            /\ log' = [log EXCEPT ![job[w].row] = "dialed"]
        BY <3>2, Zenon DEF Stamp
      <4>2. r = job[w].row
        <5> SUFFICES ASSUME r # job[w].row PROVE FALSE
          OBVIOUS
        <5>1. sid'[r] = sid[r] /\ log'[r] = log[r]
          BY <4>1 DEF TypeOK, TypeQueue
        <5> QED
          BY <1>1, <2>3, <5>1
      <4>3. dials[r] # 0
        BY <3>2, <4>2 DEF RangInv, Stamp, PastCall
      <4> QED
        BY <4>3, Rings
    <3>3. ASSUME NEW w \in Workers, Connect(w) PROVE dials'[r] # 0
      <4>1. log' = log \/ log' = [log EXCEPT ![job[w].row] = "connected"]
        BY <3>3, Zenon DEF Connect
      <4>2. sid' = sid
        BY <3>3 DEF Connect
      <4>3. r = job[w].row
        <5> SUFFICES ASSUME r # job[w].row PROVE FALSE
          OBVIOUS
        <5>1. log'[r] = log[r]
          BY <4>1 DEF TypeOK, TypeQueue
        <5> QED
          BY <1>1, <2>3, <4>2, <5>1
      <4>4. dials[r] # 0
        BY <3>3, <4>3 DEF RangInv, Connect, PastCall
      <4> QED
        BY <4>4, Rings
    <3> QED
      BY <3>1, <3>2, <3>3
  <2> QED
    BY <2>1, <2>2, <2>3
<1>2. ASSUME NEW v \in Workers, pc'[v] \in PastCall PROVE dials'[job'[v].row] # 0
  <2>1. job[v] \in Job /\ (pc[v] \in RowSteps => job[v].row \in Rows)
    BY JobType DEF TypeOK
  <2>2. CASE Still(v)
    BY <1>2, <2>1, <2>2, Rings DEF Still, RangInv, PastCall, RowSteps
  <2>3. CASE ~Still(v)
    <3>1. Via(v, pc'[v])
      BY <2>3, Arrivals
    <3>2. CASE Originate(v)
      <4>1. job[v].row \in Rows /\ dials' = [dials EXCEPT ![job[v].row] = @ + 1] /\ job'[v].row = job[v].row
        BY <3>2, KeepsJobRow DEF Originate
      <4> QED
        BY <4>1 DEF TypeOK, TypePhones
    <3>3. CASE Deliver(v)
      <4>1. pc'[v] = "readRun"
        BY <1>2, <3>3, DeliverFinds DEF PastCall
      <4> QED
        BY <3>3, <4>1, DeliverFinds, Rings DEF RangInv
    <3>4. CASE ReadRun(v) \/ ReadHistory(v)
      <4>1. job'[v].row = job[v].row /\ job[v].row \in Rows /\ pc[v] \in PastCall
        BY <3>4, KeepsJobRow DEF PastCall
      <4> QED
        BY <4>1, Rings DEF RangInv
    <3> QED
      BY <1>2, <3>1, <3>2, <3>3, <3>4 DEF Via, PastCall
  <2> QED
    BY <2>2, <2>3
<1> QED
  BY <1>1, <1>2 DEF RangInv

LEMMA RangHolds == Spec => []RangInv
<1>1. Init => RangInv
  BY DEF Init, RangInv, PastCall
<1>2. TypeOK /\ RangInv /\ [Next]_vars => RangInv'
  BY RangStep
<1> QED
  BY <1>1, <1>2, TypeCorrect, PTL DEF Spec

-----------------------------------------------------------------------------
(* The table and the floors.                                               *)

\* A set of rows past their floors: floors pass in the order rows are inserted.
FloorsInOrder(S) ==
  \A r \in S : st[r] # "absent" /\ \A q \in Rows : q < r /\ row[q].floor => q \in S
TableInv ==
  /\ \A r \in Rows : st[r] = "absent" => row[r] = NoRow
  /\ FloorsInOrder(due)
  /\ \A w \in Workers : FloorsInOrder(job[w].due) /\ job[w].due \subseteq due
  /\ \A w \in Workers : \A r \in job[w].pend : st[r] # "absent"

\* The columns of a row are written once, as it is inserted.
Uninserted == row' = row /\ \A r \in Rows : st[r] = "absent" => st'[r] = "absent"
Inserts(w, q) ==
  /\ Requeuing(w) /\ q \in Rows /\ FreshRow(q) /\ st'[q] = "pending"
  /\ \E c : row' = [row EXCEPT ![q] = c]

LEMMA RowsInserted ==
  ASSUME TypeOK, [Next]_vars
  PROVE  Uninserted \/ \E w \in Workers, q \in Rows : Inserts(w, q)
<1>1. CASE \A w \in Workers : ~Writes(w)
  BY <1>1, Reads DEF Uninserted
<1>2. ASSUME NEW w \in Workers, Writes(w), ~Requeuing(w)
      PROVE  Uninserted
  <2>1. row' = row
    BY <1>2, Zenon DEF Writes, Requeuing, GateSkip, Claim, OriginateRefused, OriginateFailed, Start,
       SettleCurrent, EndRow, CutLate, Connect
  <2>2. /\ pc[w] \in RowSteps => job[w].row \in Rows /\ st[job[w].row] # "absent"
        /\ NextItems(job[w]) \subseteq Rows /\ st \in [Rows -> ItemStatus]
    BY JobType DEF TypeOK, TypeQueue, NextItems, Eligible, Job
  <2>3. CASE GateSkip(w) \/ Claim(w) \/ Start(w)
    BY <2>1, <2>2, <2>3 DEF GateSkip, Claim, Claimable, Start, Uninserted
  <2>4. CASE OriginateRefused(w) \/ OriginateFailed(w)
    BY <2>1, <2>2, <2>4 DEF OriginateRefused, OriginateFailed, RolledBack, Uninserted
  <2>5. CASE SettleCurrent(w) \/ EndRow(w) \/ CutLate(w) \/ Connect(w)
    BY <2>1, <2>2, <2>5 DEF SettleCurrent, EndRow, CutLate, Connect, RowSteps, Uninserted
  <2> QED
    BY <1>2, <2>3, <2>4, <2>5 DEF Writes, Requeuing
<1>3. ASSUME NEW w \in Workers, Requeuing(w)
      PROVE  Uninserted \/ \E q \in Rows : Inserts(w, q)
  <2>1. Requeues(job[w].row) /\ st \in [Rows -> ItemStatus]
    BY <1>3, RequeueTxWrites DEF Requeuing, TypeOK, TypeQueue
  <2>2. CASE st' = st /\ row' = row
    BY <2>2 DEF Uninserted
  <2>3. ASSUME NEW s \in Closed, job[w].row \in Rows, st[job[w].row] = "dialing",
               st' = [st EXCEPT ![job[w].row] = s], row' = row
        PROVE  Uninserted
    BY <2>1, <2>3 DEF Uninserted, Closed
  <2>4. ASSUME NEW q \in Rows, NEW c, NEW r, NEW s, Insert(q, c), st' = [st EXCEPT ![r] = s, ![q] = "pending"]
        PROVE  Inserts(w, q)
    <3>1. st'[q] = "pending"
      BY <2>1, <2>4
    <3> QED
      BY <1>3, <2>4, <3>1 DEF Inserts, Insert
  <2> QED
    BY <2>1, <2>2, <2>3, <2>4, Zenon DEF Requeues
<1> QED
  BY <1>1, <1>2, <1>3

LEMMA FloorsKept ==
  ASSUME TypeOK, [Next]_vars, NEW S, S \subseteq Rows, FloorsInOrder(S)
  PROVE  FloorsInOrder(S)'
<1>1. \A r \in Rows : st[r] # "absent" => st'[r] # "absent"
  BY RowReaches DEF Reaches
<1>2. ASSUME NEW r \in S, NEW q \in Rows, q < r, row'[q].floor PROVE q \in S
  <2>1. CASE Uninserted
    BY <1>2, <2>1 DEF FloorsInOrder, Uninserted
  <2>2. ASSUME NEW w \in Workers, NEW p \in Rows, Inserts(w, p) PROVE q \in S
    <3>1. p # q
      BY <1>2, <2>2 DEF Inserts, FreshRow, FloorsInOrder, TypeOK, TypeOrder
    <3>2. row'[q] = row[q]
      BY <2>2, <3>1 DEF Inserts, TypeOK, TypeQueue
    <3> QED
      BY <1>2, <3>2 DEF FloorsInOrder
  <2> QED
    BY <2>1, <2>2, RowsInserted
<1> QED
  BY <1>1, <1>2 DEF FloorsInOrder

LEMMA TableStep ==
  ASSUME TypeOK, TableInv, [Next]_vars
  PROVE  TableInv'
<1>1. \A r \in Rows : st[r] # "absent" => st'[r] # "absent"
  BY RowReaches DEF Reaches
<1>2. ASSUME NEW r \in Rows, st'[r] = "absent" PROVE row'[r] = NoRow
  <2>1. row[r] = NoRow
    BY <1>1, <1>2 DEF TableInv
  <2>2. row'[r] = row[r]
    BY <1>2, RowsInserted DEF Inserts, Uninserted, TypeOK, TypeQueue
  <2> QED
    BY <2>1, <2>2
<1>3. due \subseteq Rows /\ \A w \in Workers : job[w].due \subseteq Rows /\ job[w].pend \subseteq Rows
  BY DEF TypeOK, TypeRun, TypeWorkers, Job
<1>4. FloorsInOrder(due)'
  <2>1. CASE due' = due
    BY <1>3, <2>1, FloorsKept DEF TableInv, FloorsInOrder
  <2>2. CASE FloorPasses
    <3>1. PICK r \in Rows : /\ row[r].floor /\ due' = due \cup {r}
                            /\ \A q \in Rows : q < r /\ row[q].floor => q \in due
      BY <2>2 DEF FloorPasses
    <3>2. st' = st /\ row' = row
      BY <2>2 DEF FloorPasses, queueVars
    <3>3. st[r] # "absent"
      BY <3>1 DEF TableInv, NoRow
    <3>4. FloorsInOrder(due)
      BY DEF TableInv
    <3> QED
      BY <3>1, <3>2, <3>3, <3>4 DEF FloorsInOrder
  <2> QED
    BY <2>1, <2>2, Marks
<1>5. due \subseteq due'
  BY Marks DEF FloorPasses
<1>6. ASSUME NEW v \in Workers
      PROVE  FloorsInOrder(job[v].due)' /\ job'[v].due \subseteq due'
  <2>1. Clock(job'[v].due, job[v].due)
    BY Hands DEF Held
  <2> DEFINE D == job'[v].due
  <2>2. \A r \in D : D = job[v].due \/ D = due
    BY <2>1 DEF Clock
  <2>3. D \subseteq due' /\ D \subseteq Rows
    BY <2>1, <1>3, <1>5 DEF Clock, TableInv
  <2>4. \A r \in D : st'[r] # "absent" /\ \A q \in Rows : q < r /\ row'[q].floor => q \in D
    <3>1. PICK S : S = D
      OBVIOUS
    <3>2. CASE S = {}
      BY <3>1, <3>2
    <3>3. CASE S = job[v].due \/ S = due
      <4>1. PICK T \in {job[v].due, due} : T = S
        BY <3>3
      <4>2. FloorsInOrder(T) /\ T \subseteq Rows
        BY <4>1, <1>3 DEF TableInv
      <4>3. \A r \in T : st'[r] # "absent" /\ \A q \in Rows : q < r /\ row'[q].floor => q \in T
        BY <4>2, FloorsKept DEF FloorsInOrder
      <4> QED
        BY <3>1, <4>1, <4>3
    <3> QED
      BY <2>1, <3>1, <3>2, <3>3 DEF Clock
  <2> QED
    BY <2>3, <2>4 DEF FloorsInOrder
<1>7. ASSUME NEW v \in Workers, NEW r \in job'[v].pend PROVE st'[r] # "absent"
  <2>1. Snap(job'[v].pend, job[v].pend)
    BY Hands DEF Held
  <2>2. r \in Rows /\ st[r] # "absent"
    BY <1>7, <2>1, <1>3 DEF Snap, TableInv, Pending
  <2> QED
    BY <1>1, <2>2
<1> QED
  BY <1>2, <1>4, <1>6, <1>7 DEF TableInv

LEMMA TableHolds == Spec => []TableInv
<1>1. Init => TableInv
  BY RunAssumption DEF Init, TableInv, FloorsInOrder, NoJob, Rows
<1>2. TypeOK /\ TableInv /\ [Next]_vars => TableInv'
  BY TableStep
<1> QED
  BY <1>1, <1>2, TypeCorrect, PTL DEF Spec

-----------------------------------------------------------------------------
(* OneCallPerRun, for a run nobody takes a callback in.                    *)

\* Rows the run has still to ring.
Waiting == {r \in Rows : st[r] \in {"pending", "dialing"} /\ dials[r] = 0}
Open == {r \in Rows : st[r] \in {"pending", "dialing", "connected"}}

\* No two open rows share an ordinal.
Distinct == \A q, r \in Open : row[q].ord = row[r].ord => q = r
\* Behind a row with a floor come only rows with a floor, inserted later.
FloorsLast == \A q, r \in Waiting : row[q].floor /\ row[q].ord < row[r].ord => row[r].floor /\ q < r
\* The row in flight comes before every row still to ring.
FlightFirst == \A x \in InFlight, a \in Waiting : a # x => row[x].ord < row[a].ord
\* A worker about to claim a row that is still to ring has every such row in its
\* snapshot, and nothing else is in flight.
Picking(w) == pc[w] \in {"pick", "refused"}
Snapshots ==
  \A w \in Workers : Picking(w) => \A c \in NextItems(job[w]) \cap Waiting :
    /\ InFlight \subseteq Waiting /\ Waiting \subseteq job[w].pend
    /\ \A a \in Waiting : st[a] = "dialing" => a = c
\* So has the worker that claimed the row in flight and has not rung it yet.
HolderSnaps == \A w \in Workers, a \in Rows : Holder(w, a) /\ st[a] = "dialing" => Waiting \subseteq job[w].pend
OneInv == OneCallPerRun /\ Distinct /\ FloorsLast /\ FlightFirst /\ Snapshots /\ HolderSnaps

\* What OneInv rests on.
Ground == TypeOK /\ Ownership /\ RangInv /\ TableInv

\* A worker's snapshot after the step is one it had, or one taken with nothing
\* in flight.
SnapsOn(v) ==
  /\ Picking(v)' => \/ Picking(v) /\ job'[v] = job[v]
                    \/ InFlight' = {} /\ Waiting' \subseteq job'[v].pend
  /\ pc'[v] = "originate" => pc[v] = "originate" /\ job'[v] = job[v]

\* A step that takes no row in flight, rings none and inserts none.
LEMMA OneQuiet ==
  ASSUME Ground, OneInv, row' = row, Waiting' \subseteq Waiting, InFlight' \subseteq InFlight,
         Open' \subseteq Open, InFlight' \cap Waiting \subseteq Waiting',
         \A v \in Workers : SnapsOn(v)
  PROVE  OneInv'
<1>1. OneCallPerRun'
  BY DEF OneInv, OneCallPerRun
<1>2. Distinct'
  BY DEF OneInv, Distinct
<1>3. FloorsLast'
  BY DEF OneInv, FloorsLast
<1>4. FlightFirst'
  BY DEF OneInv, FlightFirst
<1>5. ASSUME NEW v \in Workers, Picking(v)', NEW c \in NextItems(job[v])' \cap Waiting'
      PROVE  /\ InFlight' \subseteq Waiting' /\ Waiting' \subseteq job'[v].pend
             /\ \A a \in Waiting' : st'[a] = "dialing" => a = c
  <2>1. CASE InFlight' = {} /\ Waiting' \subseteq job'[v].pend
    BY <2>1 DEF InFlight, Waiting
  <2>2. CASE Picking(v) /\ job'[v] = job[v]
    <3>1. c \in NextItems(job[v])
      BY <1>5, <2>2 DEF NextItems, Eligible
    <3>2. /\ InFlight \subseteq Waiting /\ Waiting \subseteq job[v].pend
          /\ \A a \in Waiting : st[a] = "dialing" => a = c
      BY <1>5, <2>2, <3>1 DEF OneInv, Snapshots
    <3>3. ASSUME NEW a \in Waiting', st'[a] = "dialing" PROVE a = c
      <4>1. a \in InFlight' /\ a \in InFlight /\ a \in Waiting
        BY <3>3 DEF InFlight, Waiting
      <4>2. st[a] = "dialing"
        BY <4>1 DEF InFlight, Waiting
      <4> QED
        BY <3>2, <4>1, <4>2
    <3> QED
      BY <2>2, <3>2, <3>3
  <2> QED
    BY <1>5, <2>1, <2>2 DEF SnapsOn
<1>6. ASSUME NEW v \in Workers, NEW a \in Rows, Holder(v, a)', st'[a] = "dialing"
      PROVE  Waiting' \subseteq job'[v].pend
  <2>1. Holder(v, a) /\ job'[v] = job[v]
    BY <1>6 DEF Holder, SnapsOn
  <2>2. a \in InFlight
    BY <1>6 DEF InFlight
  <2>3. st[a] = "dialing"
    BY <2>1, <2>2 DEF Ground, Ownership, RangInv, InFlight
  <2> QED
    BY <2>1, <2>3 DEF OneInv, HolderSnaps
<1>7. Snapshots'
  BY <1>5 DEF Snapshots
<1>8. HolderSnaps'
  BY <1>6 DEF HolderSnaps
<1> QED
  BY <1>1, <1>2, <1>3, <1>4, <1>7, <1>8 DEF OneInv

\* A worker that stays put keeps its snapshot.
LEMMA StillSnaps ==
  ASSUME NEW v \in Workers, Still(v)
  PROVE  SnapsOn(v)
BY DEF Still, SnapsOn, Picking

\* So does every worker but the one that claims, when nothing rings or is inserted.
LEMMA ReadSnaps ==
  ASSUME Ground, [Next]_vars, NEW v \in Workers, LoadQueue(v) \/ Reload(v)
  PROVE  SnapsOn(v)
<1>1. CASE Finish(v, job[v])
  <2>1. pc'[v] \in {"idle", "amdHangUp"}
    BY <1>1 DEF Finish, Goto, Ground, TypeOK, TypeWorkers
  <2> QED
    BY <2>1 DEF SnapsOn, Picking
<1>2. CASE InFlight = {} /\ Goto(v, "pick", [job[v] EXCEPT !.pend = Pending])
  <2> DEFINE k == [job[v] EXCEPT !.pend = Pending]
  <2>1. k.pend = Pending
    BY JobType, EditsKeep DEF Ground, TypeOK
  <2> HIDE DEF k
  <2>2. Goto(v, "pick", k)
    BY <1>2 DEF k
  <2>3. job'[v] = k /\ pc'[v] = "pick"
    BY <2>2 DEF Goto, Ground, TypeOK, TypeWorkers
  <2>4. st' = st /\ dials' = dials
    BY DEF LoadQueue, Reload, queueVars, phoneVars
  <2>5. InFlight' = {} /\ Waiting' \subseteq Pending
    BY <1>2, <2>4 DEF InFlight, Waiting, Pending
  <2> QED
    BY <2>1, <2>3, <2>5 DEF SnapsOn
<1> QED
  BY <1>1, <1>2, Zenon DEF LoadQueue, Reload

LEMMA SkipSnaps ==
  ASSUME Ground, OneInv, [Next]_vars, NEW v \in Workers, GateSkip(v), pc'[v] = "pick"
  PROVE  SnapsOn(v)
<1>1. PICK c \in NextItems(job[v]) :
        st[c] = "pending" /\ st' = [st EXCEPT ![c] = "skipped"] /\ Goto(v, "pick", [job[v] EXCEPT !.pend = @ \ {c}])
  <2>1. ~\E j : Goto(v, "reload", j)
    BY DEF Goto, Ground, TypeOK, TypeWorkers
  <2> QED
    BY <2>1, Zenon DEF GateSkip
<1> DEFINE k == [job[v] EXCEPT !.pend = @ \ {c}]
<1>2. k.pend = job[v].pend \ {c} /\ c \in Rows
  BY JobType, EditsKeep DEF Ground, TypeOK, NextItems, Eligible, Job
<1>3. Goto(v, "pick", k)
  BY <1>1
<1> HIDE DEF k
<1>4. job'[v] = k
  BY <1>3 DEF Goto, Ground, TypeOK, TypeWorkers
<1>5. c \in Waiting
  BY <1>1, <1>2 DEF Waiting, Ground, Ownership
<1>6. /\ InFlight \subseteq Waiting /\ Waiting \subseteq job[v].pend
      /\ \A a \in Waiting : st[a] = "dialing" => a = c
  BY <1>1, <1>5 DEF OneInv, Snapshots, Picking, GateSkip
<1>7. InFlight = {}
  BY <1>1, <1>6 DEF InFlight, Waiting
<1>8. dials' = dials /\ \A r \in Rows : st'[r] = IF r = c THEN "skipped" ELSE st[r]
  BY <1>1, <1>2 DEF GateSkip, phoneVars, Ground, TypeOK, TypeQueue
<1>9. InFlight' = {} /\ Waiting' \subseteq Waiting \ {c}
  BY <1>7, <1>8 DEF InFlight, Waiting
<1> QED
  BY <1>2, <1>4, <1>6, <1>9 DEF SnapsOn

LEMMA RefusedSnaps ==
  ASSUME Ground, OneInv, [Next]_vars, NEW v \in Workers, OriginateRefused(v), pc'[v] = "refused"
  PROVE  SnapsOn(v)
<1> DEFINE r == job[v].row
           j == [job[v] EXCEPT !.row = 0, !.refusals = @ + 1]
           k == [j EXCEPT !.pend = @ \ {r}]
<1>1. st[r] = "dialing" /\ st' = [st EXCEPT ![r] = "skipped"] /\ Goto(v, "refused", k)
  <2>1. ~\E i : Goto(v, "refusedLost", i)
    BY DEF Goto, Ground, TypeOK, TypeWorkers
  <2> QED
    BY <2>1, Zenon DEF OriginateRefused
<1>2. k.pend = job[v].pend \ {r} /\ r \in Rows
  BY JobType DEF OriginateRefused, RowSteps, Ground, TypeOK, Job
<1> HIDE DEF k, j
<1>3. job'[v] = k
  BY <1>1 DEF Goto, Ground, TypeOK, TypeWorkers
<1>4. Waiting \subseteq job[v].pend
  BY <1>1, <1>2 DEF OneInv, HolderSnaps, Holder, OriginateRefused
<1>5. \A x \in InFlight : x = r
  BY <1>1, <1>2 DEF OneInv, OneCallPerRun, InFlight
<1>6. dials' = dials /\ \A x \in Rows : st'[x] = IF x = r THEN "skipped" ELSE st[x]
  BY <1>1, <1>2 DEF OriginateRefused, phoneVars, Ground, TypeOK, TypeQueue
<1>7. InFlight' = {} /\ Waiting' \subseteq Waiting \ {r}
  BY <1>5, <1>6 DEF InFlight, Waiting
<1> QED
  BY <1>2, <1>3, <1>4, <1>7 DEF SnapsOn, Picking

LEMMA AfterRefusalSnaps ==
  ASSUME Ground, NEW v \in Workers, AfterRefusal(v)
  PROVE  SnapsOn(v)
<1>1. CASE Finish(v, job[v])
  <2>1. pc'[v] \in {"idle", "amdHangUp"}
    BY <1>1 DEF Finish, Goto, Ground, TypeOK, TypeWorkers
  <2> QED
    BY <2>1 DEF SnapsOn, Picking
<1>2. CASE Goto(v, IF pc[v] = "refused" THEN "pick" ELSE "reload", job[v])
  <2>1. job'[v] = job[v] /\ pc'[v] = IF pc[v] = "refused" THEN "pick" ELSE "reload"
    BY <1>2 DEF Goto, Ground, TypeOK, TypeWorkers
  <2> QED
    BY <2>1 DEF SnapsOn, Picking
<1> QED
  BY <1>1, <1>2, Zenon DEF AfterRefusal

\* Every step but a claim keeps the workers' snapshots good.
LEMMA SnapsKept ==
  ASSUME Ground, OneInv, [Next]_vars, NEW v \in Workers, ~Claim(v)
  PROVE  SnapsOn(v)
<1>1. CASE Still(v)
  BY <1>1, StillSnaps
<1>2. CASE ~Still(v)
  <2>1. Via(v, pc'[v])
    BY <1>2, Arrivals DEF Ground
  <2>2. pc'[v] # "originate"
    BY <2>1 DEF Via
  <2>3. CASE pc'[v] = "refused"
    BY <2>1, <2>3, RefusedSnaps DEF Via
  <2>4. CASE pc'[v] = "pick"
    BY <2>1, <2>4, ReadSnaps, SkipSnaps, AfterRefusalSnaps DEF Via
  <2>5. CASE pc'[v] \notin {"pick", "refused"}
    BY <2>2, <2>5 DEF SnapsOn, Picking
  <2> QED
    BY <2>3, <2>4, <2>5
<1> QED
  BY <1>1, <1>2

LEMMA OneOther ==
  ASSUME Ground, OneInv, [Next]_vars, Uninserted, \A w \in Workers : ~Claim(w) /\ ~Originate(w)
  PROVE  OneInv'
<1>1. dials' = dials /\ row' = row
  BY Marks DEF Uninserted
<1>2. \A r \in Rows : Reaches(r)
  BY RowReaches DEF Ground
<1>3. \A r \in Rows : st'[r] = "dialing" => st[r] = "dialing"
  BY <1>2 DEF Reaches
<1>4. \A r \in Rows : st'[r] = "connected" => st[r] = "connected" \/ (st[r] = "dialing" /\ dials[r] # 0)
  BY <1>2 DEF Reaches, Connect, Ground, RangInv, PastCall
<1>5. \A r \in Rows : st'[r] = "pending" => st[r] = "pending" \/ st[r] = "dialing"
  BY <1>2 DEF Reaches, Uninserted
<1>6. Waiting' \subseteq Waiting /\ InFlight' \subseteq InFlight /\ Open' \subseteq Open
  BY <1>1, <1>3, <1>4, <1>5 DEF Waiting, InFlight, Open
<1>7. InFlight' \cap Waiting \subseteq Waiting'
  <2>1. ASSUME NEW r \in InFlight', r \in Waiting PROVE r \in Waiting'
    <3>1. st'[r] # "connected"
      BY <1>4, <2>1 DEF Waiting, Ground, RangInv
    <3> QED
      BY <1>1, <2>1, <3>1 DEF Waiting, InFlight
  <2> QED
    BY <2>1
<1> QED
  BY <1>1, <1>6, <1>7, SnapsKept, OneQuiet

\* The claim.  Its row is pending, so by Snapshots nothing is in flight; and no
\* other worker's snapshot lets it claim a second row, for a row before the
\* claimed one would have been eligible here.
LEMMA ClaimTakes ==
  ASSUME Ground, OneInv, NEW w \in Workers, Claim(w)
  PROVE  \/ Finish(w, job[w]) /\ st' = st
         \/ \E c \in Rows : /\ c \in NextItems(job[w]) /\ st[c] = "pending"
                            /\ st' = [st EXCEPT ![c] = "dialing"]
                            /\ pc'[w] = "originate" /\ job'[w].row = c
                            /\ job'[w].pend = job[w].pend /\ job'[w].due = job[w].due
<1>1. job[w] \in Job /\ NextItems(job[w]) \subseteq Rows
  BY JobType DEF Ground, TypeOK, NextItems, Eligible, Job
<1>2. ASSUME NEW c \in Rows, Goto(w, "originate", [job[w] EXCEPT !.row = c])
      PROVE  /\ pc'[w] = "originate" /\ job'[w].row = c
             /\ job'[w].pend = job[w].pend /\ job'[w].due = job[w].due
  <2> DEFINE k == [job[w] EXCEPT !.row = c]
  <2>1. k.row = c /\ k.pend = job[w].pend /\ k.due = job[w].due
    BY <1>1, EditsKeep
  <2>2. Goto(w, "originate", k)
    BY <1>2
  <2> HIDE DEF k
  <2>3. job'[w] = k /\ pc'[w] = "originate"
    BY <2>2 DEF Goto, Ground, TypeOK, TypeWorkers
  <2> QED
    BY <2>1, <2>3
<1> QED
  BY <1>1, <1>2, Zenon DEF Claim, Claimable

\* In a snapshot that lacks nothing still to ring, a worker's choice comes before
\* every other row that is.
LEMMA ChoiceFirst ==
  ASSUME Ground, OneInv, NEW w \in Workers, Waiting \subseteq job[w].pend,
         NEW c \in NextItems(job[w]) \cap Waiting, NEW a \in Waiting, a # c
  PROVE  row[c].ord < row[a].ord
<1>1. /\ c \in Rows /\ a \in Rows /\ row[c].ord \in Nat /\ row[a].ord \in Nat
  BY DEF Waiting, Ground, TypeOK, TypeQueue, Row
<1>2. row[a].ord # row[c].ord
  BY <1>1 DEF OneInv, Distinct, Open, Waiting
<1>3. CASE a \in Eligible(job[w])
  <2>1. row[c].ord <= row[a].ord
    BY <1>3 DEF NextItems
  <2> QED
    BY <1>1, <1>2, <2>1
<1>4. CASE a \notin Eligible(job[w])
  <2>1. row[a].floor /\ a \notin job[w].due
    BY <1>1, <1>4 DEF Eligible
  <2> SUFFICES ASSUME row[a].ord < row[c].ord PROVE FALSE
    BY <1>1, <1>2
  <2>2. row[c].floor /\ a < c
    BY <2>1 DEF OneInv, FloorsLast
  <2>3. c \in job[w].due
    BY <2>2 DEF NextItems, Eligible
  <2> QED
    BY <1>1, <2>1, <2>2, <2>3 DEF Ground, TableInv, FloorsInOrder
<1> QED
  BY <1>3, <1>4

LEMMA OneClaim ==
  ASSUME Ground, OneInv, [Next]_vars, NEW w \in Workers, Claim(w)
  PROVE  OneInv'
<1>1. UNCHANGED <<row, dials>> /\ \A v \in Workers : v # w => Still(v)
  <2>1. UNCHANGED <<row, dials>>
    BY DEF Claim, phoneVars
  <2>2. \A v \in Workers : v # w => Still(v)
    BY Alone DEF Ground, Advance
  <2> QED
    BY <2>1, <2>2
<1>2. CASE Finish(w, job[w]) /\ st' = st
  <2>1. pc'[w] \in {"idle", "amdHangUp"}
    BY <1>2 DEF Finish, Goto, Ground, TypeOK, TypeWorkers
  <2>2. \A v \in Workers : SnapsOn(v)
    BY <1>1, <2>1, StillSnaps DEF SnapsOn, Picking
  <2>3. Waiting' = Waiting /\ InFlight' = InFlight /\ Open' = Open
    BY <1>1, <1>2 DEF Waiting, InFlight, Open
  <2> QED
    BY <1>1, <2>2, <2>3, OneQuiet DEF Waiting
<1>3. ASSUME NEW c \in Rows, c \in NextItems(job[w]), st[c] = "pending", st' = [st EXCEPT ![c] = "dialing"],
             pc'[w] = "originate", job'[w].row = c, job'[w].pend = job[w].pend
      PROVE  OneInv'
  <2>1. c \in Waiting /\ c \in Open
    BY <1>3 DEF Waiting, Open, Ground, Ownership
  <2>2. /\ InFlight \subseteq Waiting /\ Waiting \subseteq job[w].pend
        /\ \A a \in Waiting : st[a] = "dialing" => a = c
    BY <1>3, <2>1 DEF OneInv, Snapshots, Picking, Claim
  <2>3. InFlight = {}
    BY <1>3, <2>2 DEF InFlight, Waiting
  <2>4. \A r \in Rows : st'[r] = IF r = c THEN "dialing" ELSE st[r]
    BY <1>3 DEF Ground, TypeOK, TypeQueue
  <2>5. InFlight' = {c} /\ Waiting' = Waiting /\ Open' = Open
    BY <1>1, <1>3, <2>3, <2>4 DEF InFlight, Waiting, Open
  <2>6. \A a \in Waiting : a # c => row[c].ord < row[a].ord
    BY <1>3, <2>1, <2>2, ChoiceFirst
  <2>7. OneCallPerRun' /\ Distinct' /\ FloorsLast' /\ FlightFirst'
    BY <1>1, <2>5, <2>6 DEF OneInv, OneCallPerRun, Distinct, FloorsLast, FlightFirst
  <2>8. ASSUME NEW v \in Workers, Picking(v)', NEW d \in NextItems(job[v])' \cap Waiting'
        PROVE  /\ InFlight' \subseteq Waiting' /\ Waiting' \subseteq job'[v].pend
               /\ \A a \in Waiting' : st'[a] = "dialing" => a = d
    <3>1. v # w
      BY <1>3, <2>8 DEF Picking
    <3>2. Picking(v) /\ job'[v] = job[v]
      BY <1>1, <2>8, <3>1 DEF Picking, Still
    <3>3. d \in NextItems(job[v]) \cap Waiting
      BY <1>1, <2>5, <2>8, <3>2 DEF NextItems, Eligible
    <3>4. Waiting \subseteq job[v].pend
      BY <3>2, <3>3 DEF OneInv, Snapshots
    <3>5. d = c
      <4> SUFFICES ASSUME d # c PROVE FALSE
        OBVIOUS
      <4>1. row[d].ord < row[c].ord
        BY <2>1, <3>3, <3>4, ChoiceFirst
      <4>2. row[c].ord < row[d].ord
        BY <2>6, <3>3
      <4>3. row[c].ord \in Nat /\ row[d].ord \in Nat
        BY <3>3 DEF Waiting, Ground, TypeOK, TypeQueue, Row
      <4> QED
        BY <4>1, <4>2, <4>3
    <3>6. \A a \in Waiting' : st'[a] = "dialing" => a = c
      BY <2>5 DEF InFlight, Waiting
    <3> QED
      BY <2>1, <2>5, <3>2, <3>4, <3>5, <3>6
  <2>9. ASSUME NEW v \in Workers, NEW a \in Rows, Holder(v, a)', st'[a] = "dialing"
        PROVE  Waiting' \subseteq job'[v].pend
    <3>1. a = c
      BY <2>5, <2>9 DEF InFlight
    <3>2. v = w
      <4> SUFFICES ASSUME v # w PROVE FALSE
        OBVIOUS
      <4>1. Holder(v, c)
        BY <1>1, <2>9, <3>1 DEF Holder, Still
      <4> QED
        BY <1>3, <4>1 DEF Ground, Ownership
    <3> QED
      BY <1>3, <2>2, <2>5, <3>2
  <2>10. Snapshots'
    BY <2>8 DEF Snapshots
  <2>11. HolderSnaps'
    BY <2>9 DEF HolderSnaps
  <2> QED
    BY <2>7, <2>10, <2>11 DEF OneInv
<1> QED
  BY <1>2, <1>3, ClaimTakes

\* The call: the row leaves the rows still to ring.
LEMMA OneOriginate ==
  ASSUME Ground, OneInv, [Next]_vars, NEW w \in Workers, Originate(w)
  PROVE  OneInv'
<1> DEFINE c == job[w].row
<1>1. /\ UNCHANGED <<row, st>> /\ \A v \in Workers : v # w => Still(v)
      /\ c \in Rows /\ dials' = [dials EXCEPT ![c] = @ + 1] /\ pc[w] = "originate" /\ pc'[w] = "stamp"
      /\ Holder(w, c)
  <2>1. UNCHANGED <<row, st>> /\ dials' = [dials EXCEPT ![c] = @ + 1]
    BY DEF Originate, queueVars
  <2>2. \A v \in Workers : v # w => Still(v)
    BY Alone DEF Ground, Advance
  <2> QED
    BY <2>1, <2>2, KeepsJobRow DEF Ground, Holder
<1>2. InFlight' = InFlight /\ Open' = Open /\ Waiting' = Waiting \ {c}
  <2>1. \A r \in Rows : dials'[r] = IF r = c THEN dials[r] + 1 ELSE dials[r]
    BY <1>1 DEF Ground, TypeOK, TypePhones
  <2>2. dials[c] = 0
    BY <1>1 DEF Ground, Ownership
  <2> QED
    BY <1>1, <2>1, <2>2 DEF InFlight, Open, Waiting
<1>3. OneCallPerRun' /\ Distinct' /\ FloorsLast' /\ FlightFirst'
  BY <1>1, <1>2 DEF OneInv, OneCallPerRun, Distinct, FloorsLast, FlightFirst
<1>4. ASSUME NEW v \in Workers, Picking(v)', NEW d \in NextItems(job[v])' \cap Waiting'
      PROVE  /\ InFlight' \subseteq Waiting' /\ Waiting' \subseteq job'[v].pend
             /\ \A a \in Waiting' : st'[a] = "dialing" => a = d
  <2>1. v # w
    BY <1>1, <1>4 DEF Picking
  <2>2. Picking(v) /\ job'[v] = job[v]
    BY <1>1, <1>4, <2>1 DEF Picking, Still
  <2>3. d \in NextItems(job[v]) \cap Waiting /\ d # c
    BY <1>1, <1>2, <1>4, <2>2 DEF NextItems, Eligible
  <2>4. /\ InFlight \subseteq Waiting /\ Waiting \subseteq job[v].pend
        /\ \A a \in Waiting : st[a] = "dialing" => a = d
    BY <2>2, <2>3 DEF OneInv, Snapshots
  <2>5. c \notin InFlight
    BY <2>3, <2>4 DEF InFlight, Waiting
  <2> QED
    BY <1>1, <1>2, <2>2, <2>4, <2>5
<1>5. ASSUME NEW v \in Workers, NEW a \in Rows, Holder(v, a)', st'[a] = "dialing"
      PROVE  Waiting' \subseteq job'[v].pend
  <2>1. v # w
    BY <1>1, <1>5 DEF Holder
  <2>2. Holder(v, a) /\ job'[v] = job[v]
    BY <1>1, <1>5, <2>1 DEF Holder, Still
  <2> QED
    BY <1>1, <1>2, <1>5, <2>2 DEF OneInv, HolderSnaps
<1>6. Snapshots'
  BY <1>4 DEF Snapshots
<1>7. HolderSnaps'
  BY <1>5 DEF HolderSnaps
<1> QED
  BY <1>3, <1>6, <1>7 DEF OneInv

\* Every ordinal on the queue is at most the last.
LEMMA LastOrdinalBounds ==
  ASSUME TypeQueue, NEW r \in Present
  PROVE  row[r].ord <= LastOrdinal
<1> DEFINE S == {row[q].ord : q \in Present}
<1>1. S \subseteq 0 .. MaxRows /\ S # {} /\ row[r].ord \in S
  <2>1. \A q \in Present : row[q] \in Row
    BY DEF TypeQueue, Present
  <2>2. \A q \in Present : row[q].ord \in 0 .. MaxRows
    BY <2>1 DEF Row
  <2> QED
    BY <2>2
<1>2. PICK o \in S : \A x \in S : x <= o
  BY <1>1, GreatestExists, RunAssumption
<1>3. \E a \in S : \A q \in Present : row[q].ord <= a
  BY <1>2
<1>4. \A q \in Present : row[q].ord <= LastOrdinal
  BY <1>3 DEF LastOrdinal
<1> QED
  BY <1>4

\* A copy queued as its row leaves the flight.
LEMMA OneInsert ==
  ASSUME Ground, OneInv, [Next]_vars, NEW w \in Workers, NEW r \in Rows, NEW q \in Rows, NEW c, NEW s \in Closed,
         \A v \in Workers : v # w => Still(v), pc'[w] = "advance", dials' = dials,
         r \in InFlight, dials[r] # 0, Insert(q, c), st' = [st EXCEPT ![r] = s, ![q] = "pending"],
         c = RetryCopy(r) \/ c = RedialCopy(r)
  PROVE  OneInv'
<1>1. /\ st[q] = "absent" /\ q # r /\ row' = [row EXCEPT ![q] = c] /\ row[r] \in Row /\ row[r].ord \in Nat
      /\ dials[q] = 0
  BY DEF Insert, FreshRow, InFlight, Ground, TypeOK, TypeQueue, Row, Ownership
<1>2. /\ \A p \in Rows : st'[p] = IF p = q THEN "pending" ELSE IF p = r THEN s ELSE st[p]
      /\ \A p \in Rows : row'[p] = IF p = q THEN c ELSE row[p]
      /\ \A p \in Rows : st[p] # "absent" => p < q
      /\ s \notin {"pending", "dialing", "connected"}
  BY <1>1 DEF Ground, TypeOK, TypeQueue, TypeOrder, Insert, FreshRow, Rows, Closed
<1>3. InFlight' = {}
  <2>1. \A x \in InFlight : x = r
    BY DEF OneInv, OneCallPerRun
  <2>2. ASSUME NEW x \in Rows PROVE st'[x] \notin {"dialing", "connected"}
    <3>1. CASE x = q
      <4>1. st'[x] = "pending"
        BY <1>2, <3>1
      <4> QED
        BY <4>1
    <3>2. CASE x = r /\ x # q
      <4>1. st'[x] = s
        BY <1>2, <3>2
      <4> QED
        BY <1>2, <4>1
    <3>3. CASE x # r /\ x # q
      <4>1. st'[x] = st[x] /\ x \notin InFlight
        BY <1>2, <2>1, <3>3
      <4> QED
        BY <4>1 DEF InFlight
    <3> QED
      BY <3>1, <3>2, <3>3
  <2> QED
    BY <2>2 DEF InFlight
<1>4. Waiting' = Waiting \cup {q} /\ q \notin Waiting /\ q \notin Open /\ Open' = (Open \ {r}) \cup {q} /\ r \notin Waiting
  BY ZenonT(30), <1>1, <1>2 DEF Waiting, Open
<1>5. c.ord \in Nat /\ \A p \in Open : p # r => row[p].ord # c.ord
  <2>1. CASE c = RedialCopy(r)
    <3>1. c.ord = row[r].ord
      BY <1>1, <2>1 DEF RedialCopy, Row
    <3>2. r \in Open
      BY DEF InFlight, Open
    <3> QED
      BY <1>1, <3>1, <3>2 DEF OneInv, Distinct
  <2>2. CASE c = RetryCopy(r)
    <3>1. c.ord = LastOrdinal + 1
      BY <1>1, <2>2 DEF RetryCopy, Row
    <3>2. r \in Present
      BY DEF InFlight, Present
    <3>3. PICK p \in Present : LastOrdinal = row[p].ord
      BY <3>2, LastOrdinalIsLast DEF Ground, TypeOK
    <3>4. LastOrdinal \in Nat
      BY <3>3 DEF Present, Ground, TypeOK, TypeQueue, Row
    <3>5. \A x \in Open : x \in Present /\ row[x].ord \in Nat
      BY DEF Open, Present, Ground, TypeOK, TypeQueue, Row
    <3>6. \A x \in Open : row[x].ord <= LastOrdinal
      BY <3>5, LastOrdinalBounds DEF Ground, TypeOK
    <3> QED
      BY <3>1, <3>4, <3>5, <3>6
  <2> QED
    BY <2>1, <2>2
<1>6. Distinct'
  <2>1. ASSUME NEW x \in Open', NEW y \in Open', row'[x].ord = row'[y].ord
        PROVE  x = y
    <3>1. x \in Rows /\ y \in Rows
      BY <2>1 DEF Open
    <3>2. CASE x = q
      <4>1. row'[x].ord = c.ord
        BY <1>2, <3>1, <3>2
      <4>2. y # q => y \in Open /\ y # r /\ row'[y] = row[y]
        BY <1>2, <1>4, <2>1, <3>1
      <4> QED
        BY <1>5, <2>1, <3>2, <4>1, <4>2
    <3>3. CASE y = q
      <4>1. row'[y].ord = c.ord
        BY <1>2, <3>1, <3>3
      <4>2. x # q => x \in Open /\ x # r /\ row'[x] = row[x]
        BY <1>2, <1>4, <2>1, <3>1
      <4> QED
        BY <1>5, <2>1, <3>3, <4>1, <4>2
    <3>4. CASE x # q /\ y # q
      <4>1. x \in Open /\ y \in Open /\ row'[x] = row[x] /\ row'[y] = row[y]
        BY <1>2, <1>4, <2>1, <3>1, <3>4
      <4> QED
        BY <2>1, <4>1 DEF OneInv, Distinct
    <3> QED
      BY <3>2, <3>3, <3>4
  <2> QED
    BY <2>1 DEF Distinct
<1>7. FloorsLast'
  <2>1. ASSUME NEW x \in Waiting', NEW y \in Waiting', row'[x].floor, row'[x].ord < row'[y].ord
        PROVE  row'[y].floor /\ x < y
    <3>1. CASE x # q /\ y # q
      <4>1. x \in Waiting /\ y \in Waiting /\ x \in Rows /\ y \in Rows
        BY <1>4, <2>1, <3>1 DEF Waiting
      <4>2. row'[x] = row[x] /\ row'[y] = row[y]
        BY <1>2, <3>1, <4>1
      <4> QED
        BY <2>1, <4>1, <4>2 DEF OneInv, FloorsLast
    <3>2. CASE x = q
      <4>1. c = RetryCopy(r)
        <5>1. RedialCopy(r).floor = FALSE
          BY <1>1 DEF RedialCopy, Row
        <5> QED
          BY <1>2, <2>1, <3>2, <5>1
      <4>2. c.ord = LastOrdinal + 1
        BY <1>1, <4>1 DEF RetryCopy, Row
      <4>3. r \in Present
        BY DEF InFlight, Present
      <4>4. PICK p \in Present : LastOrdinal = row[p].ord
        BY <4>3, LastOrdinalIsLast DEF Ground, TypeOK
      <4>5. LastOrdinal \in Nat
        BY <4>4 DEF Present, Ground, TypeOK, TypeQueue, Row
      <4>6. y # q
        BY <1>2, <1>5, <2>1, <3>2
      <4>7. y \in Present /\ row[y].ord \in Nat /\ row'[y].ord = row[y].ord
        BY <1>2, <1>4, <4>6 DEF Waiting, Present, Ground, TypeOK, TypeQueue, Row
      <4>8. row[y].ord <= LastOrdinal
        BY <4>7, LastOrdinalBounds DEF Ground, TypeOK
      <4> QED
        BY <1>2, <2>1, <3>2, <4>2, <4>5, <4>7, <4>8
    <3>3. CASE x # q /\ y = q
      <4>1. x \in Waiting /\ row'[x] = row[x] /\ x \in Rows /\ row[x].ord \in Nat /\ x < q
        BY <1>2, <1>4, <3>3 DEF Waiting, Ground, TypeOK, TypeQueue, Row
      <4>2. CASE c = RedialCopy(r)
        <5>1. c.ord = row[r].ord
          BY <1>1, <4>2 DEF RedialCopy, Row
        <5>2. row[r].ord < row[x].ord
          BY <1>4, <4>1 DEF OneInv, FlightFirst
        <5> QED
          BY <1>1, <1>2, <2>1, <3>3, <4>1, <5>1, <5>2
      <4>3. CASE c = RetryCopy(r)
        <5>1. c.floor = TRUE
          BY <1>1, <4>3 DEF RetryCopy, Row
        <5> QED
          BY <1>2, <3>3, <4>1, <5>1
      <4> QED
        BY <4>2, <4>3
    <3> QED
      BY <3>1, <3>2, <3>3
  <2> QED
    BY <2>1 DEF FloorsLast
<1>8. OneCallPerRun' /\ FlightFirst'
  BY <1>3 DEF OneCallPerRun, FlightFirst
<1>9. ASSUME NEW v \in Workers, Picking(v)', NEW d \in NextItems(job[v])' \cap Waiting'
      PROVE  FALSE
  <2>1. v # w
    BY <1>9 DEF Picking
  <2>2. Picking(v) /\ job'[v] = job[v] /\ job[v].pend \subseteq Rows
    BY <1>9, <2>1 DEF Picking, Still, Ground, TypeOK, TypeWorkers, Job
  <2>3. \A p \in job[v].pend : row'[p] = row[p] /\ p # q
    BY <1>1, <1>2, <2>2 DEF Ground, TableInv
  <2>4. d \in NextItems(job[v])
    BY <1>9, <2>2, <2>3 DEF NextItems, Eligible
  <2>5. d \in Waiting
    BY <1>4, <1>9, <2>2, <2>3, <2>4 DEF NextItems, Eligible
  <2>6. r \in Waiting
    BY <2>2, <2>4, <2>5 DEF OneInv, Snapshots
  <2> QED
    BY <1>4, <2>6
<1>10. Snapshots'
  BY <1>9 DEF Snapshots
<1>11. HolderSnaps'
  BY <1>3 DEF HolderSnaps, InFlight
<1> QED
  BY <1>6, <1>7, <1>8, <1>10, <1>11 DEF OneInv

\* Without the button nobody is in a callback's transaction.
NoneTaken == \A w \in Workers : pc[w] # "takeCallback"

LEMMA NoneTakenHolds ==
  ASSUME "callback" \notin Ops
  PROVE  Spec => []NoneTaken
<1>1. Init => NoneTaken
  BY DEF Init, NoneTaken
<1>2. TypeOK /\ NoneTaken /\ [Next]_vars => NoneTaken'
  <2> SUFFICES ASSUME TypeOK, NoneTaken, [Next]_vars, NEW w \in Workers PROVE pc'[w] # "takeCallback"
    BY DEF NoneTaken
  <2>1. ~TakeCallback(w)
    BY DEF TakeCallback, Press
  <2> QED
    BY <2>1, Arrivals DEF Via, Still, NoneTaken
<1> QED
  BY <1>1, <1>2, TypeCorrect, PTL DEF Spec

LEMMA OneStep ==
  ASSUME Ground, NoneTaken, OneInv, [Next]_vars
  PROVE  OneInv'
<1>1. CASE \E w \in Workers : Claim(w) \/ Originate(w)
  BY <1>1, OneClaim, OneOriginate
<1>2. CASE Uninserted /\ \A w \in Workers : ~Claim(w) /\ ~Originate(w)
  BY <1>2, OneOther
<1>3. ASSUME NEW w \in Workers, NEW p \in Rows, Inserts(w, p)
      PROVE  OneInv'
  <2> DEFINE r == job[w].row
  <2>1. RedialTx(w) \/ Miss(w)
    BY <1>3 DEF Inserts, Requeuing, NoneTaken, TakeCallbackTx
  <2>2. /\ st' # st
        /\ \A v \in Workers : v # w => Still(v)
        /\ r \in Rows /\ dials' = dials
        /\ "done" \in Closed /\ "no_connect" \in Closed
    <3>1. st' # st
      BY <1>3 DEF Inserts, FreshRow
    <3>2. \A v \in Workers : v # w => Still(v)
      BY <2>1, Alone DEF Ground, Buttons, Callbacks
    <3>3. r \in Rows /\ dials' = dials
      BY <2>1, JobType DEF Ground, TypeOK, RedialTx, Miss, RowSteps, phoneVars
    <3> QED
      BY <3>1, <3>2, <3>3 DEF Closed
  <2>3. CASE RedialTx(w)
    <3>1. PICK q \in Rows : st[r] = "connected" /\ Insert(q, RedialCopy(r)) /\ st' = [st EXCEPT ![r] = "done", ![q] = "pending"]
      BY <2>2, <2>3, Zenon DEF RedialTx
    <3>2. pc'[w] = "advance"
      BY <2>3 DEF RedialTx, Goto, Ground, TypeOK, TypeWorkers
    <3>3. r \in InFlight /\ dials[r] # 0
      BY <2>2, <3>1 DEF InFlight, Ground, RangInv
    <3> QED
      BY <2>2, <3>1, <3>2, <3>3, OneInsert
  <2>4. CASE Miss(w)
    <3>1. st' # [st EXCEPT ![r] = "no_connect"]
      BY <1>3, <2>2 DEF Inserts, FreshRow, Ground, TypeOK, TypeQueue
    <3>2. PICK q \in Rows : st[r] = "dialing" /\ Insert(q, RetryCopy(r)) /\ st' = [st EXCEPT ![r] = "no_connect", ![q] = "pending"]
      BY <2>2, <2>4, <3>1, Zenon DEF Miss
    <3>3. pc'[w] = "advance"
      BY <2>4, <2>2, <3>1 DEF Miss, AfterMiss, Goto, Ground, TypeOK, TypeWorkers
    <3>4. r \in InFlight /\ dials[r] # 0
      BY <2>2, <2>4, <3>2 DEF InFlight, Ground, RangInv, Miss, PastCall
    <3> QED
      BY <2>2, <3>2, <3>3, <3>4, OneInsert
  <2> QED
    BY <2>1, <2>3, <2>4
<1> QED
  BY <1>1, <1>2, <1>3, RowsInserted DEF Ground

\* In a run nobody takes a callback in, one item at most is in flight (state.ts
\* inFlightItem): two advances that both read the queue before either claimed hold
\* every row still to ring, so they choose the same row and one loses the claim;
\* and a snapshot from before a row was queued again holds no row still to ring.
\* takeCallback breaks it: its copy takes the cancelled row's ordinal and waits
\* behind a floor, so two snapshots may choose differently (run twocalls).
THEOREM OneCallHolds ==
  ASSUME "callback" \notin Ops
  PROVE  Spec => []OneCallPerRun
<1>1. Init => OneInv
  <2> SUFFICES ASSUME Init PROVE OneInv
    OBVIOUS
  <2>1. InFlight = {} /\ \A w \in Workers : pc[w] = "idle"
    BY DEF Init, InFlight
  <2>2. \A r \in Open : row[r] = [ord |-> r, person |-> r, attempt |-> 1, redial |-> FALSE, floor |-> FALSE]
    <3>1. \A r \in Open : r \in Rows /\ r <= N
      BY RunAssumption DEF Init, Open, Rows
    <3> QED
      BY <3>1 DEF Init
  <2>3. Waiting \subseteq Open
    BY DEF Waiting, Open
  <2>4. ASSUME NEW r \in Open PROVE row[r].ord = r /\ row[r].floor = FALSE
    <3> DEFINE k == [ord |-> r, person |-> r, attempt |-> 1, redial |-> FALSE, floor |-> FALSE]
    <3>1. k.ord = r /\ k.floor = FALSE
      OBVIOUS
    <3> HIDE DEF k
    <3>2. row[r] = k
      BY <2>2 DEF k
    <3> QED
      BY <3>1, <3>2
  <2>5. Distinct /\ FloorsLast
    BY <2>3, <2>4 DEF Distinct, FloorsLast
  <2>6. Snapshots /\ HolderSnaps
    BY <2>1 DEF Snapshots, HolderSnaps, Picking, Holder
  <2> QED
    BY <2>1, <2>5, <2>6 DEF OneInv, OneCallPerRun, FlightFirst
<1>2. Ground /\ NoneTaken /\ OneInv /\ [Next]_vars => OneInv'
  BY OneStep
<1>3. Spec => []NoneTaken
  BY NoneTakenHolds
<1>4. OneInv => OneCallPerRun
  BY DEF OneInv
<1>5. TypeOK /\ Ownership /\ RangInv /\ TableInv => Ground
  BY DEF Ground
<1> QED
  BY <1>1, <1>2, <1>3, <1>4, <1>5, TypeCorrect, OwnershipHolds, RangHolds, TableHolds, PTL DEF Spec

-----------------------------------------------------------------------------
(* NoExtraDial.                                                            *)

\* A copy queued by a transaction that closes its row.
Copies(w, q) ==
  LET r == job[w].row IN
  /\ r \in Rows /\ q \in Rows /\ q # r /\ FreshRow(q) /\ st[r] \in {"dialing", "connected"}
  /\ \/ /\ RedialTx(w) /\ st[r] = "connected" /\ canceled' = canceled
        /\ st' = [st EXCEPT ![r] = "done", ![q] = "pending"]
        /\ row' = [row EXCEPT ![q] = RedialCopy(r)]
     \/ /\ TakeCallbackTx(w) /\ st[r] = "dialing" /\ canceled' = [canceled EXCEPT ![r] = TRUE]
        /\ st' = [st EXCEPT ![r] = "skipped", ![q] = "pending"]
        /\ row' = [row EXCEPT ![q] = CallbackCopy(r)]
     \/ /\ Miss(w) /\ st[r] = "dialing" /\ job[w].requeue /\ \E b \in BOOLEAN : canceled' = [canceled EXCEPT ![r] = b]
        /\ st' = [st EXCEPT ![r] = "no_connect", ![q] = "pending"]
        /\ row' = [row EXCEPT ![q] = RetryCopy(r)]

LEMMA Copied ==
  ASSUME TypeOK, [Next]_vars
  PROVE  Uninserted \/ \E w \in Workers, q \in Rows : Copies(w, q)
<1> SUFFICES ASSUME NEW w \in Workers, NEW p \in Rows, Inserts(w, p)
             PROVE  \E q \in Rows : Copies(w, q)
  BY RowsInserted
<1> DEFINE r == job[w].row
<1>1. /\ st[p] = "absent" /\ st'[p] = "pending" /\ st \in [Rows -> ItemStatus] /\ st' # st
      /\ r # 0 => r \in Rows /\ st[r] # "absent"
      /\ \A q \in Rows : FreshRow(q) => st[q] = "absent"
  BY JobType DEF Inserts, FreshRow, TypeOK, TypeQueue
<1>2. CASE RedialTx(w)
  <2>1. r \in Rows
    BY <1>1, <1>2, JobType DEF RedialTx, RowSteps, TypeOK
  <2>2. PICK q \in Rows : /\ st[r] = "connected" /\ FreshRow(q) /\ row' = [row EXCEPT ![q] = RedialCopy(r)]
                          /\ st' = [st EXCEPT ![r] = "done", ![q] = "pending"]
    BY <1>1, <1>2, Zenon DEF RedialTx, Insert
  <2>3. canceled' = canceled /\ q # r
    BY <1>1, <1>2, <2>2 DEF RedialTx
  <2> QED
    BY <1>2, <2>1, <2>2, <2>3 DEF Copies
<1>3. CASE TakeCallbackTx(w)
  <2>1. PICK q \in Rows : /\ r # 0 /\ st[r] = "dialing" /\ FreshRow(q) /\ row' = [row EXCEPT ![q] = CallbackCopy(r)]
                          /\ st' = [st EXCEPT ![r] = "skipped", ![q] = "pending"]
                          /\ canceled' = [canceled EXCEPT ![r] = TRUE]
    BY <1>1, <1>3, Zenon DEF TakeCallbackTx, Insert
  <2>2. r \in Rows /\ q # r
    BY <1>1, <2>1
  <2> QED
    BY <1>3, <2>1, <2>2 DEF Copies
<1>4. CASE Miss(w)
  <2>1. r \in Rows
    BY <1>1, <1>4, JobType DEF Miss, RowSteps, TypeOK
  <2>2. st' # [st EXCEPT ![r] = "no_connect"]
    BY <1>1, <2>1
  <2>3. PICK q \in Rows : /\ st[r] = "dialing" /\ job[w].requeue /\ FreshRow(q)
                          /\ row' = [row EXCEPT ![q] = RetryCopy(r)]
                          /\ st' = [st EXCEPT ![r] = "no_connect", ![q] = "pending"]
                          /\ canceled' = [canceled EXCEPT ![r] = (job[w].outcome = "canceled")]
    BY <1>1, <1>4, <2>2, Zenon DEF Miss, Insert
  <2>4. q # r /\ (job[w].outcome = "canceled") \in BOOLEAN
    BY <1>1, <2>3
  <2> QED
    BY <1>4, <2>1, <2>3, <2>4 DEF Copies
<1> QED
  BY <1>2, <1>3, <1>4 DEF Inserts, Requeuing

\* What a copy leaves of the columns.
LEMMA CopyColumns ==
  ASSUME NEW r, row[r] \in Row
  PROVE  /\ RedialCopy(r).person = row[r].person /\ RedialCopy(r).attempt = row[r].attempt /\ RedialCopy(r).redial
         /\ CallbackCopy(r).person = row[r].person /\ CallbackCopy(r).attempt = row[r].attempt
         /\ CallbackCopy(r).redial = row[r].redial
         /\ RetryCopy(r).person = row[r].person /\ RetryCopy(r).attempt = 2 /\ RetryCopy(r).redial = row[r].redial
BY DEF Row, RedialCopy, CallbackCopy, RetryCopy

\* A row's outcome is canceled only as it is closed.
LEMMA Cancels ==
  ASSUME TypeOK, [Next]_vars, NEW r \in Rows
  PROVE  canceled'[r] = canceled[r] \/ (st[r] = "dialing" /\ st'[r] \in Settled)
<1>1. CASE \A w \in Workers : ~Writes(w)
  BY <1>1, Reads
<1>2. ASSUME NEW w \in Workers, Writes(w) PROVE canceled'[r] = canceled[r] \/ (st[r] = "dialing" /\ st'[r] \in Settled)
  <2>1. /\ pc[w] \in RowSteps => job[w].row \in Rows
        /\ job[w].row # 0 => job[w].row \in Rows /\ st[job[w].row] # "absent"
        /\ st \in [Rows -> ItemStatus] /\ canceled \in [Rows -> BOOLEAN]
    BY JobType DEF TypeOK, TypeQueue
  <2>2. CASE \/ GateSkip(w) \/ Claim(w) \/ OriginateRefused(w) \/ OriginateFailed(w)
             \/ Start(w) \/ SettleCurrent(w) \/ EndRow(w) \/ RedialTx(w) \/ Connect(w)
    BY <2>2, Zenon DEF GateSkip, Claim, OriginateRefused, OriginateFailed, Start, SettleCurrent, EndRow,
       RedialTx, Connect
  <2>3. CASE TakeCallbackTx(w)
    <3>1. \/ canceled' = canceled
          \/ \E q \in Rows : /\ job[w].row # 0 /\ st[job[w].row] = "dialing" /\ canceled' = [canceled EXCEPT ![job[w].row] = TRUE]
                             /\ st' = [st EXCEPT ![job[w].row] = "skipped", ![q] = "pending"] /\ st[q] = "absent"
      BY <2>3, Zenon DEF TakeCallbackTx, Insert, FreshRow
    <3> QED
      BY <2>1, <3>1 DEF Settled
  <2>4. CASE CutLate(w)
    BY <2>1, <2>4 DEF CutLate, RowSteps, Settled
  <2>5. CASE Miss(w)
    <3>1. \/ canceled' = canceled
          \/ /\ job[w].row \in Rows /\ st[job[w].row] = "dialing"
             /\ \E b : canceled' = [canceled EXCEPT ![job[w].row] = b]
             /\ \/ st' = [st EXCEPT ![job[w].row] = "no_connect"]
                \/ \E q \in Rows : st' = [st EXCEPT ![job[w].row] = "no_connect", ![q] = "pending"] /\ st[q] = "absent"
      <4>1. job[w].row \in Rows
        BY <2>1, <2>5 DEF Miss, RowSteps
      <4> QED
        BY <2>5, <4>1, Zenon DEF Miss, Insert, FreshRow
    <3> QED
      BY <2>1, <3>1 DEF Settled
  <2> QED
    BY <1>2, <2>2, <2>3, <2>4, <2>5 DEF Writes
<1> QED
  BY <1>1, <1>2

\* Only Next and End's unconditional writes take a row out of skipped.
LEMMA SkippedLeaves ==
  ASSUME TypeOK, ReadyInv, [Next]_vars, NEW r \in Rows, st[r] = "skipped", st'[r] # "skipped"
  PROVE  \E w \in Workers : pc[w] \in {"setDoneRow", "endRow"} /\ job[w].row = r
<1>1. PICK w \in Workers : Writes(w)
  BY Reads
<1>2. /\ pc[w] \in RowSteps => job[w].row \in Rows
      /\ NextItems(job[w]) \subseteq Rows /\ st \in [Rows -> ItemStatus]
  BY JobType DEF TypeOK, TypeQueue, NextItems, Eligible, Job
<1>3. CASE GateSkip(w) \/ Claim(w)
  BY <1>2, <1>3 DEF GateSkip, Claim, Claimable
<1>4. CASE OriginateRefused(w) \/ OriginateFailed(w)
  BY <1>2, <1>4 DEF OriginateRefused, OriginateFailed, RolledBack
<1>5. CASE Start(w)
  BY <1>5 DEF Start, ReadyInv, Unstarted
<1>6. CASE SettleCurrent(w) \/ EndRow(w)
  <2>1. r = job[w].row
    BY <1>2, <1>6 DEF SettleCurrent, EndRow, RowSteps
  <2>2. pc[w] # "setSkipped"
    BY <1>2, <1>6, <2>1 DEF SettleCurrent, EndRow, RowSteps
  <2> QED
    BY <1>6, <2>1, <2>2 DEF SettleCurrent, EndRow
<1>7. CASE CutLate(w) \/ Connect(w)
  BY <1>2, <1>7 DEF CutLate, Connect
<1>8. CASE RedialTx(w) \/ TakeCallbackTx(w) \/ Miss(w)
  <2>1. Requeues(job[w].row)
    BY <1>8, RequeueTxWrites
  <2> QED
    BY <1>2, <2>1 DEF Requeues, Insert, FreshRow
<1> QED
  BY <1>1, <1>3, <1>4, <1>5, <1>6, <1>7, <1>8 DEF Writes

\* The run's own tries of a person: rows that are no redial, save those cancelled
\* for a callback, each of which was queued again.
Own(r) == st[r] # "absent" /\ ~row[r].redial
Try(r) == Own(r) /\ ~(st[r] = "skipped" /\ canceled[r])
AttemptsNumbered == \A r \in Rows : st[r] # "absent" => row[r].attempt \in {1, 2}
CanceledSettled == \A r \in Rows : canceled[r] => st[r] \in Settled
\* Next and End write over rows that were connected.
Closing(w) == pc[w] \in {"setDoneRow", "endRow"} \/ (pc[w] = "pauseToEnd" /\ job[w].row # 0)
ClosesConnected ==
  \A w \in Workers : Closing(w) => ~canceled[job[w].row] /\ st[job[w].row] \notin {"absent", "pending", "dialing"}
\* One try of a person is the first, one the second; the second follows the first.
TriesOnce ==
  \A q, r \in Rows : Try(q) /\ Try(r) /\ row[q].person = row[r].person /\ row[q].attempt = row[r].attempt => q = r
SecondLast ==
  \A q, r \in Rows : Own(q) /\ Own(r) /\ row[q].person = row[r].person /\ row[q].attempt = 2 =>
                       passes = 2 /\ (row[r].attempt = 1 => r \notin Open)
\* A miss that will queue a retry is of a first try, in a run of two passes.
RetriesFirst ==
  \A w \in Workers : pc[w] \in {"history", "miss"} /\ job[w].requeue =>
                       row[job[w].row].attempt = 1 /\ passes = 2 /\ ~row[job[w].row].redial
TriesInv == AttemptsNumbered /\ CanceledSettled /\ ClosesConnected /\ TriesOnce /\ SecondLast /\ RetriesFirst

LEMMA RunFixed ==
  ASSUME ReadyInv, [Next]_vars, NEW w \in Workers, pc[w] \notin {"idle", "setStopped"}
  PROVE  passes' = passes /\ \A v \in Workers : ~Start(v)
<1>1. session # "ready"
  BY DEF ReadyInv, Unstarted
<1>2. \A v \in Workers : ~Start(v)
  BY <1>1 DEF Start
<1> QED
  BY <1>2, Opened

\* No row opens but by being queued.
LEMMA OpensOnly ==
  ASSUME TypeOK, [Next]_vars, NEW r \in Rows, st[r] # "absent", r \in Open'
  PROVE  r \in Open
BY RowReaches DEF Reaches, Open

\* A row on the table keeps its columns.
LEMMA ColumnsKept ==
  ASSUME TypeOK, [Next]_vars, NEW r \in Rows, st[r] # "absent"
  PROVE  row'[r] = row[r] /\ st'[r] # "absent"
<1>1. st'[r] # "absent"
  BY RowReaches DEF Reaches
<1>2. ASSUME NEW w \in Workers, NEW q \in Rows, Inserts(w, q) PROVE row'[r] = row[r]
  BY <1>2 DEF Inserts, FreshRow, TypeOK, TypeQueue
<1> QED
  BY <1>1, <1>2, RowsInserted DEF Uninserted

LEMMA NextReads ==
  ASSUME TypeOK, NEW w \in Workers, RepNext(w) \/ EndCall(w), job'[w].row # 0
  PROVE  job'[w].row \in Rows /\ st[job'[w].row] = "connected" /\ UNCHANGED <<st, canceled>>
<1> DEFINE J(r) == [[NoJob EXCEPT !.row = r, !.sid = sid[r]] EXCEPT !.due = due]
           K == [NoJob EXCEPT !.due = due]
<1>3. K.row = 0 /\ \A r : J(r).row = r
  BY DEF NoJob
<1>4. (\E s : Goto(w, s, K)) \/ \E r \in InFlight : \E s : st[r] = "connected" /\ Goto(w, s, J(r))
  BY Zenon DEF RepNext, EndCall, Begin
<1> HIDE DEF J, K
<1>5. job'[w] = K \/ \E r \in InFlight : st[r] = "connected" /\ job'[w] = J(r)
  BY <1>4 DEF Goto, TypeOK, TypeWorkers
<1>6. UNCHANGED <<st, canceled>>
  BY DEF RepNext, EndCall, queueVars
<1> QED
  BY <1>3, <1>5, <1>6 DEF InFlight

LEMMA ClosingStep ==
  ASSUME TypeOK, CanceledSettled, ClosesConnected, [Next]_vars
  PROVE  ClosesConnected'
<1> SUFFICES ASSUME NEW w \in Workers, Closing(w)'
             PROVE  ~canceled'[job'[w].row] /\ st'[job'[w].row] \notin {"absent", "pending", "dialing"}
  BY DEF ClosesConnected
<1>1. CASE Closing(w) /\ job'[w] = job[w]
  <2> DEFINE r == job[w].row
  <2>1. r \in Rows /\ ~canceled[r] /\ st[r] \notin {"absent", "pending", "dialing"}
    BY <1>1, JobType DEF ClosesConnected, Closing, TypeOK, RowSteps
  <2>2. ~canceled'[r]
    BY <2>1, Cancels
  <2>3. st'[r] \notin {"absent", "pending", "dialing"}
    BY <2>1, RowReaches DEF Reaches
  <2> QED
    BY <1>1, <2>2, <2>3
<1>2. CASE ~Still(w)
  <2>1. Via(w, pc'[w])
    BY <1>2, Arrivals
  <2>2. CASE RepNext(w) \/ EndCall(w)
    <3>1. job'[w].row # 0
      <4>1. TypeOK'
        BY StepType
      <4> QED
        BY <4>1 DEF Closing, TypeOK, TypeWorkers, RowSteps
    <3>2. job'[w].row \in Rows /\ st[job'[w].row] = "connected" /\ UNCHANGED <<st, canceled>>
      BY <2>2, <3>1, NextReads
    <3> QED
      BY <3>2 DEF CanceledSettled, Settled
  <2>3. CASE PauseToEnd(w) /\ pc'[w] = "endRow"
    <3>1. job[w].row # 0 /\ pc[w] = "pauseToEnd" /\ job'[w] = job[w]
      <4>1. CASE Finish(w, job[w])
        <5>1. pc'[w] \in {"idle", "amdHangUp"}
          BY <4>1 DEF Finish, Goto, TypeOK, TypeWorkers
        <5> QED
          BY <2>3, <5>1
      <4>2. CASE job[w].row # 0 /\ Goto(w, "endRow", job[w])
        BY <2>3, <4>2 DEF PauseToEnd, Goto, TypeOK, TypeWorkers
      <4> QED
        BY <2>3, <4>1, <4>2 DEF PauseToEnd
    <3> QED
      BY <1>1, <3>1 DEF Closing
  <2> QED
    BY <2>1, <2>2, <2>3 DEF Via, Closing
<1> QED
  BY <1>1, <1>2 DEF Still, Closing

LEMMA RetriesStep ==
  ASSUME TypeOK, ReadyInv, TriesInv, [Next]_vars
  PROVE  RetriesFirst'
<1> SUFFICES ASSUME NEW w \in Workers, pc'[w] \in {"history", "miss"}, job'[w].requeue
             PROVE  row'[job'[w].row].attempt = 1 /\ passes' = passes /\ passes = 2 /\ ~row'[job'[w].row].redial
  BY DEF RetriesFirst
<1>1. ASSUME pc[w] \in {"history", "miss"}, job'[w].row = job[w].row, job[w].requeue
      PROVE  row'[job'[w].row].attempt = 1 /\ passes' = passes /\ passes = 2 /\ ~row'[job'[w].row].redial
  <2>1. job[w].row \in Rows /\ st[job[w].row] # "absent"
    BY <1>1, JobType DEF TypeOK, RowSteps
  <2> QED
    BY <1>1, <2>1, ColumnsKept, RunFixed DEF TriesInv, RetriesFirst
<1>2. CASE Still(w)
  BY <1>1, <1>2 DEF Still
<1>3. CASE ~Still(w)
  <2>1. ReadRun(w) \/ ReadHistory(w)
    BY <1>3, Arrivals DEF Via
  <2>2. job'[w].row = job[w].row /\ job[w].row \in Rows /\ st[job[w].row] # "absent" /\ job[w] \in Job
    BY <2>1, KeepsJobRow, JobType DEF TypeOK, ReadRun, ReadHistory, RowSteps
  <2>3. CASE ReadHistory(w)
    <3> DEFINE k == [job[w] EXCEPT !.roll = RolloverDue(row[job[w].row].person)]
    <3>1. \E s : Goto(w, s, job[w]) \/ Goto(w, s, k)
      BY <2>3, Zenon DEF ReadHistory
    <3>2. k.requeue = job[w].requeue
      BY <2>2 DEF Job
    <3> HIDE DEF k
    <3>3. job'[w] = job[w] \/ job'[w] = k
      BY <3>1 DEF Goto, TypeOK, TypeWorkers
    <3> QED
      BY <1>1, <2>2, <2>3, <3>2, <3>3 DEF ReadHistory
  <2>4. CASE ReadRun(w)
    <3> DEFINE k == [job[w] EXCEPT !.requeue = Requeue(job[w].row)]
    <3>1. (\E s \in {"connect", "cutLate"} : Goto(w, s, job[w])) \/ \E s : Goto(w, s, k)
      BY <2>4, Zenon DEF ReadRun
    <3>2. k.requeue = Requeue(job[w].row)
      BY <2>2 DEF Job
    <3> HIDE DEF k
    <3>3. (pc'[w] \in {"connect", "cutLate"}) \/ job'[w] = k
      BY <3>1 DEF Goto, TypeOK, TypeWorkers
    <3>4. Requeue(job[w].row)
      BY <3>2, <3>3
    <3>5. row[job[w].row].attempt \in {1, 2} /\ passes \in {1, 2}
      BY <2>2 DEF TriesInv, AttemptsNumbered, TypeOK, TypeRun
    <3>6. row[job[w].row].attempt = 1 /\ passes = 2 /\ ~row[job[w].row].redial
      BY <3>4, <3>5 DEF Requeue
    <3> QED
      BY <2>2, <2>4, <3>6, ColumnsKept, RunFixed DEF ReadRun
  <2> QED
    BY <2>1, <2>3, <2>4
<1> QED
  BY <1>2, <1>3
\* A row on the table that is a try after the step was one before it.
LEMMA TryBefore ==
  ASSUME TypeOK, ReadyInv, ClosesConnected, [Next]_vars, NEW x \in Rows, st[x] # "absent"
  PROVE  (Try(x)' => Try(x)) /\ (Own(x)' = Own(x)) /\ row'[x] = row[x]
<1>1. row'[x] = row[x] /\ st'[x] # "absent" /\ Own(x)' = Own(x)
  BY ColumnsKept DEF Own
<1>2. ASSUME st[x] = "skipped", canceled[x] PROVE st'[x] = "skipped" /\ canceled'[x]
  <2>1. st'[x] = "skipped"
    <3> SUFFICES ASSUME st'[x] # "skipped" PROVE FALSE
      OBVIOUS
    <3>1. PICK w \in Workers : pc[w] \in {"setDoneRow", "endRow"} /\ job[w].row = x
      BY <1>2, SkippedLeaves
    <3> QED
      BY <1>2, <3>1 DEF ClosesConnected, Closing
  <2>2. canceled'[x]
    BY <1>2, Cancels
  <2> QED
    BY <2>1, <2>2
<1> QED
  BY <1>1, <1>2 DEF Try

\* With nothing queued.
LEMMA TriesKept ==
  ASSUME TypeOK, ReadyInv, TriesInv, [Next]_vars, Uninserted
  PROVE  AttemptsNumbered' /\ TriesOnce' /\ SecondLast'
<1>1. \A x \in Rows : st'[x] # "absent" => st[x] # "absent" /\ row'[x] = row[x]
  BY DEF Uninserted
<1>2. AttemptsNumbered'
  BY <1>1 DEF TriesInv, AttemptsNumbered
<1>3. \A x \in Rows : Try(x)' => Try(x) /\ row'[x] = row[x]
  BY <1>1, TryBefore DEF TriesInv, Try, Own
<1>4. \A x \in Rows : Own(x)' => Own(x) /\ row'[x] = row[x]
  BY <1>1 DEF Own
<1>5. TriesOnce'
  BY <1>3 DEF TriesInv, TriesOnce
<1>6. ASSUME NEW q \in Rows, NEW r \in Rows, Own(q)', Own(r)', row'[q].person = row'[r].person, row'[q].attempt = 2
      PROVE  passes' = 2 /\ (row'[r].attempt = 1 => r \notin Open')
  <2>1. /\ Own(q) /\ Own(r) /\ row[q].person = row[r].person /\ row[q].attempt = 2 /\ row'[r] = row[r]
        /\ st[r] # "absent" /\ st[q] # "absent"
    BY <1>4, <1>6 DEF Own
  <2>2. passes = 2 /\ (row[r].attempt = 1 => r \notin Open)
    BY <2>1 DEF TriesInv, SecondLast
  <2>3. passes' = passes
    <3>1. ASSUME NEW w \in Workers, Start(w) PROVE FALSE
      <4> DEFINE k == [ord |-> q, person |-> q, attempt |-> 1, redial |-> FALSE, floor |-> FALSE]
      <4>1. row[q] = k
        <5>1. ~(q > N) /\ row[q] = IF q <= N THEN k ELSE NoRow
          BY <2>1, <3>1 DEF Start, ReadyInv, Unstarted
        <5>2. q <= N
          BY <5>1, RunAssumption DEF Rows
        <5> QED
          BY <5>1, <5>2
      <4>2. row[q].attempt = 1
        BY <4>1
      <4> QED
        BY <2>1, <4>2
    <3> QED
      BY <3>1, Opened
  <2> QED
    BY <2>1, <2>2, <2>3, OpensOnly
<1>7. SecondLast'
  BY <1>6 DEF SecondLast
<1> QED
  BY <1>2, <1>5, <1>7

\* With a copy queued.
LEMMA TriesCopied ==
  ASSUME TypeOK, ReadyInv, TriesInv, [Next]_vars, NEW w \in Workers, NEW q \in Rows, Copies(w, q)
  PROVE  AttemptsNumbered' /\ TriesOnce' /\ SecondLast'
<1>0. PICK r \in Rows : r = job[w].row
  BY DEF Copies
<1>1. /\ r \in Rows /\ q # r /\ st[q] = "absent" /\ st[r] \in {"dialing", "connected"} /\ r \in Open
      /\ row[r] \in Row /\ row[r].attempt \in {1, 2} /\ ~canceled[q]
      /\ st \in [Rows -> ItemStatus] /\ row \in [Rows -> Row] /\ canceled \in [Rows -> BOOLEAN]
      /\ passes \in {1, 2}
  BY <1>0 DEF Copies, FreshRow, TypeOK, TypeQueue, TypeRun, TriesInv, AttemptsNumbered, CanceledSettled, Settled, Open
<1>2. \A x \in Rows : st[x] # "absent" => (Try(x)' => Try(x)) /\ Own(x)' = Own(x) /\ row'[x] = row[x]
  BY TryBefore DEF TriesInv
<1>3. \A x \in Rows : x # q => (st'[x] # "absent" => st[x] # "absent")
  BY <1>0, <1>1 DEF Copies
<1>4. /\ r \notin Open' /\ row'[q].person = row[r].person
      /\ ~row'[q].redial => ~row[r].redial /\ st[r] = "dialing"
      /\ \/ row'[q].redial /\ row'[q].attempt = row[r].attempt
         \/ row'[q].attempt = row[r].attempt /\ ~Try(r)'
         \/ row'[q].attempt = 2 /\ row[r].attempt = 1 /\ passes = 2
  <2>1. CASE RedialTx(w) /\ row' = [row EXCEPT ![q] = RedialCopy(r)] /\ st' = [st EXCEPT ![r] = "done", ![q] = "pending"]
    <3>1. row'[q] = RedialCopy(r) /\ st'[r] = "done"
      BY <1>1, <2>1
    <3> QED
      BY <1>1, <3>1, CopyColumns DEF Open
  <2>2. CASE /\ TakeCallbackTx(w) /\ row' = [row EXCEPT ![q] = CallbackCopy(r)] /\ st[r] = "dialing"
             /\ st' = [st EXCEPT ![r] = "skipped", ![q] = "pending"] /\ canceled' = [canceled EXCEPT ![r] = TRUE]
    <3>1. row'[q] = CallbackCopy(r) /\ st'[r] = "skipped" /\ canceled'[r] = TRUE
      <4>1. row'[q] = CallbackCopy(r)
        BY <1>1, <2>2
      <4>2. st'[r] = "skipped"
        BY <1>1, <2>2
      <4>3. canceled'[r] = TRUE
        BY <1>1, <2>2
      <4> QED
        BY <4>1, <4>2, <4>3
    <3>2. ~Try(r)' /\ r \notin Open'
      BY <3>1 DEF Try, Open
    <3> QED
      BY <1>1, <2>2, <3>1, <3>2, CopyColumns
  <2>3. CASE /\ Miss(w) /\ row' = [row EXCEPT ![q] = RetryCopy(r)] /\ st[r] = "dialing" /\ job[w].requeue
             /\ st' = [st EXCEPT ![r] = "no_connect", ![q] = "pending"]
    <3>1. row'[q] = RetryCopy(r) /\ st'[r] = "no_connect"
      BY <1>1, <2>3
    <3>2. row[r].attempt = 1 /\ passes = 2 /\ ~row[r].redial
      BY <1>0, <2>3 DEF TriesInv, RetriesFirst, Miss
    <3> QED
      BY <1>1, <2>3, <3>1, <3>2, CopyColumns DEF Open
  <2> QED
    BY <1>0, <2>1, <2>2, <2>3 DEF Copies
<1>5. AttemptsNumbered'
  BY <1>1, <1>2, <1>3, <1>4 DEF TriesInv, AttemptsNumbered
<1>6. Own(q)' => Try(r) /\ Own(r)
  BY <1>1, <1>4 DEF Own, Try
<1>7. ASSUME NEW x \in Rows, x # q, Try(x)', Try(q)', row'[x].person = row'[q].person, row'[x].attempt = row'[q].attempt
      PROVE  FALSE
  <2>1. Try(x) /\ Own(x) /\ row'[x] = row[x]
    BY <1>2, <1>3, <1>7 DEF Try, Own
  <2>2. Own(q)' /\ Try(r) /\ Own(r) /\ ~row'[q].redial
    BY <1>6, <1>7 DEF Try, Own
  <2>3. CASE row'[q].attempt = row[r].attempt /\ ~Try(r)'
    <3>1. row[x].person = row[r].person /\ row[x].attempt = row[r].attempt
      BY <1>4, <1>7, <2>1, <2>3
    <3>2. x = r
      BY <1>1, <2>1, <2>2, <3>1 DEF TriesInv, TriesOnce
    <3> QED
      BY <1>7, <2>3, <3>2
  <2>4. CASE row'[q].attempt = 2 /\ row[r].attempt = 1
    <3>1. r \notin Open
      BY <1>1, <1>4, <1>7, <2>1, <2>2, <2>4 DEF TriesInv, SecondLast
    <3> QED
      BY <1>1, <3>1
  <2> QED
    BY <1>4, <2>2, <2>3, <2>4
<1>8. TriesOnce'
  <2> SUFFICES ASSUME NEW x \in Rows, NEW y \in Rows, Try(x)', Try(y)', x # y,
                      row'[x].person = row'[y].person, row'[x].attempt = row'[y].attempt
               PROVE  FALSE
    BY DEF TriesOnce
  <2>1. CASE x # q /\ y # q
    <3>1. Try(x) /\ row'[x] = row[x] /\ Try(y) /\ row'[y] = row[y]
      BY <1>2, <1>3, <2>1 DEF Try, Own
    <3> QED
      BY <3>1 DEF TriesInv, TriesOnce
  <2>2. CASE x = q \/ y = q
    BY <1>7, <2>2
  <2> QED
    BY <2>1, <2>2
<1>9. passes' = passes
  <2>1. session # "ready"
    BY <1>1 DEF ReadyInv, Unstarted
  <2> QED
    BY <2>1, Opened DEF Start
<1>10. ASSUME NEW x \in Rows, NEW y \in Rows, Own(x)', Own(y)', row'[x].person = row'[y].person, row'[x].attempt = 2
       PROVE  passes = 2 /\ (row'[y].attempt = 1 => y \notin Open')
  <2>1. \A z \in Rows : z # q /\ Own(z)' => Own(z) /\ row'[z] = row[z] /\ st[z] # "absent"
    BY <1>2, <1>3 DEF Own
  <2>2. CASE x # q /\ y # q
    <3>1. passes = 2 /\ (row[y].attempt = 1 => y \notin Open)
      BY <1>10, <2>1, <2>2 DEF TriesInv, SecondLast
    <3> QED
      BY <1>10, <2>1, <2>2, <3>1, OpensOnly
  <2>3. CASE x # q /\ y = q
    <3>1. Own(r) /\ row[x].person = row[r].person /\ row[x].attempt = 2 /\ Own(x)
      BY <1>4, <1>6, <1>10, <2>1, <2>3
    <3>2. passes = 2 /\ row[r].attempt # 1
      BY <1>1, <3>1 DEF TriesInv, SecondLast
    <3> QED
      BY <1>1, <1>4, <2>3, <3>2
  <2>4. CASE x = q /\ y # q
    <3>1. Own(y) /\ Try(r) /\ Own(r) /\ row[y].person = row[r].person /\ row'[y] = row[y] /\ st[y] # "absent"
      BY <1>4, <1>6, <1>10, <2>1, <2>4
    <3>2. CASE row[r].attempt = 2
      <4>1. passes = 2 /\ (row[y].attempt = 1 => y \notin Open)
        BY <1>1, <3>1, <3>2 DEF TriesInv, SecondLast
      <4> QED
        BY <3>1, <4>1, OpensOnly
    <3>3. CASE row[r].attempt = 1
      <4>1. passes = 2
        BY <1>4, <1>10, <2>4, <3>3 DEF Own
      <4>2. y \in Open /\ row[y].attempt = 1 => y = r
        BY <1>1, <3>1, <3>3 DEF TriesInv, TriesOnce, Try, Open
      <4> QED
        BY <1>4, <3>1, <4>1, <4>2, OpensOnly
    <3> QED
      BY <1>1, <3>2, <3>3
  <2>5. CASE x = q /\ y = q
    <3>1. CASE row[r].attempt = 2
      BY <1>1, <1>6, <1>10, <2>5, <3>1 DEF TriesInv, SecondLast
    <3>2. CASE row[r].attempt = 1
      BY <1>4, <1>10, <2>5, <3>2 DEF Own
    <3> QED
      BY <1>1, <1>10, <2>5, <3>1, <3>2
  <2> QED
    BY <2>2, <2>3, <2>4, <2>5
<1>11. SecondLast'
  BY <1>9, <1>10 DEF SecondLast
<1> QED
  BY <1>5, <1>8, <1>11

LEMMA TriesHold == Spec => []TriesInv
<1>1. Init => TriesInv
  <2> SUFFICES ASSUME Init PROVE TriesInv
    OBVIOUS
  <2>1. /\ \A w \in Workers : pc[w] = "idle"
        /\ \A r \in Rows : ~canceled[r] /\ (st[r] # "absent" => r <= N)
    BY RunAssumption DEF Init, Rows
  <2>2. ASSUME NEW r \in Rows, st[r] # "absent"
        PROVE  row[r].attempt = 1 /\ row[r].person = r
    <3> DEFINE k == [ord |-> r, person |-> r, attempt |-> 1, redial |-> FALSE, floor |-> FALSE]
    <3>1. k.attempt = 1 /\ k.person = r
      OBVIOUS
    <3> HIDE DEF k
    <3>2. row[r] = k
      BY <2>1, <2>2 DEF Init, k
    <3> QED
      BY <3>1, <3>2
  <2>3. AttemptsNumbered /\ CanceledSettled /\ ClosesConnected /\ RetriesFirst
    BY <2>1, <2>2 DEF AttemptsNumbered, CanceledSettled, ClosesConnected, Closing, RetriesFirst
  <2>4. TriesOnce /\ SecondLast
    BY <2>2 DEF TriesOnce, SecondLast, Try, Own
  <2> QED
    BY <2>3, <2>4 DEF TriesInv
<1>2. TypeOK /\ ReadyInv /\ TriesInv /\ [Next]_vars => TriesInv'
  <2> SUFFICES ASSUME TypeOK, ReadyInv, TriesInv, [Next]_vars PROVE TriesInv'
    OBVIOUS
  <2>1. AttemptsNumbered' /\ TriesOnce' /\ SecondLast'
    BY Copied, TriesKept, TriesCopied
  <2>2. CanceledSettled'
    <3>1. ASSUME NEW r \in Rows, canceled'[r] PROVE st'[r] \in Settled
      <4>1. CASE canceled[r]
        <5>1. st[r] \in Settled
          BY <4>1 DEF TriesInv, CanceledSettled
        <5>2. st'[r] \in ItemStatus /\ st'[r] \notin {"absent", "pending", "dialing", "connected"}
          <6>1. TypeOK'
            BY StepType
          <6> QED
            BY <5>1, <6>1, RowReaches DEF Reaches, Settled, TypeOK, TypeQueue
        <5>3. st'[r] # "trimmed"
          BY <4>1, <5>1, StaysPresent DEF Present, Settled, ReadyInv, Unstarted, Start
        <5> QED
          BY <5>2, <5>3 DEF ItemStatus, Settled
      <4>2. CASE ~canceled[r]
        BY <3>1, <4>2, Cancels
      <4> QED
        BY <4>1, <4>2
    <3> QED
      BY <3>1 DEF CanceledSettled
  <2>3. ClosesConnected' /\ RetriesFirst'
    BY ClosingStep, RetriesStep DEF TriesInv
  <2> QED
    BY <2>1, <2>2, <2>3 DEF TriesInv
<1> QED
  BY <1>1, <1>2, TypeCorrect, ReadyHolds, PTL DEF Spec

\* The run never dials a person on its own more often than Calls per person allows
\* (handleDialOutcome requeue, callbackRequeue), whatever callbacks are delivered
\* twice, callbacks taken, rows skipped or dials rolled back: a person has one row
\* of each attempt that is not a redial or a dial cancelled for a callback, and a
\* second attempt only in a run of two.
THEOREM NeverDialedExtra == Spec => []NoExtraDial
<1>1. TypeOK /\ Ownership /\ TriesInv => NoExtraDial
  <2> SUFFICES ASSUME TypeOK, Ownership, TriesInv, NEW p \in People
               PROVE  Cardinality(OwnTries(p)) <= passes
    BY DEF NoExtraDial
  <2> DEFINE S == OwnTries(p)
             f == [r \in S |-> row[r].attempt]
  <2>1. \A r \in S : r \in Rows /\ Try(r) /\ row[r].person = p
    BY DEF OwnTries, Try, Own, Ownership, TypeOK, TypePhones
  <2>2. passes \in {1, 2} /\ \A r \in S : row[r].attempt \in 1 .. passes
    <3>1. passes \in {1, 2}
      BY DEF TypeOK, TypeRun
    <3>2. ASSUME NEW r \in S PROVE row[r].attempt = 1 \/ (row[r].attempt = 2 /\ passes = 2)
      BY <2>1, <3>2 DEF TriesInv, AttemptsNumbered, SecondLast, Try, Own
    <3> QED
      BY <3>1, <3>2
  <2>3. \A q, r \in S : row[q].attempt = row[r].attempt => q = r
    BY <2>1 DEF TriesInv, TriesOnce
  <2> HIDE DEF S
  <2>4. f \in Injection(S, 1 .. passes)
    <3>1. f \in [S -> 1 .. passes] /\ \A q, r \in S : f[q] = f[r] => q = r
      BY <2>2, <2>3
    <3> QED
      BY <3>1 DEF Injection, IsInjective
  <2>5. IsFiniteSet(1 .. passes) /\ Cardinality(1 .. passes) = passes
    BY <2>2, FS_Interval
  <2> HIDE DEF f
  <2>6. Cardinality(S) <= Cardinality(1 .. passes)
    BY <2>4, <2>5, FS_Injection
  <2> QED
    BY <2>5, <2>6 DEF S
<1> QED
  BY <1>1, TypeCorrect, OwnershipHolds, TriesHold, PTL

-----------------------------------------------------------------------------
(* The stamp of callId, and NoStuckDial.                                   *)

\* The step that takes a worker on from a step on a dial.
Leaves(w) ==
  /\ pc[w] = "originate" => Originate(w) \/ OriginateRefused(w) \/ OriginateFailed(w)
  /\ pc[w] = "stamp" => Stamp(w)
  /\ pc[w] = "readRun" => ReadRun(w)
  /\ pc[w] = "cutLate" => CutLate(w)
  /\ pc[w] = "connect" => Connect(w)
  /\ pc[w] = "history" => ReadHistory(w)
  /\ pc[w] = "miss" => Miss(w)

LEMMA Departures ==
  ASSUME TypeOK, [Next]_vars, NEW w \in Workers, ~Still(w)
  PROVE  Leaves(w) \/ Crash(w)
<1>1. Advance(w) \/ Buttons(w) \/ Callbacks(w) \/ Crash(w)
  <2>1. ASSUME NEW u \in Workers, u # w, Advance(u) \/ Buttons(u) \/ Callbacks(u) \/ Crash(u) PROVE FALSE
    BY <2>1, Alone
  <2>2. LegLost \/ Phones \/ FloorPasses \/ UNCHANGED vars => Still(w)
    BY Zenon DEF LegLost, Phones, FloorPasses, vars, Still
  <2> QED
    BY <2>1, <2>2 DEF Next
<1> DEFINE On == {"originate", "stamp", "readRun", "cutLate", "connect", "history", "miss"}
<1>2. ASSUME Advance(w), pc[w] \in On PROVE Originate(w) \/ OriginateRefused(w) \/ OriginateFailed(w) \/ Stamp(w)
  <2>1. /\ pc[w] # "advance" /\ pc[w] # "load" /\ pc[w] # "pick" /\ pc[w] # "release" /\ pc[w] # "setDone"
        /\ pc[w] # "reload" /\ pc[w] \notin {"refused", "refusedLost"}
        /\ pc[w] \notin {"hangUp", "hangUpAdvance"} /\ pc[w] # "amdHangUp"
    BY <1>2
  <2> QED
    BY <1>2, <2>1, Zenon DEF Advance, ReadSession, LoadQueue, RunOut, ReleaseAtEnd, SetDone, GateSkip, Reload,
       NoNumbers, Claim, AfterRefusal, HangUp, AmdHangUp
<1>3. ASSUME Buttons(w), pc[w] \in On PROVE FALSE
  <2>1. /\ pc[w] # "idle" /\ pc[w] # "setPaused" /\ pc[w] # "setActive" /\ pc[w] \notin {"setSkipped", "setDoneRow"}
        /\ pc[w] \notin {"releaseAtStop", "releaseIdle"} /\ pc[w] # "setStopped" /\ pc[w] # "cutIdle"
        /\ pc[w] # "findDial" /\ pc[w] # "pauseToEnd" /\ pc[w] # "endRow" /\ pc[w] # "redial"
        /\ pc[w] # "takeCallback"
    BY <1>3
  <2> QED
    BY <1>3, <2>1, Zenon DEF Buttons, Start, StartAgain, Pause, SetPaused, Resume, SetActive, Skip, RepNext,
       SettleCurrent, Stop, ReleaseAtStop, SetStopped, IdleCheck, CutIdle, FindDial, EndCall, PauseToEnd, EndRow,
       Redial, RedialTx, TakeCallback, TakeCallbackTx, Nudge, Begin
<1>4. ASSUME Callbacks(w), pc[w] \in On
      PROVE  ReadRun(w) \/ CutLate(w) \/ Connect(w) \/ ReadHistory(w) \/ Miss(w)
  <2>1. pc[w] # "idle" /\ pc[w] # "stampEnded" /\ pc[w] # "lostConnect" /\ pc[w] # "bridge"
    BY <1>4
  <2> QED
    BY <1>4, <2>1, Zenon DEF Callbacks, Deliver, StampEnded, LostConnect, Bridge
<1>5. /\ Originate(w) \/ OriginateRefused(w) \/ OriginateFailed(w) => pc[w] = "originate"
      /\ Stamp(w) => pc[w] = "stamp"
      /\ ReadRun(w) => pc[w] = "readRun"
      /\ CutLate(w) => pc[w] = "cutLate"
      /\ Connect(w) => pc[w] = "connect"
      /\ ReadHistory(w) => pc[w] = "history"
      /\ Miss(w) => pc[w] = "miss"
  BY Zenon DEF Originate, OriginateRefused, OriginateFailed, Stamp, ReadRun, CutLate, Connect, ReadHistory, Miss
<1>6. CASE pc[w] \notin On
  BY <1>6 DEF Leaves
<1>7. CASE pc[w] \in On
  <2>1. CASE Advance(w)
    BY <1>2, <1>5, <1>7, <2>1 DEF Leaves
  <2>2. CASE Callbacks(w)
    BY <1>4, <1>5, <1>7, <2>2 DEF Leaves
  <2> QED
    BY <1>1, <1>3, <1>7, <2>1, <2>2
<1> QED
  BY <1>6, <1>7

\* A row with a callId has an attempt; the one worker about to stamp a row finds
\* neither; a callback past its look-up found both.
Settling == {"readRun", "cutLate", "connect", "history", "miss"}
StampInv ==
  /\ \A r \in Rows : sid[r] => log[r] # "none"
  /\ \A w \in Workers : pc[w] = "stamp" => log[job[w].row] = "none"
  /\ \A v, w \in Workers : pc[v] = "stamp" /\ pc[w] = "stamp" /\ job[v].row = job[w].row => v = w
  /\ \A w \in Workers : pc[w] \in Settling => log[job[w].row] # "none"

\* An attempt once written is not unwritten.
LEMMA LogWritten ==
  ASSUME TypeOK, [Next]_vars, NEW r \in Rows
  PROVE  /\ log[r] # "none" => log'[r] # "none"
         /\ sid'[r] => sid[r] \/ log'[r] # "none"
         /\ log'[r] # log[r] => \E w \in Workers : /\ Stamp(w) \/ Connect(w)
                                                   /\ job[w].row = r
<1>1. CASE \A w \in Workers : ~Stamp(w) /\ ~Connect(w)
  BY <1>1, Marks
<1>2. ASSUME NEW w \in Workers, Stamp(w)
      PROVE  /\ log[r] # "none" => log'[r] # "none"
             /\ sid'[r] => sid[r] \/ log'[r] # "none"
             /\ log'[r] # log[r] => job[w].row = r
  <2>1. /\ sid' = [sid EXCEPT ![job[w].row] = Stamped(job[w].row)]
        /\ log' = [log EXCEPT ![job[w].row] = "dialed"]
    BY <1>2, Zenon DEF Stamp
  <2>2. log \in [Rows -> {"none", "dialed", "connected"}] /\ sid \in [Rows -> BOOLEAN]
    BY DEF TypeOK, TypeQueue
  <2>3. CASE r = job[w].row
    <3>1. log'[r] = "dialed"
      BY <2>1, <2>2, <2>3
    <3> QED
      BY <2>3, <3>1
  <2>4. CASE r # job[w].row
    <3>1. log'[r] = log[r] /\ sid'[r] = sid[r]
      BY <2>1, <2>2, <2>4
    <3> QED
      BY <3>1
  <2> QED
    BY <2>3, <2>4
<1>3. ASSUME NEW w \in Workers, Connect(w)
      PROVE  /\ log[r] # "none" => log'[r] # "none"
             /\ sid'[r] => sid[r]
             /\ log'[r] # log[r] => job[w].row = r
  <2>1. sid' = sid /\ (log' = log \/ log' = [log EXCEPT ![job[w].row] = "connected"])
    BY <1>3, Zenon DEF Connect
  <2> QED
    BY <2>1 DEF TypeOK, TypeQueue
<1> QED
  BY <1>1, <1>2, <1>3

LEMMA StampStep ==
  ASSUME TypeOK, Ownership, RangInv, StampInv, [Next]_vars
  PROVE  StampInv'
<1>1. \A r \in Rows : sid'[r] => log'[r] # "none"
  BY LogWritten DEF StampInv
<1>2. \A w \in Workers : pc[w] \in RowSteps => job[w].row \in Rows
  BY JobType DEF TypeOK
<1>3. ASSUME NEW w \in Workers, pc'[w] = "stamp"
      PROVE  /\ job'[w].row = job[w].row /\ job[w].row \in Rows
             /\ pc[w] = "stamp" \/ (Originate(w) /\ pc[w] = "originate")
  <2>1. CASE Still(w)
    BY <1>2, <1>3, <2>1 DEF Still, RowSteps
  <2>2. CASE ~Still(w)
    BY <1>3, <2>2, Arrivals, KeepsJobRow DEF Via
  <2> QED
    BY <2>1, <2>2
<1>4. ASSUME NEW w \in Workers, pc'[w] = "stamp"
      PROVE  log'[job'[w].row] = "none"
  <2> DEFINE r == job[w].row
  <2>1. r \in Rows /\ job'[w].row = r /\ log[r] = "none"
    BY <1>3, <1>4 DEF StampInv, Ownership, Holder, RangInv
  <2>2. ASSUME log'[r] # log[r] PROVE FALSE
    <3>1. PICK u \in Workers : (Stamp(u) \/ Connect(u)) /\ job[u].row = r
      BY <2>1, <2>2, LogWritten
    <3>2. CASE Connect(u)
      BY <2>1, <3>1, <3>2 DEF Connect, StampInv, Settling
    <3>3. CASE Stamp(u)
      <4>1. pc[u] = "stamp" /\ pc'[u] # "stamp"
        <5>1. pc[u] = "stamp" /\ (Goto(u, "hangUp", job[u]) \/ Finish(u, job[u]))
          BY <3>3, Zenon DEF Stamp
        <5> QED
          BY <5>1 DEF Finish, Goto, TypeOK, TypeWorkers
      <4>2. u # w
        BY <1>4, <4>1
      <4>3. CASE pc[w] = "stamp"
        BY <3>1, <4>1, <4>2, <4>3 DEF StampInv
      <4>4. CASE pc[w] = "originate"
        <5>1. Holder(w, r) /\ dials[r] = 0
          BY <2>1, <4>4 DEF Holder, Ownership
        <5> QED
          BY <3>1, <4>1, <5>1 DEF RangInv, PastCall
      <4> QED
        BY <1>3, <1>4, <4>3, <4>4
    <3> QED
      BY <3>1, <3>2, <3>3
  <2> QED
    BY <2>1, <2>2
<1>5. ASSUME NEW v \in Workers, NEW w \in Workers, pc'[v] = "stamp", pc'[w] = "stamp", job'[v].row = job'[w].row
      PROVE  v = w
  <2>1. job[v].row = job[w].row /\ job[v].row \in Rows
    BY <1>3, <1>5
  <2>2. CASE pc[v] = "stamp" /\ pc[w] = "stamp"
    BY <2>1, <2>2 DEF StampInv
  <2>3. CASE pc[v] = "originate" /\ pc[w] = "originate"
    BY <2>1, <2>3 DEF Ownership, Holder
  <2>4. CASE (pc[v] = "stamp" /\ pc[w] = "originate") \/ (pc[w] = "stamp" /\ pc[v] = "originate")
    BY <2>1, <2>4 DEF Ownership, Holder, RangInv, PastCall
  <2> QED
    BY <1>3, <1>5, <2>2, <2>3, <2>4
<1>6. ASSUME NEW w \in Workers, pc'[w] \in Settling
      PROVE  log'[job'[w].row] # "none"
  <2>1. CASE Still(w)
    BY <1>2, <1>6, <2>1, LogWritten DEF Still, StampInv, Settling, RowSteps
  <2>2. CASE ~Still(w)
    <3>1. Via(w, pc'[w])
      BY <2>2, Arrivals
    <3>2. CASE Deliver(w) /\ pc'[w] = "readRun"
      BY <3>2, DeliverFinds, LogWritten DEF StampInv
    <3>3. CASE ReadRun(w) \/ ReadHistory(w)
      <4>1. job'[w].row = job[w].row /\ job[w].row \in Rows /\ pc[w] \in Settling
        BY <3>3, KeepsJobRow DEF Settling
      <4> QED
        BY <4>1, LogWritten DEF StampInv
    <3> QED
      BY <1>6, <3>1, <3>2, <3>3 DEF Via, Settling
  <2> QED
    BY <2>1, <2>2
<1> QED
  BY <1>1, <1>4, <1>5, <1>6 DEF StampInv

LEMMA StampHolds == Spec => []StampInv
<1>1. Init => StampInv
  BY DEF Init, StampInv, Settling
<1>2. TypeOK /\ Ownership /\ RangInv /\ StampInv /\ [Next]_vars => StampInv'
  BY StampStep
<1> QED
  BY <1>1, <1>2, TypeCorrect, OwnershipHolds, RangHolds, PTL DEF Spec

\* Twilio has something still to say of the row's call.
Comes(r) == call[r] = "ringing" \/ \E m \in msgs : m.call = r

LEMMA PhoneMoves ==
  ASSUME [Next]_vars
  PROVE  \/ UNCHANGED <<call, msgs>>
         \/ \E R : EndCalls(R)
         \/ \E w \in Workers : Originate(w) \/ Bridge(w) \/ Deliver(w)
         \/ Phones
<1> DEFINE Quietly == UNCHANGED <<call, msgs>>
<1>1. ASSUME NEW w \in Workers, Advance(w) PROVE Quietly \/ (\E R : EndCalls(R)) \/ Originate(w)
  BY <1>1, Zenon DEF Advance, ReadSession, LoadQueue, RunOut, ReleaseAtEnd, SetDone, GateSkip, Reload,
     NoNumbers, Claim, OriginateRefused, AfterRefusal, OriginateFailed, Stamp, HangUp, AmdHangUp, phoneVars
<1>2. ASSUME NEW w \in Workers, Buttons(w) PROVE Quietly \/ \E R : EndCalls(R)
  BY <1>2, Zenon DEF Buttons, Start, StartAgain, Pause, SetPaused, Resume, SetActive, Skip, RepNext, SettleCurrent,
     Stop, ReleaseAtStop, SetStopped, IdleCheck, CutIdle, FindDial, EndCall, PauseToEnd, EndRow,
     Redial, RedialTx, TakeCallback, TakeCallbackTx, Nudge, phoneVars
<1>3. ASSUME NEW w \in Workers, Callbacks(w) PROVE Quietly \/ Bridge(w) \/ Deliver(w)
  BY <1>3, Zenon DEF Callbacks, StampEnded, ReadRun, CutLate, Connect, LostConnect, ReadHistory, Miss, phoneVars
<1>4. CASE LegLost \/ FloorPasses \/ (\E w \in Workers : Crash(w)) \/ UNCHANGED vars
  BY <1>4, Zenon DEF LegLost, FloorPasses, Crash, vars, phoneVars
<1> QED
  BY <1>1, <1>2, <1>3, <1>4 DEF Next

\* No report of a call is lost but by a callback that takes it up.
LEMMA ComesOrTaken ==
  ASSUME TypeOK, [Next]_vars, LateCallbacks, NEW r \in Rows, Comes(r)
  PROVE  \/ Comes(r)'
         \/ /\ log[r] # "none"
            /\ sid[r] /\ st[r] = "dialing" =>
                 \E w \in Workers : pc'[w] = "readRun" /\ job'[w].row = r
<1>1. call \in [Rows -> CallStatus]
  BY DEF TypeOK, TypePhones
<1>2. CASE UNCHANGED <<call, msgs>>
  BY <1>2 DEF Comes
<1>3. ASSUME NEW R, EndCalls(R) PROVE Comes(r)'
  <2> DEFINE up == {x \in R : call[x] \notin {"none", "over"}}
  <2>1. /\ call' = [x \in Rows |-> IF x \in up THEN "over" ELSE call[x]]
        /\ msgs' = msgs \cup {[call |-> x, outcome |-> IF call[x] = "ringing" THEN "canceled" ELSE "ended"] : x \in up}
    BY <1>3, Zenon DEF EndCalls
  <2> HIDE DEF up
  <2>2. CASE r \in up
    <3>1. [call |-> r, outcome |-> IF call[r] = "ringing" THEN "canceled" ELSE "ended"] \in msgs'
      BY <2>1, <2>2
    <3> QED
      BY <3>1 DEF Comes
  <2>3. CASE r \notin up
    BY <2>1, <2>3 DEF Comes
  <2> QED
    BY <2>2, <2>3
<1>4. ASSUME NEW w \in Workers, Originate(w) PROVE Comes(r)'
  <2>1. call' = [call EXCEPT ![job[w].row] = "ringing"] /\ msgs' = msgs
    BY <1>4 DEF Originate
  <2> QED
    BY <1>1, <2>1 DEF Comes
<1>5. ASSUME NEW w \in Workers, Bridge(w) PROVE Comes(r)'
  <2>1. /\ call' = IF call[job[w].row] = "human" THEN [call EXCEPT ![job[w].row] = "bridged"] ELSE call
        /\ msgs' = msgs
    BY <1>5 DEF Bridge
  <2>2. call[r] = "ringing" => call'[r] = "ringing"
    BY <1>1, <2>1
  <2> QED
    BY <2>1, <2>2 DEF Comes
<1>6. CASE Phones
  <2>1. PICK x \in Rows : PersonAnswers(x) \/ MachineAnswers(x) \/ CallEnds(x)
    BY <1>6 DEF Phones
  <2>2. PICK s, o : call' = [call EXCEPT ![x] = s] /\ msgs' = msgs \cup {[call |-> x, outcome |-> o]}
    BY <2>1, Zenon DEF PersonAnswers, MachineAnswers, CallEnds, Reports
  <2>3. [call |-> x, outcome |-> o] \in msgs' /\ [call |-> x, outcome |-> o].call = x /\ msgs \subseteq msgs'
    BY <2>2
  <2>4. x # r => call'[r] = call[r]
    BY <1>1, <2>2
  <2> QED
    BY <2>3, <2>4 DEF Comes
<1>7. ASSUME NEW w \in Workers, Deliver(w), ~Comes(r)'
      PROVE  /\ log[r] # "none"
             /\ sid[r] /\ st[r] = "dialing" => pc'[w] = "readRun" /\ job'[w].row = r
  <2> DEFINE J(m) == [NoJob EXCEPT !.row = m.call, !.due = due, !.outcome = m.outcome,
                                   !.amd = IF m.outcome = "machine" THEN m.call ELSE 0]
  <2>1. PICK m \in msgs :
          /\ LateCallbacks => log[m.call] # "none"
          /\ msgs' = msgs \ {m} \/ UNCHANGED msgs
          /\ IF Entry(m.call, m.outcome) = "return" THEN Finish(w, J(m))
             ELSE Goto(w, Entry(m.call, m.outcome), J(m))
    BY <1>7, Zenon DEF Deliver
  <2>2. J(m).row = m.call
    BY DEF NoJob
  <2> HIDE DEF J
  <2>3. call' = call
    BY <1>7 DEF Deliver
  <2>4. m.call = r
    BY <1>7, <2>1, <2>3 DEF Comes
  <2>5. sid[r] /\ st[r] = "dialing" => Entry(m.call, m.outcome) = "readRun"
    BY <2>4 DEF Entry, Talking
  <2> QED
    BY <2>1, <2>2, <2>4, <2>5 DEF Goto, TypeOK, TypeWorkers
<1> QED
  BY <1>2, <1>3, <1>4, <1>5, <1>6, <1>7, PhoneMoves

\* Every dial is in somebody's hands: a claim's, a stamp's whose call has not
\* been reported away, or, once stamped, Twilio's or a callback's.
Heard(r) ==
  \/ \E w \in Workers : Holder(w, r)
  \/ \E w \in Workers : pc[w] = "stamp" /\ job[w].row = r /\ Comes(r)
  \/ sid[r] /\ Comes(r)
  \/ sid[r] /\ \E w \in Workers : pc[w] \in Settling /\ job[w].row = r
HeardInv == \A r \in Rows : st[r] = "dialing" => Heard(r)

\* What each worker does with its dial while the row stays dialing.
LEMMA HandsOn ==
  ASSUME TypeOK, [Next]_vars, "crash" \notin Faults, NEW r \in Rows, st[r] = "dialing", st'[r] = "dialing",
         NEW w \in Workers, job[w].row = r
  PROVE  /\ pc[w] = "originate" => \/ Holder(w, r)'
                                   \/ pc'[w] = "stamp" /\ job'[w].row = r /\ call'[r] = "ringing"
         /\ pc[w] = "stamp" => \/ pc'[w] = "stamp" /\ job'[w].row = r
                               \/ sid'[r] /\ UNCHANGED <<call, msgs>>
         /\ pc[w] \in Settling => pc'[w] \in Settling /\ job'[w].row = r
<1>1. CASE Still(w)
  BY <1>1 DEF Still, Holder
<1>2. CASE ~Still(w)
  <2>1. Leaves(w) /\ st \in [Rows -> ItemStatus]
    BY <1>2, Departures DEF Crash, Fault, TypeOK, TypeQueue
  <2>2. CASE pc[w] = "originate"
    <3>1. Originate(w)
      <4>1. OriginateRefused(w) => st' = [st EXCEPT ![r] = "skipped"]
        BY Zenon DEF OriginateRefused
      <4>2. OriginateFailed(w) => st' = [st EXCEPT ![r] = "pending"]
        BY Zenon DEF OriginateFailed, RolledBack
      <4> QED
        BY <2>1, <2>2, <4>1, <4>2 DEF Leaves
    <3>2. call'[r] = "ringing"
      BY <3>1 DEF Originate, TypeOK, TypePhones
    <3> QED
      BY <2>2, <3>1, <3>2, KeepsJobRow DEF Settling
  <2>3. CASE pc[w] = "stamp"
    <3>1. Stamp(w)
      BY <2>1, <2>3 DEF Leaves
    <3>2. sid' = [sid EXCEPT ![r] = Stamped(r)] /\ UNCHANGED <<call, msgs>> /\ Stamped(r)
      BY <3>1 DEF Stamp, Stamped, phoneVars
    <3>3. sid'[r] = Stamped(r)
      BY <3>2 DEF TypeOK, TypeQueue
    <3> QED
      BY <2>3, <3>2, <3>3 DEF Settling
  <2>4. CASE pc[w] \in {"readRun", "history"}
    <3>1. ReadRun(w) \/ ReadHistory(w)
      BY <2>1, <2>4 DEF Leaves
    <3>2. pc'[w] \in Settling
      <4>1. \E s \in Settling : \E j : Goto(w, s, j)
        <5>1. /\ "connect" \in Settling /\ "cutLate" \in Settling /\ "miss" \in Settling /\ "history" \in Settling
          BY DEF Settling
        <5> QED
          BY <3>1, <5>1, Zenon DEF ReadRun, ReadHistory
      <4> QED
        BY <4>1 DEF Goto, TypeOK, TypeWorkers
    <3> QED
      BY <2>4, <3>1, <3>2, KeepsJobRow
  <2>5. CASE pc[w] \in {"cutLate", "connect", "miss"}
    <3>1. CutLate(w) \/ Connect(w) \/ Miss(w)
      BY <2>1, <2>5 DEF Leaves
    <3>2. CutLate(w) => st' = [st EXCEPT ![r] = "no_connect"]
      BY Zenon DEF CutLate
    <3>3. Connect(w) => st' = [st EXCEPT ![r] = "connected"]
      BY Zenon DEF Connect
    <3>4. Miss(w) => \/ st' = [st EXCEPT ![r] = "no_connect"]
                     \/ \E q \in Rows : st[q] = "absent" /\ st' = [st EXCEPT ![r] = "no_connect", ![q] = "pending"]
      BY Zenon DEF Miss, Insert, FreshRow
    <3> QED
      BY <2>1, <3>1, <3>2, <3>3, <3>4
  <2> QED
    BY <2>2, <2>3, <2>4, <2>5 DEF Settling
<1> QED
  BY <1>1, <1>2

LEMMA HeardStep ==
  ASSUME TypeOK, Ownership, StampInv, HeardInv, [Next]_vars, LateCallbacks, "crash" \notin Faults
  PROVE  HeardInv'
<1> SUFFICES ASSUME NEW r \in Rows, st'[r] = "dialing" PROVE Heard(r)'
  BY DEF HeardInv
<1>1. CASE st[r] # "dialing"
  <2>1. PICK w \in Workers : Claim(w) /\ st[r] = "pending"
    BY <1>1, RowReaches DEF Reaches
  <2>2. PICK c \in NextItems(job[w]) : st' = [st EXCEPT ![c] = "dialing"] /\ Goto(w, "originate", [job[w] EXCEPT !.row = c])
    BY <1>1, <2>1, Zenon DEF Claim
  <2>3. c = r
    BY <1>1, <2>2 DEF TypeOK, TypeQueue
  <2> DEFINE k == [job[w] EXCEPT !.row = c]
  <2>4. k.row = c
    BY JobType, EditsKeep DEF TypeOK
  <2> HIDE DEF k
  <2>5. Goto(w, "originate", k)
    BY <2>2 DEF k
  <2>6. Holder(w, r)'
    BY <2>3, <2>4, <2>5 DEF Holder, Goto, TypeOK, TypeWorkers
  <2> QED
    BY <2>6 DEF Heard
<1>2. CASE st[r] = "dialing"
  <2>1. Heard(r)
    BY <1>2 DEF HeardInv
  <2>2. ASSUME NEW w \in Workers, Holder(w, r) PROVE Heard(r)'
    <3>1. Holder(w, r)' \/ (pc'[w] = "stamp" /\ job'[w].row = r /\ call'[r] = "ringing")
      BY <1>2, <2>2, HandsOn DEF Holder
    <3> QED
      BY <3>1 DEF Heard, Comes
  <2>3. ASSUME NEW w \in Workers, pc[w] = "stamp", job[w].row = r, Comes(r) PROVE Heard(r)'
    <3>1. \/ pc'[w] = "stamp" /\ job'[w].row = r
          \/ sid'[r] /\ UNCHANGED <<call, msgs>>
      BY <1>2, <2>3, HandsOn
    <3>2. Comes(r)'
      BY <2>3, ComesOrTaken DEF StampInv
    <3> QED
      BY <3>1, <3>2 DEF Heard
  <2>4. ASSUME sid[r] PROVE sid'[r]
    <3>1. CASE \A w \in Workers : ~Stamp(w)
      BY <2>4, <3>1, Marks
    <3>2. ASSUME NEW w \in Workers, Stamp(w) PROVE sid'[r]
      <4>1. sid' = [sid EXCEPT ![job[w].row] = Stamped(job[w].row)] /\ log[job[w].row] = "none"
        BY <3>2 DEF Stamp, StampInv
      <4>2. job[w].row # r
        BY <2>4, <4>1 DEF StampInv
      <4> QED
        BY <2>4, <4>1, <4>2 DEF TypeOK, TypeQueue
    <3> QED
      BY <3>1, <3>2
  <2>5. CASE sid[r] /\ Comes(r)
    <3>1. Comes(r)' \/ \E w \in Workers : pc'[w] = "readRun" /\ job'[w].row = r
      BY <1>2, <2>5, ComesOrTaken
    <3> QED
      BY <2>4, <2>5, <3>1 DEF Heard, Settling
  <2>6. ASSUME NEW w \in Workers, sid[r], pc[w] \in Settling, job[w].row = r PROVE Heard(r)'
    <3>1. pc'[w] \in Settling /\ job'[w].row = r
      BY <1>2, <2>6, HandsOn
    <3> QED
      BY <2>4, <2>6, <3>1 DEF Heard
  <2> QED
    BY <2>1, <2>2, <2>3, <2>5, <2>6 DEF Heard
<1> QED
  BY <1>1, <1>2

\* Once every handler is through, a row still dialing is a phone still ringing: no
\* call's end is lost (handleDialOutcome; the stamp of callId), however the rep's
\* buttons, refusals, failures and callbacks delivered twice interleave.  Twilio
\* must not call back before the stamp, which the code drops (engine.ts:1112), and
\* no handler may die, which leaves the row dialing.
THEOREM NoDialStuck ==
  ASSUME LateCallbacks, "crash" \notin Faults
  PROVE  Spec => []NoStuckDial
<1>1. Init => HeardInv
  BY DEF Init, HeardInv
<1>2. TypeOK /\ Ownership /\ StampInv /\ HeardInv /\ [Next]_vars => HeardInv'
  BY HeardStep
<1>3. HeardInv => NoStuckDial
  BY DEF HeardInv, Heard, Comes, NoStuckDial, Quiet, Holder, Settling
<1> QED
  BY <1>1, <1>2, <1>3, TypeCorrect, OwnershipHolds, StampHolds, PTL DEF Spec

-----------------------------------------------------------------------------
(* RolloverEarned.                                                         *)

\* A button outside Ops brings nobody to its step.
Unpressed ==
  /\ "redial" \notin Ops => \A w \in Workers : pc[w] # "redial"
  /\ "skip" \notin Ops => \A w \in Workers : pc[w] # "setSkipped"
  /\ Ops \cap {"next", "end"} = {} =>
       \A w \in Workers : pc[w] # "setDoneRow" /\ pc[w] # "pauseToEnd" /\ pc[w] # "endRow"

LEMMA UnpressedHolds == Spec => []Unpressed
<1>1. Init => Unpressed
  BY DEF Init, Unpressed
<1>2. TypeOK /\ Unpressed /\ [Next]_vars => Unpressed'
  <2> SUFFICES ASSUME TypeOK, Unpressed, [Next]_vars PROVE Unpressed'
    OBVIOUS
  <2>1. \A w \in Workers : Still(w) \/ Via(w, pc'[w])
    BY Arrivals
  <2>2. ASSUME NEW w \in Workers
        PROVE  /\ Redial(w) => "redial" \in Ops
               /\ Skip(w) => "skip" \in Ops
               /\ RepNext(w) => "next" \in Ops
               /\ EndCall(w) => "end" \in Ops
               /\ PauseToEnd(w) => pc[w] = "pauseToEnd"
    BY DEF Redial, Skip, RepNext, EndCall, Press, PauseToEnd
  <2>3. "redial" \notin Ops => \A w \in Workers : pc'[w] # "redial"
    BY <2>1, <2>2 DEF Unpressed, Still, Via
  <2>4. "skip" \notin Ops => \A w \in Workers : pc'[w] # "setSkipped"
    BY <2>1, <2>2 DEF Unpressed, Still, Via
  <2>5. ASSUME Ops \cap {"next", "end"} = {}, NEW w \in Workers
        PROVE  pc'[w] # "setDoneRow" /\ pc'[w] # "pauseToEnd" /\ pc'[w] # "endRow"
    <3>1. "next" \notin Ops /\ "end" \notin Ops
      BY <2>5
    <3> QED
      BY <2>1, <2>2, <2>5, <3>1 DEF Unpressed, Still, Via
  <2> QED
    BY <2>3, <2>4, <2>5 DEF Unpressed
<1> QED
  BY <1>1, <1>2, TypeCorrect, PTL DEF Spec

\* What a transaction that queues a copy closes, and what it copies.
LEMMA CopyCloses ==
  ASSUME TypeOK, NEW w \in Workers, NEW q \in Rows, NEW r \in Rows, r = job[w].row, Copies(w, q)
  PROVE  /\ r \in Open /\ r \notin Open' /\ q # r /\ st[q] = "absent"
         /\ row'[q].person = row[r].person /\ log' = log
         /\ pc[w] # "redial" => st[r] = "dialing"
         /\ \A x \in Rows : x # q => row'[x] = row[x] /\ (st'[x] # "absent" => st[x] # "absent")
<1>1. /\ row[r] \in Row /\ st \in [Rows -> ItemStatus] /\ row \in [Rows -> Row]
      /\ q # r /\ st[q] = "absent" /\ st[r] \in {"dialing", "connected"}
  BY DEF Copies, FreshRow, TypeOK, TypeQueue
<1>2. row'[q] \in {RedialCopy(r), CallbackCopy(r), RetryCopy(r)} /\ \A x \in Rows : x # q => row'[x] = row[x]
  BY <1>1 DEF Copies
<1>3. row'[q].person = row[r].person
  BY <1>1, <1>2, CopyColumns
<1>4. /\ st'[r] \notin {"pending", "dialing", "connected"}
      /\ \A x \in Rows : x # q => (st'[x] # "absent" => st[x] # "absent")
  BY <1>1 DEF Copies
<1>5. log' = log /\ (pc[w] # "redial" => st[r] = "dialing")
  BY DEF Copies, RedialTx, TakeCallbackTx, Miss
<1> QED
  BY <1>1, <1>2, <1>3, <1>4, <1>5 DEF Open

\* A person is in the queue, in dial or in talk at one place at a time.
OnePlace == \A q, r \in Open : row[q].person = row[r].person => q = r

LEMMA OnePlaceStep ==
  ASSUME TypeOK, OnePlace, [Next]_vars
  PROVE  OnePlace'
<1>1. CASE Uninserted
  <2>1. \A x \in Rows : x \in Open' => x \in Open
    BY <1>1, OpensOnly DEF Uninserted, Open
  <2> QED
    BY <1>1, <2>1 DEF OnePlace, Uninserted, Open
<1>2. ASSUME NEW w \in Workers, NEW q \in Rows, Copies(w, q) PROVE OnePlace'
  <2>1. PICK r \in Rows : r = job[w].row
    BY <1>2 DEF Copies
  <2>2. /\ r \in Open /\ r \notin Open' /\ row'[q].person = row[r].person
        /\ \A x \in Rows : x # q => row'[x] = row[x] /\ (st'[x] # "absent" => st[x] # "absent")
    BY <1>2, <2>1, CopyCloses
  <2>3. \A x \in Open' : x # q => x \in Open /\ row'[x] = row[x] /\ x # r
    BY <2>2, OpensOnly DEF Open
  <2>4. ASSUME NEW x \in Open', NEW y \in Open', row'[x].person = row'[y].person PROVE x = y
    <3>1. CASE x # q /\ y # q
      BY <2>3, <2>4, <3>1 DEF OnePlace
    <3>2. CASE x = q /\ y # q
      BY <2>2, <2>3, <2>4, <3>2 DEF OnePlace
    <3>3. CASE y = q /\ x # q
      BY <2>2, <2>3, <2>4, <3>3 DEF OnePlace
    <3> QED
      BY <3>1, <3>2, <3>3
  <2> QED
    BY <2>4 DEF OnePlace
<1> QED
  BY <1>1, <1>2, Copied

\* An attempt becomes connected as its row does.
LEMMA LogConnects ==
  ASSUME TypeOK, [Next]_vars, NEW r \in Rows, log'[r] = "connected", log[r] # "connected"
  PROVE  st[r] = "dialing" /\ st'[r] = "connected" /\ UNCHANGED <<row, canceled>>
<1>1. PICK w \in Workers : (Stamp(w) \/ Connect(w)) /\ job[w].row = r
  BY LogWritten
<1>2. ~Stamp(w)
  <2>1. Stamp(w) => log' = [log EXCEPT ![r] = "dialed"]
    BY <1>1, Zenon DEF Stamp
  <2> QED
    BY <2>1 DEF TypeOK, TypeQueue
<1>3. log' # log
  OBVIOUS
<1>4. st[r] = "dialing" /\ st' = [st EXCEPT ![r] = "connected"] /\ UNCHANGED <<row, canceled>>
  BY <1>1, <1>2, <1>3, Zenon DEF Connect
<1> QED
  BY <1>4 DEF TypeOK, TypeQueue

\* An attempt that connected is of a row that was answered, and never cancelled.
Reached == \A r \in Rows : log[r] = "connected" => ~canceled[r] /\ st[r] \notin {"absent", "pending", "dialing"}

LEMMA ReachedStep ==
  ASSUME TypeOK, CanceledSettled, Reached, [Next]_vars
  PROVE  Reached'
<1> SUFFICES ASSUME NEW r \in Rows, log'[r] = "connected"
             PROVE  ~canceled'[r] /\ st'[r] \notin {"absent", "pending", "dialing"}
  BY DEF Reached
<1>1. CASE log[r] = "connected"
  <2>1. ~canceled[r] /\ st[r] \notin {"absent", "pending", "dialing"}
    BY <1>1 DEF Reached
  <2> QED
    BY <2>1, Cancels, RowReaches DEF Reaches
<1>2. CASE log[r] # "connected"
  <2>1. st[r] = "dialing" /\ st'[r] = "connected" /\ canceled' = canceled
    BY <1>2, LogConnects
  <2> QED
    BY <2>1 DEF CanceledSettled, Settled
<1> QED
  BY <1>1, <1>2

\* Skip alone skips a row that was answered.
LEMMA SkippedFrom ==
  ASSUME TypeOK, [Next]_vars, NEW r \in Rows, st[r] # "skipped", st'[r] = "skipped"
  PROVE  st[r] \in {"pending", "dialing"} \/ \E w \in Workers : pc[w] = "setSkipped"
<1>1. PICK w \in Workers : Writes(w)
  BY Reads
<1>2. /\ pc[w] \in RowSteps => job[w].row \in Rows
      /\ NextItems(job[w]) \subseteq Rows /\ st \in [Rows -> ItemStatus]
  BY JobType DEF TypeOK, TypeQueue, NextItems, Eligible, Job
<1>3. CASE GateSkip(w) \/ Claim(w)
  BY <1>2, <1>3 DEF GateSkip, Claim, Claimable
<1>4. CASE OriginateRefused(w) \/ OriginateFailed(w)
  BY <1>2, <1>4 DEF OriginateRefused, OriginateFailed, RolledBack
<1>5. CASE Start(w)
  BY <1>5 DEF Start
<1>6. CASE SettleCurrent(w) \/ EndRow(w)
  BY <1>2, <1>6 DEF SettleCurrent, EndRow, RowSteps
<1>7. CASE CutLate(w) \/ Connect(w)
  BY <1>2, <1>7 DEF CutLate, Connect
<1>8. CASE RedialTx(w)
  <2>1. st' = st \/ \E q \in Rows : st' = [st EXCEPT ![job[w].row] = "done", ![q] = "pending"]
    BY <1>8, Zenon DEF RedialTx
  <2> QED
    BY <1>2, <2>1
<1>9. CASE TakeCallbackTx(w)
  <2>1. \/ st' = st
        \/ st[job[w].row] = "dialing" /\ \E q \in Rows : st' = [st EXCEPT ![job[w].row] = "skipped", ![q] = "pending"]
    BY <1>9, Zenon DEF TakeCallbackTx
  <2> QED
    BY <1>2, <2>1
<1>10. CASE Miss(w)
  <2>1. \/ st' = st
        \/ st' = [st EXCEPT ![job[w].row] = "no_connect"]
        \/ \E q \in Rows : st' = [st EXCEPT ![job[w].row] = "no_connect", ![q] = "pending"]
    BY <1>10, Zenon DEF Miss
  <2> QED
    BY <1>2, <2>1
<1> QED
  BY <1>1, <1>3, <1>4, <1>5, <1>6, <1>7, <1>8, <1>9, <1>10 DEF Writes

\* Without redial a person reached is never open again; without skip an answered
\* row is never skipped.
NotAgain ==
  /\ "redial" \notin Ops => \A q, r \in Rows : row[q].person = row[r].person /\ log[q] = "connected" /\ r \in Open => q = r
  /\ "skip" \notin Ops => \A r \in Rows : log[r] = "connected" => st[r] # "skipped"

LEMMA NotAgainStep ==
  ASSUME TypeOK, Ownership, RangInv, Unpressed, OnePlace, Reached, NotAgain, [Next]_vars
  PROVE  NotAgain'
<1>1. ASSUME "skip" \notin Ops, NEW r \in Rows, log'[r] = "connected" PROVE st'[r] # "skipped"
  <2>1. CASE log[r] # "connected"
    BY <1>1, <2>1, LogConnects
  <2>2. CASE log[r] = "connected"
    BY <1>1, <2>2, SkippedFrom DEF NotAgain, Reached, Unpressed
  <2> QED
    BY <2>1, <2>2
<1>2. ASSUME "redial" \notin Ops, NEW q \in Rows, NEW r \in Rows, row'[q].person = row'[r].person, log'[q] = "connected",
             r \in Open', q # r
      PROVE  FALSE
  <2>1. st[q] # "absent" /\ row'[q] = row[q]
    <3>1. log[q] # "connected" => st[q] = "dialing"
      BY <1>2, LogConnects
    <3>2. st[q] # "absent"
      BY <3>1 DEF Reached
    <3> QED
      BY <3>2, ColumnsKept
  <2>2. ASSUME st[r] # "absent" PROVE FALSE
    <3>1. r \in Open /\ row'[r] = row[r]
      BY <1>2, <2>2, OpensOnly, ColumnsKept
    <3>2. CASE log[q] = "connected"
      BY <1>2, <2>1, <3>1, <3>2 DEF NotAgain
    <3>3. CASE log[q] # "connected"
      <4>1. q \in Open
        BY <1>2, <3>3, LogConnects DEF Open
      <4> QED
        BY <1>2, <2>1, <3>1, <4>1 DEF OnePlace
    <3> QED
      BY <3>2, <3>3
  <2>3. ASSUME st[r] = "absent" PROVE FALSE
    <3>1. ~Uninserted
      BY <1>2, <2>3 DEF Uninserted, Open
    <3>2. PICK w \in Workers, c \in Rows : Copies(w, c)
      BY <3>1, Copied
    <3>3. PICK s \in Rows : s = job[w].row
      BY <3>2 DEF Copies
    <3>4. /\ s \in Open /\ row'[c].person = row[s].person /\ log' = log /\ st[s] = "dialing"
          /\ \A x \in Rows : x # c => (st'[x] # "absent" => st[x] # "absent")
      BY <1>2, <3>2, <3>3, CopyCloses DEF Unpressed
    <3>5. r = c
      BY <1>2, <2>3, <3>4 DEF Open
    <3>6. q = s
      BY <1>2, <2>1, <3>4, <3>5 DEF NotAgain
    <3> QED
      BY <1>2, <3>4, <3>6 DEF Reached
  <2> QED
    BY <2>2, <2>3
<1> QED
  BY <1>1, <1>2 DEF NotAgain

\* What a rollover must rest on, of one person.
Dials(p) == {r \in Rows : row[r].person = p /\ log[r] # "none" /\ ~canceled[r]}
Earned(p) ==
  /\ Cardinality(Dials(p)) >= passes
  /\ \A r \in Rows : row[r].person = p /\ log[r] = "connected" => st[r] = "skipped"

\* What the history reads, the rollover rests on.
LEMMA HistoryReads ==
  ASSUME TypeOK, Reached, NEW p, RolloverDue(p)
  PROVE  Earned(p)
<1>1. OwnDials(p) \subseteq Dials(p) /\ Dials(p) \subseteq Rows
  BY DEF OwnDials, Dials
<1>2. IsFiniteSet(Rows)
  BY RunAssumption, FS_Interval DEF Rows
<1>3. /\ IsFiniteSet(OwnDials(p)) /\ IsFiniteSet(Dials(p))
      /\ Cardinality(OwnDials(p)) <= Cardinality(Dials(p))
  BY <1>1, <1>2, FS_Subset
<1>4. Cardinality(OwnDials(p)) \in Nat /\ Cardinality(Dials(p)) \in Nat /\ passes \in Nat
  BY <1>3, FS_CardinalityType DEF TypeOK, TypeRun
<1>5. Cardinality(Dials(p)) >= passes
  BY <1>3, <1>4 DEF RolloverDue
<1>6. ASSUME NEW r \in Rows, row[r].person = p, log[r] = "connected" PROVE st[r] = "skipped"
  BY <1>6 DEF Reached, RolloverDue, OwnDials
<1> QED
  BY <1>5, <1>6 DEF Earned

\* The buttons under which nobody takes a row that was skipped out of skipped
\* while its person is in dial again.
Parted == "skip" \notin Ops \/ "redial" \notin Ops \/ Ops \cap {"next", "end"} = {}

\* While a dial is not settled, what its person's rollover rests on stays.
LEMMA EarnedKept ==
  ASSUME Parted, TypeOK, Ownership, RangInv, ReadyInv, Unpressed, OnePlace, Reached, NotAgain, [Next]_vars,
         NEW w \in Workers, pc[w] = "miss", NEW r \in Rows, r = job[w].row,
         st[r] = "dialing", st'[r] = "dialing", NEW p, p = row[r].person, Earned(p)
  PROVE  Earned(p)'
<1>1. passes' = passes
  BY RunFixed
<1>2. \A x \in Rows : st[x] = "dialing" /\ row[x].person = p => x = r
  BY DEF OnePlace, Open
<1>3. ASSUME NEW x \in Dials(p) PROVE x \in Dials(p)'
  <2>1. x \in Rows /\ row[x].person = p /\ log[x] # "none" /\ ~canceled[x]
    BY <1>3 DEF Dials
  <2>2. st[x] # "absent"
    BY <2>1 DEF RangInv, Ownership
  <2>3. row'[x] = row[x] /\ log'[x] # "none"
    BY <2>1, <2>2, ColumnsKept, LogWritten
  <2>4. ~canceled'[x]
    <3>1. canceled'[x] = canceled[x] \/ (st[x] = "dialing" /\ st'[x] \in Settled)
      BY <2>1, Cancels
    <3>2. st[x] = "dialing" /\ st'[x] \in Settled => x = r
      BY <1>2, <2>1
    <3> QED
      BY <2>1, <3>1, <3>2 DEF Settled
  <2> QED
    BY <2>1, <2>3, <2>4 DEF Dials
<1>4. Cardinality(Dials(p)') >= passes'
  <2> DEFINE A == Dials(p)
             B == Dials(p)'
  <2>1. A \subseteq B
    BY <1>3
  <2>2. B \subseteq Rows
    BY DEF Dials
  <2>3. IsFiniteSet(Rows)
    BY RunAssumption, FS_Interval DEF Rows
  <2>4. Cardinality(A) >= passes
    BY DEF Earned
  <2>5. passes \in Nat
    BY DEF TypeOK, TypeRun
  <2> HIDE DEF A, B
  <2>6. IsFiniteSet(B) /\ IsFiniteSet(A) /\ Cardinality(A) <= Cardinality(B)
    BY <2>1, <2>2, <2>3, FS_Subset
  <2>7. Cardinality(A) \in Nat /\ Cardinality(B) \in Nat
    BY <2>6, FS_CardinalityType
  <2>8. Cardinality(B) >= passes'
    BY <1>1, <2>4, <2>5, <2>6, <2>7
  <2> QED
    BY <2>8 DEF B
<1>5. ASSUME NEW x \in Rows, row'[x].person = p, log'[x] = "connected" PROVE st'[x] = "skipped"
  <2>1. CASE log[x] # "connected"
    <3>1. st[x] = "dialing" /\ st'[x] = "connected" /\ row' = row
      BY <1>5, <2>1, LogConnects
    <3> QED
      BY <1>2, <1>5, <3>1
  <2>2. CASE log[x] = "connected"
    <3>1. st[x] # "absent" /\ st[x] # "dialing" /\ row'[x] = row[x]
      BY <2>2, ColumnsKept DEF Reached
    <3>2. st[x] = "skipped"
      BY <1>5, <2>2, <3>1 DEF Earned
    <3>3. SUFFICES ASSUME st'[x] # "skipped" PROVE FALSE
      OBVIOUS
    <3>4. PICK u \in Workers : pc[u] \in {"setDoneRow", "endRow"} /\ job[u].row = x
      BY <3>2, <3>3, SkippedLeaves
    <3>5. CASE Ops \cap {"next", "end"} = {}
      BY <3>4, <3>5 DEF Unpressed
    <3>6. CASE "skip" \notin Ops
      BY <2>2, <3>2, <3>6 DEF NotAgain
    <3>7. CASE "redial" \notin Ops
      BY <1>5, <2>2, <3>1, <3>7 DEF NotAgain, Open
    <3> QED
      BY <3>5, <3>6, <3>7 DEF Parted
  <2> QED
    BY <2>1, <2>2
<1> QED
  BY <1>4, <1>5 DEF Earned

\* A miss that will roll its person over is no cancel, and what it rests on is true
\* still while its row is dialing.
RollInv ==
  /\ \A w \in Workers : pc[w] \in {"readRun", "history"} => ~job[w].roll
  /\ \A w \in Workers : pc[w] = "history" => job[w].outcome # "canceled"
  /\ \A w \in Workers : pc[w] = "miss" /\ job[w].roll =>
       job[w].outcome # "canceled" /\ (st[job[w].row] = "dialing" => Earned(row[job[w].row].person))

\* What the steps to a miss carry to it.
LEMMA DeliverRolls ==
  ASSUME TypeOK, NEW w \in Workers, Deliver(w)
  PROVE  ~job'[w].roll
<1> DEFINE J(m) == [NoJob EXCEPT !.row = m.call, !.due = due, !.outcome = m.outcome,
                                 !.amd = IF m.outcome = "machine" THEN m.call ELSE 0]
           K(m) == [NoJob EXCEPT !.amd = J(m).amd]
<1>1. PICK m \in msgs : \E s : Goto(w, s, J(m)) \/ Goto(w, s, NoJob) \/ Goto(w, s, K(m))
  BY Zenon DEF Deliver, Finish
<1>2. ~J(m).roll /\ ~NoJob.roll /\ ~K(m).roll
  BY DEF NoJob
<1> HIDE DEF J, K
<1> QED
  BY <1>1, <1>2 DEF Goto, TypeOK, TypeWorkers

LEMMA ReadRunRolls ==
  ASSUME TypeOK, NEW w \in Workers, ReadRun(w)
  PROVE  /\ pc[w] = "readRun" /\ job'[w].roll = job[w].roll /\ job'[w].outcome = job[w].outcome
         /\ pc'[w] = "history" => job[w].outcome # "canceled"
<1> DEFINE k == [job[w] EXCEPT !.requeue = Requeue(job[w].row)]
<1>1. pc[w] = "readRun" /\ job[w] \in Job
  BY JobType DEF ReadRun, TypeOK
<1>2. k.roll = job[w].roll /\ k.outcome = job[w].outcome
  BY <1>1 DEF Job
<1>3. \/ \E s \in {"connect", "cutLate", "miss"} : Goto(w, s, job[w]) \/ Goto(w, s, k)
      \/ job[w].outcome # "canceled" /\ Goto(w, "history", k)
  BY Zenon DEF ReadRun
<1> HIDE DEF k
<1> QED
  BY <1>1, <1>2, <1>3 DEF Goto, TypeOK, TypeWorkers

LEMMA HistoryRolls ==
  ASSUME TypeOK, NEW w \in Workers, ReadHistory(w)
  PROVE  /\ pc[w] = "history" /\ job'[w].outcome = job[w].outcome /\ job'[w].row = job[w].row
         /\ job'[w].roll => job[w].roll \/ RolloverDue(row[job[w].row].person)
         /\ UNCHANGED <<st, row, canceled, log, passes>>
<1> DEFINE k == [job[w] EXCEPT !.roll = RolloverDue(row[job[w].row].person)]
<1>1. pc[w] = "history" /\ job[w] \in Job
  BY JobType DEF ReadHistory, TypeOK
<1>2. k.roll = RolloverDue(row[job[w].row].person) /\ k.outcome = job[w].outcome /\ k.row = job[w].row
  BY <1>1 DEF Job
<1>3. \E s : Goto(w, s, job[w]) \/ Goto(w, s, k)
  BY Zenon DEF ReadHistory
<1>4. UNCHANGED <<st, row, canceled, log, passes>>
  BY DEF ReadHistory, queueVars, runVars
<1> HIDE DEF k
<1> QED
  BY <1>1, <1>2, <1>3, <1>4 DEF Goto, TypeOK, TypeWorkers

LEMMA RollStep ==
  ASSUME Parted, TypeOK, Ownership, RangInv, ReadyInv, Unpressed, OnePlace, Reached, NotAgain, RollInv, [Next]_vars
  PROVE  RollInv'
<1>1. ASSUME NEW w \in Workers, ~Still(w)
      PROVE  Via(w, pc'[w])
  BY <1>1, Arrivals
<1>2. ASSUME NEW w \in Workers, pc'[w] \in {"readRun", "history"} PROVE ~job'[w].roll
  BY <1>1, <1>2, DeliverRolls, ReadRunRolls DEF Still, Via, RollInv
<1>3. ASSUME NEW w \in Workers, pc'[w] = "history" PROVE job'[w].outcome # "canceled"
  BY <1>1, <1>3, ReadRunRolls DEF Still, Via, RollInv
<1>4. ASSUME NEW w \in Workers, pc'[w] = "miss", job'[w].roll, NEW r \in Rows, r = job'[w].row
      PROVE  job'[w].outcome # "canceled" /\ (st'[r] = "dialing" => Earned(row[r].person)')
  <2>1. CASE Still(w)
    <3>1. pc[w] = "miss" /\ job[w].roll /\ r = job[w].row /\ job'[w] = job[w]
      BY <1>4, <2>1 DEF Still
    <3>2. job'[w].outcome # "canceled"
      BY <3>1 DEF RollInv
    <3>3. ASSUME st'[r] = "dialing" PROVE Earned(row[r].person)'
      <4>1. dials[r] # 0
        BY <3>1 DEF RangInv, PastCall
      <4>2. st[r] = "dialing"
        BY <3>3, <4>1, RowReaches DEF Reaches, Ownership
      <4>3. row'[r] = row[r]
        BY <4>2, ColumnsKept
      <4>4. PICK p \in {row[r].person} : TRUE
        OBVIOUS
      <4>5. Earned(p)
        BY <3>1, <4>2, <4>4 DEF RollInv
      <4>6. Earned(p)'
        BY <3>1, <3>3, <4>2, <4>4, <4>5, EarnedKept
      <4> QED
        BY <4>3, <4>4, <4>6 DEF Earned, Dials
    <3> QED
      BY <3>2, <3>3
  <2>2. CASE ~Still(w)
    <3>1. ReadHistory(w)
      BY <1>1, <1>4, <2>2, ReadRunRolls DEF Via, RollInv
    <3>2. /\ pc[w] = "history" /\ job'[w].outcome = job[w].outcome /\ r = job[w].row
          /\ job[w].roll \/ RolloverDue(row[r].person)
          /\ UNCHANGED <<st, row, canceled, log, passes>>
      BY <1>4, <3>1, HistoryRolls
    <3>3. Earned(row[r].person)
      BY <3>2, HistoryReads DEF RollInv
    <3>4. Earned(row[r].person)'
      BY <3>2, <3>3 DEF Earned, Dials
    <3> QED
      BY <3>2, <3>4 DEF RollInv
  <2> QED
    BY <2>1, <2>2
<1>5. ASSUME NEW w \in Workers, pc'[w] = "miss" PROVE job'[w].row \in Rows
  <2>1. TypeOK'
    BY StepType
  <2> QED
    BY <1>5, <2>1 DEF TypeOK, TypeWorkers, RowSteps, Job, Rows
<1> QED
  BY <1>2, <1>3, <1>4, <1>5 DEF RollInv, Earned, Dials

\* Only the transaction of a miss enqueues a rollover.
LEMMA RollsOver ==
  ASSUME TypeOK, [Next]_vars, NEW p \in rolled' \ rolled
  PROVE  \E w \in Workers : \E r \in Rows :
           /\ Miss(w) /\ r = job[w].row /\ pc[w] = "miss" /\ job[w].roll /\ st[r] = "dialing" /\ p = row[r].person
           /\ canceled' = [canceled EXCEPT ![r] = (job[w].outcome = "canceled")]
           /\ log' = log /\ st'[r] = "no_connect"
           /\ \A x \in Rows : x # r /\ st[x] # "absent" => st'[x] = st[x]
<1>1. ASSUME NEW w \in Workers, Advance(w) PROVE rolled' = rolled
  BY <1>1, Zenon DEF Advance, ReadSession, LoadQueue, RunOut, ReleaseAtEnd, SetDone, GateSkip, Reload,
     NoNumbers, Claim, Originate, OriginateRefused, AfterRefusal, OriginateFailed, Stamp, HangUp, AmdHangUp
<1>2. ASSUME NEW w \in Workers, Buttons(w) PROVE rolled' = rolled
  BY <1>2, Zenon DEF Buttons, Start, StartAgain, Pause, SetPaused, Resume, SetActive, Skip, RepNext,
     SettleCurrent, Stop, ReleaseAtStop, SetStopped, IdleCheck, CutIdle, FindDial, EndCall, PauseToEnd, EndRow,
     Redial, RedialTx, TakeCallback, TakeCallbackTx, Nudge
<1>3. ASSUME NEW w \in Workers, Callbacks(w), ~Miss(w) PROVE rolled' = rolled
  BY <1>3, Zenon DEF Callbacks, Deliver, StampEnded, ReadRun, CutLate, Connect, LostConnect, Bridge, ReadHistory
<1>4. CASE LegLost \/ Phones \/ FloorPasses \/ (\E w \in Workers : Crash(w)) \/ UNCHANGED vars
  BY <1>4, Zenon DEF LegLost, Phones, FloorPasses, Crash, vars
<1>5. PICK w \in Workers : Miss(w)
  BY <1>1, <1>2, <1>3, <1>4 DEF Next
<1>6. PICK r \in Rows : r = job[w].row
  BY <1>5, JobType DEF Miss, RowSteps, TypeOK
<1>7. /\ pc[w] = "miss" /\ st[r] = "dialing" /\ log' = log
      /\ canceled' = [canceled EXCEPT ![r] = (job[w].outcome = "canceled")]
      /\ rolled' = IF job[w].roll THEN rolled \cup {row[r].person} ELSE rolled
      /\ \/ st' = [st EXCEPT ![r] = "no_connect"]
         \/ \E q \in Rows : st' = [st EXCEPT ![r] = "no_connect", ![q] = "pending"] /\ st[q] = "absent"
  BY <1>5, <1>6, Zenon DEF Miss, Insert, FreshRow
<1>8. job[w].roll /\ p = row[r].person
  BY <1>7
<1>9. st'[r] = "no_connect" /\ \A x \in Rows : x # r /\ st[x] # "absent" => st'[x] = st[x]
  BY <1>7 DEF TypeOK, TypeQueue
<1> QED
  BY <1>5, <1>6, <1>7, <1>8, <1>9

\* A follow-up rolls over only of a person dialed Calls-per-person times and never
\* reached, and so it still is when the miss commits, however callbacks, refusals,
\* failures and crashes come between the reading of the history and the
\* transaction (handleDialOutcome, rolloverDue).  Where the rep may skip, redial
\* and press Next or End all three, a Next read before the skip and written after
\* the redial takes a skipped row out of skipped in between (the unconditional
\* writes of engine.ts:820 and 955); without one of the three it cannot.
THEOREM RolloverHolds ==
  ASSUME "skip" \notin Ops \/ "redial" \notin Ops \/ Ops \cap {"next", "end"} = {}
  PROVE  Spec => RolloverEarned
<1>1. TypeOK /\ RangInv /\ Ownership /\ TriesInv /\ CanceledSettled /\ Reached /\ RollInv /\ [Next]_vars =>
        \A p \in rolled' \ rolled :
          /\ Cardinality({r \in Rows : row[r].person = p /\ log'[r] # "none" /\ ~canceled'[r]}) >= passes
          /\ \A r \in Rows : row[r].person = p /\ log'[r] = "connected" => st'[r] = "skipped"
  <2> SUFFICES ASSUME TypeOK, CanceledSettled, Reached, RollInv, [Next]_vars, NEW p \in rolled' \ rolled
               PROVE  /\ Cardinality({r \in Rows : row[r].person = p /\ log'[r] # "none" /\ ~canceled'[r]}) >= passes
                      /\ \A r \in Rows : row[r].person = p /\ log'[r] = "connected" => st'[r] = "skipped"
    OBVIOUS
  <2>1. PICK w \in Workers, r \in Rows :
          /\ r = job[w].row /\ pc[w] = "miss" /\ job[w].roll /\ st[r] = "dialing" /\ p = row[r].person
          /\ canceled' = [canceled EXCEPT ![r] = (job[w].outcome = "canceled")]
          /\ log' = log /\ st'[r] = "no_connect"
          /\ \A x \in Rows : x # r /\ st[x] # "absent" => st'[x] = st[x]
    BY RollsOver
  <2>2. Earned(p) /\ job[w].outcome # "canceled"
    BY <2>1 DEF RollInv
  <2>3. canceled' = canceled
    <3>1. canceled[r] = FALSE
      BY <2>1 DEF CanceledSettled, Settled, TypeOK, TypeQueue
    <3>2. (job[w].outcome = "canceled") = FALSE
      BY <2>2
    <3> QED
      BY <2>1, <3>1, <3>2 DEF TypeOK, TypeQueue
  <2>4. {x \in Rows : row[x].person = p /\ log'[x] # "none" /\ ~canceled'[x]} = Dials(p)
    BY <2>1, <2>3 DEF Dials
  <2>5. ASSUME NEW x \in Rows, row[x].person = p, log'[x] = "connected" PROVE st'[x] = "skipped"
    BY <2>1, <2>2, <2>5 DEF Earned, Reached
  <2> QED
    BY <2>2, <2>4, <2>5 DEF Earned
<1>2. Init => OnePlace /\ Reached /\ NotAgain /\ RollInv
  <2>1. Init => OnePlace
    <3> SUFFICES ASSUME Init, NEW q \in Open, NEW r \in Open, row[q].person = row[r].person PROVE q = r
      BY DEF OnePlace
    <3>1. q \in Rows /\ r \in Rows /\ q <= N /\ r <= N
      BY RunAssumption DEF Init, Open, Rows
    <3>2. row[q].person = q /\ row[r].person = r
      BY <3>1 DEF Init
    <3> QED
      BY <3>2
  <2>2. Init => Reached /\ NotAgain
    BY DEF Init, Reached, NotAgain
  <2>3. Init => RollInv
    BY DEF Init, RollInv
  <2> QED
    BY <2>1, <2>2, <2>3
<1>3. TypeOK /\ Ownership /\ RangInv /\ ReadyInv /\ TriesInv /\ Unpressed /\ OnePlace /\ Reached /\ NotAgain /\ RollInv
        /\ [Next]_vars => OnePlace' /\ Reached' /\ NotAgain' /\ RollInv'
  BY OnePlaceStep, ReachedStep, NotAgainStep, RollStep DEF Parted, TriesInv
<1>4. TriesInv => CanceledSettled
  BY DEF TriesInv
<1> QED
  BY <1>1, <1>2, <1>3, <1>4, TypeCorrect, OwnershipHolds, RangHolds, ReadyHolds, TriesHold, UnpressedHolds, PTL
     DEF Spec, RolloverEarned

-----------------------------------------------------------------------------
(* The run implements the ledger of dials.                                 *)

LedgerVars == <<session, Life, Right, dials>>

\* What a write to the queue does to the ledger.
LEMMA LifeWrites ==
  ASSUME TypeOK, NEW r \in Rows, NEW s, st' = [st EXCEPT ![r] = s]
  PROVE  Life' = [Life EXCEPT ![r] = LifeOf(s)]
<1>1. \A q \in Rows : st'[q] = IF q = r THEN s ELSE st[q]
  BY DEF TypeOK, TypeQueue
<1>2. Life' = [q \in Rows |-> LifeOf(st'[q])]
  BY DEF Life
<1>3. [Life EXCEPT ![r] = LifeOf(s)] = [q \in Rows |-> IF q = r THEN LifeOf(s) ELSE LifeOf(st[q])]
  BY DEF Life
<1>4. \A q \in Rows : LifeOf(st'[q]) = IF q = r THEN LifeOf(s) ELSE LifeOf(st[q])
  <2> TAKE q \in Rows
  <2>1. CASE q = r
    BY <1>1, <2>1
  <2>2. CASE q # r
    BY <1>1, <2>2
  <2> QED
    BY <2>1, <2>2
<1> QED
  BY <1>2, <1>3, <1>4

\* A worker that does not hold a right, and takes none, leaves the rights alone.
LEMMA RightStays ==
  ASSUME TypeOK, NEW w \in Workers, pc[w] # "originate", NEW s, s # "originate", NEW j, Goto(w, s, j)
  PROVE  Right' = Right
<1>1. \A v \in Workers : v # w => pc'[v] = pc[v] /\ job'[v] = job[v]
  BY DEF Goto, TypeOK, TypeWorkers
<1>2. pc'[w] # "originate"
  BY DEF Goto, TypeOK, TypeWorkers
<1>3. \A v \in Workers, r \in Rows : Holder(v, r)' <=> Holder(v, r)
  BY <1>1, <1>2 DEF Holder
<1> QED
  BY <1>3 DEF Right

\* The holder of a right who moves on gives it up, and it alone.
LEMMA RightGivenUp ==
  ASSUME TypeOK, Ownership, NEW w \in Workers, pc[w] = "originate", NEW s, s # "originate", NEW j,
         Goto(w, s, j)
  PROVE  Right' = Right \ {job[w].row} /\ job[w].row \in Right
<1>1. \A v \in Workers : v # w => pc'[v] = pc[v] /\ job'[v] = job[v]
  BY DEF Goto, TypeOK, TypeWorkers
<1>2. pc'[w] # "originate"
  BY DEF Goto, TypeOK, TypeWorkers
<1>3. job[w].row \in Rows /\ Holder(w, job[w].row)
  BY JobType DEF TypeOK, RowSteps, Holder
<1>4. \A v \in Workers, r \in Rows : Holder(v, r)' <=> (v # w /\ Holder(v, r))
  BY <1>1, <1>2 DEF Holder
<1>5. \A v \in Workers : v # w => ~Holder(v, job[w].row)
  BY <1>3 DEF Ownership
<1>6. \A r \in Rows : r # job[w].row => ~Holder(w, r)
  BY DEF Holder
<1> QED
  BY <1>3, <1>4, <1>5, <1>6 DEF Right

\* Steps that touch neither the queue's ledger nor the rights.
LEMMA QuietStep ==
  ASSUME Life' = Life, Right' = Right, dials' = dials,
         session' = session \/ session' \in {"active", "paused", "stopped", "done"}
  PROVE  [Ledger!LNext]_LedgerVars
BY DEF Ledger!LNext, Ledger!ChangeRun, LedgerVars

\* Steps that close one row.
LEMMA CloseStep ==
  ASSUME TypeOK, NEW r \in Rows, st[r] # "absent",
         NEW s, LifeOf(s) = "closed", st' = [st EXCEPT ![r] = s],
         Right' = Right, dials' = dials, session' = session
  PROVE  [Ledger!LNext]_LedgerVars
<1>1. Life' = [Life EXCEPT ![r] = "closed"]
  BY LifeWrites
<1>2. Life[r] # "absent"
  BY DEF Life, LifeOf
<1>3. Ledger!Close(r)
  BY <1>1, <1>2 DEF Ledger!Close
<1> QED
  BY <1>3 DEF Ledger!LNext

-----------------------------------------------------------------------------
(* The steps that use the right to dial.                                   *)

LEMMA ClaimRefines ==
  ASSUME TypeOK, Ownership, NEW w \in Workers, Claim(w)
  PROVE  [Ledger!LNext]_LedgerVars
<1>1. dials' = dials /\ session' = session
  BY DEF Claim, phoneVars, runVars
<1>2. NextItems(job[w]) \subseteq Rows
  BY JobType DEF TypeOK, Job, NextItems, Eligible
<1>3. CASE Finish(w, job[w]) /\ UNCHANGED st
  <2>1. Life' = Life
    BY <1>3 DEF Life
  <2>2. Right' = Right
    BY <1>3, RightStays, Zenon DEF Finish, Claim
  <2> QED
    BY <1>1, <2>1, <2>2, QuietStep
<1>4. ASSUME NEW r \in Rows, st[r] = "pending", session = "active",
             st' = [st EXCEPT ![r] = "dialing"], Goto(w, "originate", [job[w] EXCEPT !.row = r])
      PROVE  [Ledger!LNext]_LedgerVars
  <2>1. Life' = [Life EXCEPT ![r] = "live"] /\ Life[r] = "queued"
    BY <1>4, LifeWrites DEF Life, LifeOf
  <2>2. /\ pc' = [pc EXCEPT ![w] = "originate"] /\ job'[w].row = r
        /\ \A v \in Workers : v # w => job'[v] = job[v]
    <3> DEFINE k == [job[w] EXCEPT !.row = r]
    <3>1. Goto(w, "originate", k)
      BY <1>4
    <3>2. k.row = r
      BY JobType DEF TypeOK, Job
    <3> HIDE DEF k
    <3> QED
      BY <3>1, <3>2 DEF Goto, TypeOK, TypeWorkers
  <2>3. \A v \in Workers, q \in Rows :
          Holder(v, q)' <=> (v = w /\ q = r) \/ (v # w /\ Holder(v, q))
    BY <2>2 DEF Holder, TypeOK, TypeWorkers
  <2>4. \A v \in Workers, q \in Rows : Holder(v, q) => v # w /\ q # r
    BY <1>4 DEF Ownership, Holder, Claim
  <2>5. Right' = Right \cup {r} /\ r \notin Right
    BY <2>3, <2>4 DEF Right
  <2>6. Ledger!Grant(r)
    BY <1>1, <1>4, <2>1, <2>5 DEF Ledger!Grant
  <2> QED
    BY <2>6 DEF Ledger!LNext
<1> QED
  BY <1>2, <1>3, <1>4, Zenon DEF Claim, Claimable

LEMMA OriginateRefines ==
  ASSUME TypeOK, Ownership, NEW w \in Workers, Originate(w)
  PROVE  [Ledger!LNext]_LedgerVars
<1> DEFINE r == job[w].row
<1>1. session' = session /\ st' = st /\ dials' = [dials EXCEPT ![r] = @ + 1] /\ pc[w] = "originate"
  BY Zenon DEF Originate, queueVars, runVars
<1>2. r \in Rows /\ dials[r] = 0
  BY <1>1, JobType DEF TypeOK, RowSteps, Ownership, Holder
<1>3. dials' = [dials EXCEPT ![r] = 1]
  BY <1>1, <1>2
<1>4. Right' = Right \ {r} /\ r \in Right
  <2>1. PICK k : Goto(w, "stamp", k)
    BY Zenon DEF Originate
  <2> QED
    BY <1>1, <2>1, RightGivenUp
<1>5. Life' = Life
  BY <1>1 DEF Life
<1>6. Ledger!Ring(r)
  BY <1>1, <1>2, <1>3, <1>4, <1>5 DEF Ledger!Ring
<1> QED
  BY <1>2, <1>6 DEF Ledger!LNext

\* A refused or failed dial, and a crash before the dial, hand the right back.
LEMMA HandBackRefines ==
  ASSUME TypeOK, Ownership, NEW w \in Workers, pc[w] = "originate",
         OriginateRefused(w) \/ OriginateFailed(w) \/ Crash(w)
  PROVE  [Ledger!LNext]_LedgerVars
<1> DEFINE r == job[w].row
<1>1. session' = session /\ dials' = dials
  BY DEF OriginateRefused, OriginateFailed, Crash, phoneVars, runVars
<1>2. r \in Rows /\ dials[r] = 0
  BY JobType DEF TypeOK, RowSteps, Ownership, Holder
<1>3. Right' = Right \ {r} /\ r \in Right
  <2>1. PICK s, k : s # "originate" /\ Goto(w, s, k)
    BY Zenon DEF OriginateRefused, OriginateFailed, Crash, Finish
  <2> QED
    BY <2>1, RightGivenUp
<1>4. \/ st' = st
      \/ st[r] = "dialing" /\ \E s \in {"skipped", "pending"} : st' = [st EXCEPT ![r] = s]
  BY DEF OriginateRefused, OriginateFailed, Crash, RolledBack, queueVars
<1>5. Life' \in {Life, [Life EXCEPT ![r] = IF @ = "live" THEN "queued" ELSE @],
                [Life EXCEPT ![r] = "closed"]}
  <2>1. CASE st' = st
    BY <2>1 DEF Life
  <2>2. ASSUME st[r] = "dialing", NEW s \in {"skipped", "pending"}, st' = [st EXCEPT ![r] = s]
        PROVE  Life' = [Life EXCEPT ![r] = IF s = "pending" THEN "queued" ELSE "closed"]
    BY <1>2, <2>2, LifeWrites DEF LifeOf
  <2>3. st[r] = "dialing" => Life[r] = "live"
    BY <1>2 DEF Life, LifeOf
  <2> QED
    BY <1>2, <1>4, <2>1, <2>2, <2>3
<1>6. Ledger!HandBack(r)
  BY <1>1, <1>2, <1>3, <1>5 DEF Ledger!HandBack
<1> QED
  BY <1>2, <1>6 DEF Ledger!LNext

-----------------------------------------------------------------------------
(* The steps that change the queue.                                        *)

LEMMA StartRefines ==
  ASSUME TypeOK, NEW w \in Workers, Start(w)
  PROVE  [Ledger!LNext]_LedgerVars
<1>1. PICK T \in SUBSET Rows :
        /\ \A r \in T : st[r] # "absent"
        /\ st' = [r \in Rows |-> IF r \in T THEN "trimmed" ELSE st[r]]
  <2>1. PICK size \in Sizes :
          st' = [r \in Rows |-> IF st[r] # "absent" /\ \E k \in LastKept(size) : row[r].ord > row[k].ord
                                THEN "trimmed" ELSE st[r]]
    BY DEF Start
  <2> DEFINE T == {r \in Rows : st[r] # "absent" /\ \E k \in LastKept(size) : row[r].ord > row[k].ord}
  <2>2. st' = [r \in Rows |-> IF r \in T THEN "trimmed" ELSE st[r]]
    BY <2>1, Zenon
  <2> QED
    BY <2>2, Zenon
<1>2. Life' = [r \in Rows |-> IF r \in T THEN "closed" ELSE Life[r]]
  BY <1>1 DEF Life, LifeOf
<1>3. \A r \in T : Life[r] # "absent"
  BY <1>1 DEF Life, LifeOf
<1>4. Right' = Right
  BY RightStays DEF Start, Begin
<1>5. Ledger!Begin(T)
  BY <1>2, <1>3, <1>4 DEF Ledger!Begin, Start, phoneVars
<1> QED
  BY <1>5 DEF Ledger!LNext

LEMMA SettleRefines ==
  ASSUME TypeOK, NEW w \in Workers,
         GateSkip(w) \/ SettleCurrent(w) \/ EndRow(w) \/ CutLate(w) \/ Connect(w)
  PROVE  [Ledger!LNext]_LedgerVars
<1>1. dials' = dials /\ session' = session
  BY DEF GateSkip, SettleCurrent, EndRow, CutLate, Connect, phoneVars, runVars
<1>2. /\ NextItems(job[w]) \subseteq Rows
      /\ pc[w] \in RowSteps => job[w].row \in Rows /\ st[job[w].row] # "absent"
  BY JobType DEF TypeOK, Job, NextItems, Eligible
<1>3. Right' = Right
  <2>1. pc[w] # "originate" /\ \E s, k : s # "originate" /\ Goto(w, s, k)
    BY Zenon DEF GateSkip, SettleCurrent, EndRow, CutLate, Connect, Finish
  <2> QED
    BY <2>1, RightStays
<1>4. \/ st' = st
      \/ \E r \in Rows, s \in {"skipped", "done", "no_connect"} :
           st[r] # "absent" /\ st' = [st EXCEPT ![r] = s]
      \/ \E r \in Rows : st[r] = "dialing" /\ st' = [st EXCEPT ![r] = "connected"]
  BY <1>2 DEF GateSkip, SettleCurrent, EndRow, CutLate, Connect, RowSteps
<1>5. CASE st' = st
  <2>1. Life' = Life
    BY <1>5 DEF Life
  <2> QED
    BY <1>1, <1>3, <2>1, QuietStep
<1>6. ASSUME NEW r \in Rows, NEW s \in {"skipped", "done", "no_connect"},
             st[r] # "absent", st' = [st EXCEPT ![r] = s]
      PROVE  [Ledger!LNext]_LedgerVars
  <2>1. LifeOf(s) = "closed"
    BY DEF LifeOf
  <2> QED
    BY <1>1, <1>3, <1>6, <2>1, CloseStep
<1>7. ASSUME NEW r \in Rows, st[r] = "dialing", st' = [st EXCEPT ![r] = "connected"]
      PROVE  [Ledger!LNext]_LedgerVars
  <2>1. Life' = [Life EXCEPT ![r] = "live"] /\ Life[r] = "live"
    BY <1>7, LifeWrites DEF Life, LifeOf
  <2>2. Life' = Life
    BY <2>1 DEF Life
  <2> QED
    BY <1>1, <1>3, <2>2, QuietStep
<1> QED
  BY <1>4, <1>5, <1>6, <1>7

LEMMA RequeueRefines ==
  ASSUME TypeOK, NEW w \in Workers, RedialTx(w) \/ TakeCallbackTx(w) \/ Miss(w)
  PROVE  [Ledger!LNext]_LedgerVars
<1> DEFINE r == job[w].row
<1>1. dials' = dials /\ (session' = session \/ session' = "paused")
  BY Zenon DEF RedialTx, TakeCallbackTx, Miss, phoneVars, runVars
<1>2. Right' = Right
  <2>1. pc[w] # "originate" /\ \E s, k : s # "originate" /\ Goto(w, s, k)
    BY Zenon DEF RedialTx, TakeCallbackTx, Miss, AfterMiss, Finish
  <2> QED
    BY <2>1, RightStays
<1>3. Requeues(r)
  BY RequeueTxWrites
<1>4. CASE st' = st
  <2>1. Life' = Life
    BY <1>4 DEF Life
  <2> QED
    BY <1>1, <1>2, <2>1, QuietStep
<1>5. \A s \in Closed : LifeOf(s) = "closed"
  BY DEF Closed, LifeOf
<1>6. ASSUME NEW s \in Closed, r \in Rows, st[r] = "dialing", st' = [st EXCEPT ![r] = s]
      PROVE  [Ledger!LNext]_LedgerVars
  <2>1. Life' = [Life EXCEPT ![r] = "closed"] /\ Life[r] # "absent"
    BY <1>5, <1>6, LifeWrites DEF Life, LifeOf
  <2>2. Ledger!Close(r)
    BY <1>1, <1>2, <2>1 DEF Ledger!Close
  <2> QED
    BY <1>6, <2>2 DEF Ledger!LNext
<1>7. ASSUME NEW q \in Rows, NEW s \in Closed, r \in Rows, st[r] \in {"dialing", "connected"},
             st[q] = "absent", st' = [st EXCEPT ![r] = s, ![q] = "pending"]
      PROVE  [Ledger!LNext]_LedgerVars
  <2>1. q # r /\ Life[q] = "absent" /\ Life[r] # "absent"
    BY <1>7 DEF Life, LifeOf
  <2>2. \A p \in Rows : st'[p] = IF p = q THEN "pending" ELSE IF p = r THEN s ELSE st[p]
    BY <1>7, <2>1 DEF TypeOK, TypeQueue
  <2>3. \A p \in Rows : LifeOf(st'[p]) = IF p = q THEN "queued" ELSE IF p = r THEN "closed" ELSE LifeOf(st[p])
    <3> TAKE p \in Rows
    <3>1. CASE p = q
      BY <2>2, <3>1 DEF LifeOf
    <3>2. CASE p # q /\ p = r
      BY <1>5, <2>2, <3>2
    <3>3. CASE p # q /\ p # r
      BY <2>2, <3>3
    <3> QED
      BY <3>1, <3>2, <3>3
  <2>4. Life' = [Life EXCEPT ![r] = "closed", ![q] = "queued"]
    BY <1>7, <2>1, <2>3 DEF Life
  <2>5. Ledger!Close(r)
    BY <1>1, <1>2, <2>1, <2>4 DEF Ledger!Close
  <2> QED
    BY <1>7, <2>5 DEF Ledger!LNext
<1> QED
  BY <1>3, <1>4, <1>6, <1>7, Zenon DEF Requeues, Insert, FreshRow

-----------------------------------------------------------------------------
(* Every other step leaves the ledger alone, but for the run's status.     *)

LEMMA QuietAdvance ==
  ASSUME TypeOK, NEW w \in Workers,
         \/ ReadSession(w) \/ LoadQueue(w) \/ RunOut(w) \/ ReleaseAtEnd(w) \/ SetDone(w) \/ Reload(w)
         \/ NoNumbers(w) \/ AfterRefusal(w) \/ Stamp(w) \/ HangUp(w) \/ AmdHangUp(w)
  PROVE  [Ledger!LNext]_LedgerVars
<1>1. st' = st /\ dials' = dials
  BY Zenon DEF ReadSession, LoadQueue, RunOut, ReleaseAtEnd, SetDone, Reload, NoNumbers, AfterRefusal, Stamp, HangUp, AmdHangUp, queueVars, phoneVars
<1>2. session' = session \/ session' \in {"active", "paused", "stopped", "done"}
  BY DEF ReadSession, LoadQueue, RunOut, ReleaseAtEnd, SetDone, Reload, NoNumbers, AfterRefusal, Stamp, HangUp, AmdHangUp, runVars
<1>3. pc[w] # "originate" /\ \E s, k : s # "originate" /\ Goto(w, s, k)
  BY Zenon DEF ReadSession, LoadQueue, RunOut, ReleaseAtEnd, SetDone, Reload, NoNumbers, AfterRefusal, Stamp, HangUp, AmdHangUp, Finish
<1>4. Life' = Life /\ Right' = Right
  BY <1>1, <1>3, RightStays DEF Life
<1> QED
  BY <1>1, <1>2, <1>4, QuietStep

LEMMA QuietButtons ==
  ASSUME TypeOK, NEW w \in Workers,
         \/ StartAgain(w) \/ Pause(w) \/ SetPaused(w) \/ Resume(w) \/ SetActive(w) \/ Skip(w)
         \/ RepNext(w) \/ Stop(w) \/ ReleaseAtStop(w) \/ SetStopped(w) \/ IdleCheck(w) \/ CutIdle(w)
         \/ FindDial(w) \/ EndCall(w) \/ PauseToEnd(w) \/ Redial(w) \/ TakeCallback(w) \/ Nudge(w)
  PROVE  [Ledger!LNext]_LedgerVars
<1>1. st' = st /\ dials' = dials
  BY Zenon DEF StartAgain, Pause, SetPaused, Resume, SetActive, Skip, RepNext, Stop, ReleaseAtStop, SetStopped, IdleCheck, CutIdle, FindDial, EndCall, PauseToEnd, Redial, TakeCallback, Nudge, queueVars, phoneVars
<1>2. session' = session \/ session' \in {"active", "paused", "stopped", "done"}
  BY DEF StartAgain, Pause, SetPaused, Resume, SetActive, Skip, RepNext, Stop, ReleaseAtStop, SetStopped, IdleCheck, CutIdle, FindDial, EndCall, PauseToEnd, Redial, TakeCallback, Nudge, runVars
<1>3. pc[w] # "originate" /\ \E s, k : s # "originate" /\ Goto(w, s, k)
  BY Zenon DEF StartAgain, Pause, SetPaused, Resume, SetActive, Skip, RepNext, Stop, ReleaseAtStop, SetStopped, IdleCheck, CutIdle, FindDial, EndCall, PauseToEnd, Redial, TakeCallback, Nudge, Begin, Finish
<1>4. Life' = Life /\ Right' = Right
  BY <1>1, <1>3, RightStays DEF Life
<1> QED
  BY <1>1, <1>2, <1>4, QuietStep

LEMMA QuietCallbacks ==
  ASSUME TypeOK, NEW w \in Workers,
         \/ Deliver(w) \/ StampEnded(w) \/ ReadRun(w) \/ LostConnect(w) \/ Bridge(w) \/ ReadHistory(w)
  PROVE  [Ledger!LNext]_LedgerVars
<1>1. st' = st /\ dials' = dials
  BY Zenon DEF Deliver, StampEnded, ReadRun, LostConnect, Bridge, ReadHistory, queueVars, phoneVars
<1>2. session' = session \/ session' \in {"active", "paused", "stopped", "done"}
  BY DEF Deliver, StampEnded, ReadRun, LostConnect, Bridge, ReadHistory, runVars
<1>3. pc[w] # "originate" /\ \E s, k : s # "originate" /\ Goto(w, s, k)
  BY Zenon DEF Deliver, StampEnded, ReadRun, LostConnect, Bridge, ReadHistory, Entry, Finish
<1>4. Life' = Life /\ Right' = Right
  BY <1>1, <1>3, RightStays DEF Life
<1> QED
  BY <1>1, <1>2, <1>4, QuietStep

LEMMA QuietEnvironment ==
  ASSUME TypeOK, LegLost \/ Phones \/ FloorPasses \/ UNCHANGED vars
  PROVE  [Ledger!LNext]_LedgerVars
<1>1. st' = st /\ dials' = dials
  BY EnvironmentMoves
<1>2. session' = session \/ session' \in {"active", "paused", "stopped", "done"}
  BY DEF LegLost, Phones, FloorPasses, vars, runVars
<1>3. pc' = pc /\ job' = job
  BY DEF LegLost, Phones, FloorPasses, vars
<1>4. Life' = Life /\ Right' = Right
  BY <1>1, <1>3 DEF Life, Right, Holder
<1> QED
  BY <1>1, <1>2, <1>4, QuietStep

LEMMA CrashRefines ==
  ASSUME TypeOK, Ownership, NEW w \in Workers, Crash(w)
  PROVE  [Ledger!LNext]_LedgerVars
<1>1. CASE pc[w] = "originate"
  BY <1>1, HandBackRefines
<1>2. CASE pc[w] # "originate"
  <2>1. st' = st /\ dials' = dials
    BY EnvironmentMoves
  <2>2. Life' = Life /\ Right' = Right /\ session' = session
    BY <1>2, <2>1, RightStays DEF Life, Crash, runVars
  <2> QED
    BY <2>1, <2>2, QuietStep
<1> QED
  BY <1>1, <1>2

LEMMA InitRefines == Init => Ledger!LInit
<1> SUFFICES ASSUME Init PROVE Ledger!LInit
  OBVIOUS
<1>1. Life \in [Rows -> {"absent", "queued", "closed"}]
  <2>1. \A r \in Rows : st[r] \in {"absent", "pending", "unreachable"}
    BY DEF Init
  <2>2. \A r \in Rows : LifeOf(st[r]) \in {"absent", "queued", "closed"}
    BY <2>1 DEF LifeOf
  <2> QED
    BY <2>2 DEF Life
<1>2. Right = {}
  BY DEF Init, Right, Holder
<1> QED
  BY <1>1, <1>2 DEF Init, Ledger!LInit

LEMMA StepRefines == TypeOK /\ Ownership /\ [Next]_vars => [Ledger!LNext]_LedgerVars
<1> SUFFICES ASSUME TypeOK, Ownership, [Next]_vars PROVE [Ledger!LNext]_LedgerVars
  OBVIOUS
<1>1. ASSUME NEW w \in Workers, Advance(w) PROVE [Ledger!LNext]_LedgerVars
  <2>1. OriginateRefused(w) \/ OriginateFailed(w) => pc[w] = "originate"
    BY DEF OriginateRefused, OriginateFailed
  <2> QED
    BY <1>1, <2>1, ClaimRefines, OriginateRefines, HandBackRefines, SettleRefines, QuietAdvance
       DEF Advance
<1>2. ASSUME NEW w \in Workers, Buttons(w) PROVE [Ledger!LNext]_LedgerVars
  BY <1>2, StartRefines, SettleRefines, RequeueRefines, QuietButtons DEF Buttons
<1>3. ASSUME NEW w \in Workers, Callbacks(w) PROVE [Ledger!LNext]_LedgerVars
  BY <1>3, SettleRefines, RequeueRefines, QuietCallbacks DEF Callbacks
<1> QED
  BY <1>1, <1>2, <1>3, CrashRefines, QuietEnvironment DEF Next

\* The run implements the ledger, for every number of handlers, people and rows:
\* a call needs a right, a right is granted only on a queued row of an active
\* run, to one handler, and serves once.
THEOREM RefinesLedger == Spec => KeepsLedger
<1>1. TypeOK /\ Ownership /\ [Next]_vars => [Ledger!LNext]_(Ledger!ledger)
  BY StepRefines DEF LedgerVars, Ledger!ledger
<1> QED
  BY InitRefines, <1>1, TypeCorrect, OwnershipHolds, PTL DEF Spec, KeepsLedger, Ledger!LSpec
=============================================================================
