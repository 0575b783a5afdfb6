-------------------------- MODULE TextQueue_proofs --------------------------
(***************************************************************************)
(* What handling inbound texts promises whatever the replicas, texts,      *)
(* faults and bounds: at most one digest email, at most MAX_TRIES creates  *)
(* for a text, no text finished in silence, one Task and one alert a text  *)
(* but for a lost answer or an overrun, and no digest before its batch is  *)
(* decided.                                                                *)
(*                                                                         *)
(* Every invariant says what a replica's memory is worth beside the rows:  *)
(* who holds a claim, which row it read, and what it may still do with it. *)
(* A step moves one replica (Goes), and changes one row or none; so each   *)
(* invariant is shown for that replica and that row, and kept elsewhere.   *)
(***************************************************************************)
EXTENDS TextQueue, FiniteSetTheorems, TLAPS

TextRow == [st : TextStatus, tries : Nat, task : BOOLEAN,
            alert : {"none", "emailed", "skipped"}, due : BOOLEAN, old : BOOLEAN]
DigestRow == [st : DigestStatus, tries : Nat, due : BOOLEAN, old : BOOLEAN]
AlertSteps == {"alert", "email", "stampEmail"}

TypeRows == text \in [Texts -> TextRow] /\ backfill \in BOOLEAN /\ overrun \subseteq Texts /\ faults \in Nat
TypeCounts ==
  /\ tried \in [Texts -> Nat] /\ made \in [Texts -> Nat]
  /\ mails \in [Texts -> Nat] /\ unheard \in [Texts -> Nat]
TypeDigest == digest \in DigestRow /\ delivered \in Nat
TypeReplicas ==
  /\ pc \in [Replicas -> Steps] /\ mem \in [Replicas -> Mem]
  /\ todo \in [Replicas -> SUBSET Texts] /\ stuck \in [Replicas -> SUBSET Mem]
Types == TypeRows /\ TypeCounts /\ TypeDigest /\ TypeReplicas

-----------------------------------------------------------------------------
(* The pieces steps are made of.                                           *)

LEMMA TypesAreTypeOK == TypeOK <=> Types
BY DEF TypeOK, Types, TypeRows, TypeCounts, TypeDigest, TypeReplicas, TextRow, DigestRow

LEMMA NoMemType ==
  ASSUME TextAssumption
  PROVE  NoMem \in Mem /\ NoMem.row \in Texts
<1>1. AnyText \in Texts
  BY DEF AnyText, TextAssumption
<1> QED
  BY <1>1 DEF NoMem, Mem

LEMMA MemoryType ==
  ASSUME TypeRows, NEW t \in Texts
  PROVE  /\ Memory(t) \in Mem
         /\ Memory(t).row = t /\ Memory(t).back = "close" /\ ~Memory(t).lost
         /\ Memory(t).tries = text[t].tries /\ Memory(t).task = text[t].task /\ Memory(t).owes = OwesAlert(t)
<1>1. text[t] \in TextRow
  BY DEF TypeRows
<1>2. OwesAlert(t) \in BOOLEAN
  BY <1>1 DEF OwesAlert, TypeRows
<1> QED
  BY <1>1, <1>2 DEF Memory, NoMem, Mem, TextRow

\* The only fields of a memory that a step changes.
LEMMA MemUpdate ==
  ASSUME NEW m \in Mem, NEW b \in BOOLEAN, NEW k \in {"close", "final", "scan"}, NEW n \in Nat
  PROVE  /\ [m EXCEPT !.lost = b] \in Mem /\ [m EXCEPT !.task = b] \in Mem /\ [m EXCEPT !.auth = b] \in Mem
         /\ [m EXCEPT !.back = k] \in Mem /\ [m EXCEPT !.tries = n] \in Mem
         /\ m.row \in Texts /\ m.tries \in Nat /\ m.back \in {"close", "final", "scan"}
         /\ m.task \in BOOLEAN /\ m.owes \in BOOLEAN /\ m.lost \in BOOLEAN /\ m.auth \in BOOLEAN
BY DEF Mem

LEMMA RowUpdate ==
  ASSUME NEW r \in TextRow
  PROVE  /\ \A s \in TextStatus : [r EXCEPT !.st = s] \in TextRow
         /\ \A b \in BOOLEAN : [r EXCEPT !.task = b] \in TextRow /\ [r EXCEPT !.due = b] \in TextRow /\ [r EXCEPT !.old = b] \in TextRow
         /\ \A a \in {"none", "emailed", "skipped"} : [r EXCEPT !.alert = a] \in TextRow
         /\ \A s \in TextStatus, b \in BOOLEAN :
              [r EXCEPT !.st = s, !.due = b] \in TextRow /\ [r EXCEPT !.st = s, !.old = b] \in TextRow
<1>1. ASSUME NEW s \in TextStatus, NEW b \in BOOLEAN
      PROVE  [r EXCEPT !.st = s, !.due = b] \in TextRow /\ [r EXCEPT !.st = s, !.old = b] \in TextRow
  BY DEF TextRow
<1>2. ASSUME NEW s \in TextStatus PROVE [r EXCEPT !.st = s] \in TextRow
  BY DEF TextRow
<1>3. ASSUME NEW b \in BOOLEAN
      PROVE  [r EXCEPT !.task = b] \in TextRow /\ [r EXCEPT !.due = b] \in TextRow /\ [r EXCEPT !.old = b] \in TextRow
  BY DEF TextRow
<1>4. ASSUME NEW a \in {"none", "emailed", "skipped"} PROVE [r EXCEPT !.alert = a] \in TextRow
  BY DEF TextRow
<1> QED
  BY <1>1, <1>2, <1>3, <1>4

LEMMA ClaimedType ==
  ASSUME TypeRows, NEW t \in Texts
  PROVE  /\ Claimed(t) \in TextRow /\ [Claimed(t) EXCEPT !.st = "failed"] \in TextRow
         /\ Claimed(t).st = "in_flight" /\ Claimed(t).tries = text[t].tries + 1
         /\ Claimed(t).task = text[t].task /\ Claimed(t).alert = text[t].alert
<1>1. text[t] \in TextRow /\ text[t].tries + 1 \in Nat
  BY DEF TypeRows, TextRow
<1>2. Claimed(t) \in TextRow
  BY <1>1 DEF Claimed, TextRow, TextStatus
<1>3. [Claimed(t) EXCEPT !.st = "failed"] \in TextRow
  BY <1>2, RowUpdate DEF TextStatus
<1>4. /\ Claimed(t).st = "in_flight" /\ Claimed(t).tries = text[t].tries + 1
      /\ Claimed(t).task = text[t].task /\ Claimed(t).alert = text[t].alert
  BY <1>1 DEF Claimed, TextRow
<1> QED
  BY <1>2, <1>3, <1>4

LEMMA GotoFacts ==
  ASSUME TypeReplicas, NEW w \in Replicas, NEW s \in Steps, NEW m \in Mem, Goto(w, s, m)
  PROVE  /\ pc' \in [Replicas -> Steps] /\ mem' \in [Replicas -> Mem]
         /\ \A v \in Replicas : /\ pc'[v] = IF v = w THEN s ELSE pc[v]
                                /\ mem'[v] = IF v = w THEN m ELSE mem[v]
         /\ backfill' = backfill
BY DEF TypeReplicas, Goto

LEMMA PatchFacts ==
  ASSUME TypeRows, NEW t \in Texts, NEW r \in TextRow, Patch(t, r)
  PROVE  /\ text' \in [Texts -> TextRow]
         /\ \A u \in Texts : u # t => text'[u] = text[u]
         /\ text'[t].st = r.st /\ text'[t].tries = r.tries /\ text'[t].task = r.task
         /\ text'[t].alert = r.alert /\ text'[t].due = r.due /\ ~text'[t].old
<1>1. [r EXCEPT !.old = FALSE] \in TextRow
  BY RowUpdate DEF TextStatus
<1> QED
  BY <1>1 DEF Patch, TypeRows, TextRow

LEMMA PlusFacts ==
  ASSUME NEW f, NEW g, f \in [Texts -> Nat], NEW t \in Texts, g = [f EXCEPT ![t] = @ + 1]
  PROVE  /\ g \in [Texts -> Nat]
         /\ \A u \in Texts : g[u] = IF u = t THEN f[u] + 1 ELSE f[u]
<1>1. f[t] + 1 \in Nat
  OBVIOUS
<1> QED
  BY <1>1

LEMMA FaultType ==
  ASSUME faults \in Nat, NEW f, Fault(f)
  PROVE  faults' \in Nat
BY DEF Fault

LEMMA ReplicaTypes ==
  ASSUME TypeRows, TypeReplicas, NEW w \in Replicas
  PROVE  /\ pc[w] \in Steps /\ mem[w] \in Mem /\ mem[w].row \in Texts
         /\ Row(w) \in TextRow /\ todo[w] \in SUBSET Texts /\ stuck[w] \in SUBSET Mem
<1>1. mem[w] \in Mem
  BY DEF TypeReplicas
<1>2. mem[w].row \in Texts
  BY <1>1 DEF Mem
<1> QED
  BY <1>1, <1>2 DEF TypeReplicas, TypeRows, Row

Act(w) == Tick(w) \/ Process(w) \/ Digest(w) \/ Failure(w)

\* Where a step leads: every step of a replica moves it, with a memory of its own.
LEMMA AfterAlertGoes ==
  ASSUME TextAssumption, TypeRows, TypeReplicas, NEW w \in Replicas, AfterAlert(w)
  PROVE  \E m \in Mem : /\ Goto(w, mem[w].back, m) /\ mem[w].back \in Steps \cap {"close", "final", "scan"}
                        /\ mem[w].back = "close" => m = mem[w]
<1>1. mem[w] \in Mem /\ mem[w].back \in {"close", "final", "scan"}
  BY ReplicaTypes, MemUpdate
<1>2. mem[w].back \in Steps
  BY <1>1 DEF Steps, RowSteps
<1> QED
  BY <1>1, <1>2, NoMemType DEF AfterAlert

LEMMA GiveUpTaskGoes ==
  ASSUME TextAssumption, TypeRows, TypeReplicas, NEW w \in Replicas, NEW p \in BOOLEAN, GiveUpTask(w, p)
  PROVE  \E s \in {"catch", "alert", "close"}, m \in Mem :
           /\ Goto(w, s, m)
           /\ m.row = mem[w].row /\ m.task = mem[w].task /\ m.owes = mem[w].owes /\ m.back = mem[w].back
           /\ s # "catch" => m.lost /\ (s = "alert" <=> mem[w].owes)
<1>1. mem[w] \in Mem
  BY ReplicaTypes
<1>2. CASE ~p /\ mem[w].tries < MaxTries
  BY <1>1, <1>2 DEF GiveUpTask
<1>3. CASE ~(~p /\ mem[w].tries < MaxTries)
  <2> DEFINE m == [mem[w] EXCEPT !.lost = TRUE]
  <2>1. m \in Mem /\ m.lost /\ m.row = mem[w].row /\ m.task = mem[w].task /\ m.owes = mem[w].owes /\ m.back = mem[w].back
    BY <1>1 DEF Mem
  <2>2. Goto(w, AfterTask(mem[w]), m)
    BY <1>3 DEF GiveUpTask
  <2>3. AfterTask(mem[w]) \in {"alert", "close"} /\ (AfterTask(mem[w]) = "alert" <=> mem[w].owes)
    BY DEF AfterTask
  <2> QED
    BY <2>1, <2>2, <2>3
<1> QED
  BY <1>2, <1>3

LEMMA AlertFailedGoes ==
  ASSUME TextAssumption, TypeRows, TypeReplicas, NEW w \in Replicas, NEW a \in BOOLEAN, AlertFailed(w, a)
  PROVE  \E s \in {"catch", "final", "scan"}, m \in Mem :
           /\ Goto(w, s, m)
           /\ s = "catch" => /\ m.row = mem[w].row /\ m.task = mem[w].task /\ m.owes = mem[w].owes
                             /\ m.back = mem[w].back /\ m.back = "close"
<1>1. mem[w] \in Mem
  BY ReplicaTypes
<1>2. CASE mem[w].back = "close"
  <2> DEFINE m == [mem[w] EXCEPT !.auth = a]
  <2>1. m \in Mem /\ m.row = mem[w].row /\ m.task = mem[w].task /\ m.owes = mem[w].owes /\ m.back = mem[w].back
    BY <1>1 DEF Mem
  <2>2. Goto(w, "catch", m)
    BY <1>2 DEF AlertFailed
  <2> QED
    BY <1>2, <2>1, <2>2
<1>3. CASE mem[w].back # "close"
  <2>1. mem[w].back \in {"final", "scan"}
    BY <1>1, <1>3, MemUpdate
  <2> QED
    BY <1>3, <2>1, NoMemType DEF AlertFailed, AfterAlert
<1> QED
  BY <1>2, <1>3

LEMMA StepsNamed ==
  /\ {"idle", "final", "scan", "match", "create", "stampTask", "alert", "email", "stampEmail", "close", "catch"} \subseteq Steps
  /\ {"reapDigest", "queue", "scanDigest", "readDigest", "claimDigest", "post", "digestSent", "digestUnknown"} \subseteq Steps
BY DEF Steps, RowSteps, DigestSteps

LEMMA Goes ==
  ASSUME TextAssumption, Types, NEW w \in Replicas, Act(w)
  PROVE  \E s \in Steps, m \in Mem : Goto(w, s, m)
<1>0. TypeRows /\ TypeReplicas /\ TypeDigest
  BY DEF Types
<1>1. mem[w] \in Mem /\ NoMem \in Mem /\ mem[w].row \in Texts /\ pc[w] \in Steps
  BY <1>0, NoMemType, ReplicaTypes
<1>m. \A b \in BOOLEAN : [mem[w] EXCEPT !.task = b] \in Mem /\ [mem[w] EXCEPT !.auth = b] \in Mem
  BY <1>1, MemUpdate
<1>a. AfterTask(mem[w]) \in Steps /\ (IF mem[w].task THEN AfterTask(mem[w]) ELSE "create") \in Steps
  BY StepsNamed DEF AfterTask
<1>2. CASE Tick(w)
  <2>1. CASE Reap(w) \/ Scan(w) \/ EndScan(w)
    BY <1>1, <2>1, StepsNamed, Zenon DEF Reap, Scan, EndScan
  <2>2. CASE FinalAlert(w)
    <3>1. PICK m \in stuck[w] : Goto(w, "alert", m)
      BY <2>2 DEF FinalAlert
    <3>2. m \in Mem
      BY <1>0, ReplicaTypes
    <3> QED
      BY <3>1, <3>2, StepsNamed
  <2>3. CASE Claim(w)
    <3>1. PICK t \in todo[w] : Goto(w, "match", [Memory(t) EXCEPT !.tries = @ + 1])
      BY <2>3 DEF Claim
    <3>2. t \in Texts
      BY <1>0, ReplicaTypes
    <3>3. Memory(t) \in Mem
      BY <1>0, <3>2, MemoryType
    <3>4. [Memory(t) EXCEPT !.tries = @ + 1] \in Mem
      BY <3>3 DEF Mem
    <3> QED
      BY <3>1, <3>4, StepsNamed
  <2>4. CASE GiveUp(w)
    <3>1. PICK t \in todo[w] : IF OwesAlert(t) THEN Goto(w, "alert", [Memory(t) EXCEPT !.back = "scan"])
                                               ELSE Goto(w, "scan", NoMem)
      BY <2>4 DEF GiveUp
    <3>2. t \in Texts
      BY <1>0, ReplicaTypes
    <3>3. Memory(t) \in Mem
      BY <1>0, <3>2, MemoryType
    <3>4. [Memory(t) EXCEPT !.back = "scan"] \in Mem
      BY <3>3, MemUpdate
    <3> QED
      BY <3>1, <3>4, <1>1, StepsNamed
  <2>5. CASE Lose(w)
    <3>1. pc' = [pc EXCEPT ![w] = pc[w]] /\ mem' = [mem EXCEPT ![w] = mem[w]] /\ UNCHANGED backfill
      BY <1>0, <2>5 DEF Lose, TypeReplicas
    <3> QED
      BY <3>1, <1>1 DEF Goto
  <2> QED
    BY <1>2, <2>1, <2>2, <2>3, <2>4, <2>5 DEF Tick
<1>3. CASE Process(w)
  <2>1. CASE Match(w) \/ Create(w) \/ ToEmail(w) \/ Email(w) \/ Close(w) \/ Catch(w)
    BY <1>1, <1>a, <2>1, StepsNamed, Zenon DEF Match, Create, ToEmail, Email, Close, Catch
  <2>2. CASE StampTask(w)
    BY <1>m, <1>a, <2>2 DEF StampTask
  <2>3. CASE SkipAlert(w) \/ StampEmail(w)
    BY <1>0, <2>3, AfterAlertGoes DEF SkipAlert, StampEmail
  <2> QED
    BY <1>3, <2>1, <2>2, <2>3 DEF Process
<1>4. CASE Digest(w)
  <2>1. CASE ReapDigest(w) \/ QueueDigest(w) \/ ReadDigest(w) \/ ClaimDigest(w) \/ Post(w) \/ DigestClosed(w)
    BY <1>1, <2>1, StepsNamed, Zenon DEF ReapDigest, QueueDigest, ReadDigest, ClaimDigest, Post, DigestClosed, NextDigest
  <2>2. CASE ScanDigest(w)
    <3>1. digest.tries \in Nat
      BY <1>0 DEF TypeDigest, DigestRow
    <3>2. [NoMem EXCEPT !.tries = digest.tries] \in Mem
      BY <1>1, <3>1, MemUpdate
    <3> QED
      BY <1>1, <2>2, <3>2, StepsNamed, Zenon DEF ScanDigest
  <2> QED
    BY <1>4, <2>1, <2>2 DEF Digest
<1>5. CASE Failure(w)
  <2>1. CASE CreateRefused(w) \/ CreateUnanswered(w)
    <3>1. \E p \in BOOLEAN : GiveUpTask(w, p)
      BY <2>1 DEF CreateRefused, CreateUnanswered
    <3> QED
      BY <1>0, <3>1, GiveUpTaskGoes, StepsNamed
  <2>2. CASE EmailUnanswered(w) \/ EmailRefused(w)
    <3>1. \E a \in BOOLEAN : AlertFailed(w, a)
      BY <2>2 DEF EmailUnanswered, EmailRefused
    <3> QED
      BY <1>0, <3>1, AlertFailedGoes, StepsNamed
  <2>3. CASE RequestFails(w)
    BY <1>m, <2>3, StepsNamed DEF RequestFails
  <2>4. CASE ReadDigestFails(w) \/ PostUnclear(w) \/ PostRefused(w) \/ Crash(w)
    BY <1>1, <2>4, StepsNamed, Zenon DEF ReadDigestFails, PostUnclear, PostRefused, Crash, NextDigest
  <2> QED
    BY <1>5, <2>1, <2>2, <2>3, <2>4 DEF Failure
<1> QED
  BY <1>2, <1>3, <1>4, <1>5 DEF Act

RowAct(w) ==
  \/ Process(w) \/ CreateRefused(w) \/ CreateUnanswered(w) \/ EmailUnanswered(w) \/ EmailRefused(w)
  \/ RequestFails(w)
DigestAct(w) == Digest(w) \/ ReadDigestFails(w) \/ PostUnclear(w) \/ PostRefused(w)

LEMMA ActKinds ==
  ASSUME NEW w, Act(w)
  PROVE  Tick(w) \/ RowAct(w) \/ DigestAct(w) \/ Crash(w)
BY DEF Act, Failure, RowAct, DigestAct

\* What a step of each kind leaves alone.
LEMMA RowActKeeps ==
  ASSUME NEW w, RowAct(w)
  PROVE  UNCHANGED <<post, overrun, lists>> /\ pc[w] \in RowSteps
<1>1. CASE Process(w)
  BY <1>1, Zenon DEF Process, Match, Create, StampTask, SkipAlert, ToEmail, Email, StampEmail, Close, Catch,
     At, RowSteps, lists, post
<1>2. CASE ~Process(w)
  BY <1>2, Zenon DEF RowAct, CreateRefused, CreateUnanswered, EmailUnanswered, EmailRefused, RequestFails,
     At, RowSteps, lists, post
<1> QED
  BY <1>1, <1>2

LEMMA DigestActKeeps ==
  ASSUME NEW w, DigestAct(w)
  PROVE  UNCHANGED <<text, sent, overrun, lists>> /\ pc[w] \in DigestSteps
BY Zenon DEF DigestAct, Digest, ReapDigest, QueueDigest, ScanDigest, ReadDigest, ClaimDigest, Post, DigestClosed,
   ReadDigestFails, PostUnclear, PostRefused, NextDigest, At, DigestSteps, lists, post

LEMMA TickKeeps ==
  ASSUME NEW w, Tick(w)
  PROVE  UNCHANGED <<post, sent, overrun, faults>> /\ pc[w] \in {"idle", "final", "scan"}
BY Zenon DEF Tick, Reap, FinalAlert, Scan, Claim, GiveUp, Lose, EndScan, At, post, sent

LEMMA ReapFacts ==
  ASSUME TypeRows, NEW w \in Replicas, Reap(w)
  PROVE  /\ text' \in [Texts -> TextRow]
         /\ \A t \in Texts :
              /\ t \notin Old => text'[t] = text[t]
              /\ t \in Old =>
                   /\ text[t].st = "in_flight" /\ text[t].old /\ ~text'[t].old
                   /\ text'[t].st = IF text[t].tries < MaxTries THEN "pending" ELSE "failed"
              /\ text'[t].tries = text[t].tries /\ text'[t].task = text[t].task /\ text'[t].alert = text[t].alert
<1> DEFINE S(t) == IF text[t].tries < MaxTries THEN "pending" ELSE "failed"
           N(t) == [text[t] EXCEPT !.st = S(t), !.old = FALSE]
<1>1. text' = [t \in Texts |-> IF t \notin Old THEN text[t] ELSE N(t)]
  BY DEF Reap
<1>2. \A t \in Texts : text[t] \in TextRow /\ S(t) \in TextStatus
  BY DEF TypeRows, TextStatus
<1> HIDE DEF S
<1>3. \A t \in Texts : N(t) \in TextRow
  BY <1>2, RowUpdate
<1>4. \A t \in Texts : /\ N(t).st = S(t) /\ ~N(t).old /\ N(t).tries = text[t].tries
                       /\ N(t).task = text[t].task /\ N(t).alert = text[t].alert
  BY <1>2 DEF TextRow
<1> HIDE DEF N
<1>5. text' \in [Texts -> TextRow]
  BY <1>1, <1>2, <1>3
<1>6. \A t \in Texts : text'[t] = IF t \notin Old THEN text[t] ELSE N(t)
  BY <1>1
<1> QED
  BY <1>4, <1>5, <1>6 DEF Old, S

\* The alerts a reaper owes for the texts it gave up.
LEMMA ReapStuck ==
  ASSUME TypeRows, TypeReplicas, NEW w \in Replicas, Reap(w)
  PROVE  /\ stuck' \in [Replicas -> SUBSET Mem]
         /\ \A v \in Replicas : v # w => stuck'[v] = stuck[v]
         /\ \A m \in stuck'[w] :
              /\ m.row \in Old /\ text[m.row].tries >= MaxTries /\ OwesAlert(m.row)
              /\ m = [Memory(m.row) EXCEPT !.back = "final"]
              /\ m.back = "final" /\ m.owes /\ m.task = text[m.row].task
<1> DEFINE S == {t \in Old : text[t].tries >= MaxTries /\ OwesAlert(t)}
           M(t) == [Memory(t) EXCEPT !.back = "final"]
           L == {M(t) : t \in S}
<1>1. stuck' = [stuck EXCEPT ![w] = L]
  BY DEF Reap
<1>2. \A t \in S : t \in Texts
  BY DEF Old
<1>3. \A t \in S : /\ M(t) \in Mem /\ M(t).row = t /\ M(t).back = "final" /\ M(t).owes = OwesAlert(t)
                   /\ M(t).task = text[t].task
  <2> TAKE t \in S
  <2>1. /\ Memory(t) \in Mem /\ Memory(t).row = t /\ Memory(t).owes = OwesAlert(t) /\ Memory(t).task = text[t].task
    BY <1>2, MemoryType
  <2> QED
    BY <2>1 DEF Mem
<1> HIDE DEF M
<1>4. L \subseteq Mem
  BY <1>3
<1>5. stuck'[w] = L
  BY <1>1 DEF TypeReplicas
<1>6. \A m \in L : m.row \in S /\ m = M(m.row)
  BY <1>3
<1> HIDE DEF L
<1>7. /\ stuck' \in [Replicas -> SUBSET Mem] /\ \A v \in Replicas : v # w => stuck'[v] = stuck[v]
  BY <1>1, <1>4 DEF TypeReplicas
<1>8. \A m \in L : /\ m.row \in Old /\ text[m.row].tries >= MaxTries /\ OwesAlert(m.row)
                   /\ m.back = "final" /\ m.owes /\ m.task = text[m.row].task
  <2> TAKE m \in L
  <2>1. m.row \in S /\ m = M(m.row)
    BY <1>6
  <2>2. M(m.row).back = "final" /\ M(m.row).owes = OwesAlert(m.row) /\ M(m.row).task = text[m.row].task
    BY <1>3, <2>1
  <2>3. m.row \in Old /\ text[m.row].tries >= MaxTries /\ OwesAlert(m.row)
    BY <2>1
  <2> QED
    BY <2>1, <2>2, <2>3
<1>9. \A m \in L : m = [Memory(m.row) EXCEPT !.back = "final"]
  BY <1>6 DEF M
<1> QED
  BY <1>5, <1>7, <1>8, <1>9

LEMMA TypeRowsHold ==
  ASSUME TextAssumption, Types, Next
  PROVE  TypeRows'
<1>0. TypeRows /\ TypeReplicas
  BY DEF Types
<1>1. ASSUME NEW w \in Replicas, Act(w) PROVE TypeRows'
  <2>1. backfill' \in BOOLEAN
    <3>1. PICK s \in Steps, m \in Mem : Goto(w, s, m)
      BY <1>1, Goes
    <3> QED
      BY <3>1, <1>0 DEF Goto, TypeRows
  <2>2. overrun' \subseteq Texts
    BY <1>0, <1>1, ActKinds, RowActKeeps, DigestActKeeps, TickKeeps DEF Crash, TypeRows
  <2>3. faults' \in Nat
    <3>1. faults' = faults \/ \E f : Fault(f)
      BY <1>1, Zenon DEF Act, Tick, Process, Digest, Failure, Reap, FinalAlert, Scan, Claim, GiveUp, Lose, EndScan,
         Match, Create, StampTask, SkipAlert, ToEmail, Email, StampEmail, Close, Catch,
         ReapDigest, QueueDigest, ScanDigest, ReadDigest, ClaimDigest, Post, DigestClosed,
         CreateRefused, CreateUnanswered, EmailUnanswered, EmailRefused, RequestFails, ReadDigestFails, PostUnclear,
         PostRefused, Crash
    <3> QED
      BY <1>0, <3>1, FaultType DEF TypeRows
  <2>4. text' \in [Texts -> TextRow]
    <3>0. text \in [Texts -> TextRow]
      BY <1>0 DEF TypeRows
    <3>t. mem[w].row \in Texts /\ Row(w) \in TextRow /\ todo[w] \in SUBSET Texts
      BY <1>0, ReplicaTypes
    <3>1. CASE Tick(w)
      <4>1. CASE Reap(w)
        BY <1>0, <4>1, ReapFacts
      <4>2. CASE Claim(w) \/ GiveUp(w)
        <5>1. PICK t \in todo[w] : Patch(t, Claimed(t)) \/ Patch(t, [Claimed(t) EXCEPT !.st = "failed"])
          BY <4>2 DEF Claim, GiveUp
        <5> QED
          BY <1>0, <3>t, <5>1, ClaimedType, PatchFacts
      <4>3. CASE FinalAlert(w) \/ Scan(w) \/ Lose(w) \/ EndScan(w)
        BY <3>0, <4>3, Zenon DEF FinalAlert, Scan, Lose, EndScan
      <4> QED
        BY <3>1, <4>1, <4>2, <4>3 DEF Tick
    <3>2. CASE RowAct(w)
      <4>1. CASE StampTask(w) \/ SkipAlert(w) \/ StampEmail(w) \/ Close(w) \/ Catch(w)
        <5>1. PICK r \in TextRow : Patch(mem[w].row, r)
          <6>1. \A s \in TextStatus : [Row(w) EXCEPT !.st = s] \in TextRow /\ [Row(w) EXCEPT !.st = s, !.due = FALSE] \in TextRow
            BY <3>t, RowUpdate
          <6>2. /\ [Row(w) EXCEPT !.task = TRUE] \in TextRow
                /\ \A a \in {"emailed", "skipped"} : [Row(w) EXCEPT !.alert = a] \in TextRow
            BY <3>t, RowUpdate
          <6>3. (IF mem[w].lost THEN "failed" ELSE "done") \in TextStatus /\ "failed" \in TextStatus /\ "pending" \in TextStatus
            BY DEF TextStatus
          <6>4. CASE StampTask(w) \/ SkipAlert(w) \/ StampEmail(w)
            BY <6>2, <6>4, Zenon DEF StampTask, SkipAlert, StampEmail
          <6>5. CASE Close(w)
            BY <6>1, <6>3, <6>5 DEF Close
          <6>6. CASE Catch(w)
            BY <6>1, <6>3, <6>6 DEF Catch
          <6> QED
            BY <4>1, <6>4, <6>5, <6>6
        <5> QED
          BY <1>0, <3>t, <5>1, PatchFacts
      <4>2. CASE \/ Match(w) \/ Create(w) \/ ToEmail(w) \/ Email(w) \/ CreateRefused(w) \/ CreateUnanswered(w)
                 \/ EmailUnanswered(w) \/ EmailRefused(w) \/ RequestFails(w)
        BY <3>0, <4>2, Zenon DEF Match, Create, ToEmail, Email, CreateRefused, CreateUnanswered, EmailUnanswered,
           EmailRefused, RequestFails
      <4> QED
        BY <3>2, <4>1, <4>2 DEF RowAct, Process
    <3>3. CASE DigestAct(w) \/ Crash(w)
      BY <3>0, <3>3, DigestActKeeps DEF Crash
    <3> QED
      BY <1>1, <3>1, <3>2, <3>3, ActKinds
  <2> QED
    BY <2>1, <2>2, <2>3, <2>4 DEF TypeRows
<1>2. CASE DigestDue \/ DigestStale
  BY <1>0, <1>2 DEF DigestDue, DigestStale, TypeRows
<1>3. ASSUME NEW t \in Texts, TextDue(t) \/ TextStale(t) PROVE TypeRows'
  <2>1. text[t] \in TextRow /\ text \in [Texts -> TextRow]
    BY <1>0 DEF TypeRows
  <2>2. [text[t] EXCEPT !.due = TRUE] \in TextRow /\ [text[t] EXCEPT !.old = TRUE] \in TextRow
    BY <2>1, RowUpdate
  <2>3. CASE TextDue(t)
    <3>1. text' \in [Texts -> TextRow]
      BY <2>1, <2>2, <2>3 DEF TextDue
    <3> QED
      BY <1>0, <2>3, <3>1 DEF TextDue, TypeRows
  <2>4. CASE TextStale(t)
    <3>1. text' \in [Texts -> TextRow]
      BY <2>1, <2>2, <2>4 DEF TextStale
    <3>2. overrun' \subseteq Texts /\ faults' \in Nat /\ backfill' = backfill
      BY <1>0, <2>4, FaultType DEF TextStale, TypeRows
    <3> QED
      BY <1>0, <3>1, <3>2 DEF TypeRows
  <2> QED
    BY <1>3, <2>3, <2>4
<1> QED
  BY <1>1, <1>2, <1>3 DEF Next, Time, Act

PlusOrSame(f, g, t) == g = f \/ g = [f EXCEPT ![t] = @ + 1]
\* A step about text q, or about none: the counts of the others stay.
Counted(q) ==
  /\ PlusOrSame(tried, tried', q) /\ PlusOrSame(made, made', q)
  /\ PlusOrSame(mails, mails', q) /\ PlusOrSame(unheard, unheard', q)

LEMMA ActCounts ==
  ASSUME NEW w, Act(w)
  PROVE  Counted(mem[w].row)
<1>1. CASE Tick(w) \/ DigestAct(w)
  BY <1>1, TickKeeps, DigestActKeeps DEF sent, Counted, PlusOrSame
<1>2. CASE Process(w)
  BY <1>2, Zenon DEF Process, Match, Create, StampTask, SkipAlert, ToEmail, Email, StampEmail, Close, Catch,
     Plus, sent, Counted, PlusOrSame
<1>3. CASE CreateRefused(w) \/ CreateUnanswered(w) \/ EmailUnanswered(w) \/ EmailRefused(w) \/ RequestFails(w) \/ Crash(w)
  BY <1>3, Zenon DEF CreateRefused, CreateUnanswered, EmailUnanswered, EmailRefused, RequestFails, Crash,
     Plus, sent, Counted, PlusOrSame
<1> QED
  BY <1>1, <1>2, <1>3, ActKinds DEF RowAct

LEMMA CountedFacts ==
  ASSUME TypeCounts, NEW q \in Texts, Counted(q)
  PROVE  /\ TypeCounts'
         /\ \A u \in Texts : /\ u # q => tried'[u] = tried[u] /\ made'[u] = made[u]
                                          /\ mails'[u] = mails[u] /\ unheard'[u] = unheard[u]
                             /\ made'[u] >= made[u] /\ unheard'[u] >= unheard[u]
<1>1. ASSUME NEW f, NEW g, f \in [Texts -> Nat], PlusOrSame(f, g, q)
      PROVE  g \in [Texts -> Nat] /\ \A u \in Texts : (u # q => g[u] = f[u]) /\ g[u] >= f[u]
  <2>1. CASE g = f
    <3>1. \A u \in Texts : f[u] \in Nat
      BY <1>1
    <3> QED
      BY <1>1, <2>1, <3>1
  <2>2. CASE g = [f EXCEPT ![q] = @ + 1]
    <3>1. /\ g \in [Texts -> Nat]
          /\ \A u \in Texts : g[u] = (IF u = q THEN f[u] + 1 ELSE f[u]) /\ f[u] \in Nat
      BY <1>1, <2>2, PlusFacts
    <3> QED
      BY <3>1
  <2> QED
    BY <1>1, <2>1, <2>2 DEF PlusOrSame
<1> QED
  BY <1>1 DEF TypeCounts, Counted

LEMMA TypeCountsHold ==
  ASSUME Types, Next
  PROVE  TypeCounts'
<1>0. TypeRows /\ TypeReplicas /\ TypeCounts
  BY DEF Types
<1>1. ASSUME NEW w \in Replicas, Act(w) PROVE TypeCounts'
  BY <1>0, <1>1, ActCounts, CountedFacts, ReplicaTypes
<1>2. CASE Time
  BY <1>0, <1>2, Zenon DEF Time, DigestDue, DigestStale, TextDue, TextStale, sent, TypeCounts
<1> QED
  BY <1>1, <1>2 DEF Next, Act

LEMMA DigestUpdate ==
  ASSUME NEW d \in DigestRow
  PROVE  /\ \A s \in DigestStatus : [d EXCEPT !.st = s] \in DigestRow /\ [d EXCEPT !.st = s, !.old = FALSE] \in DigestRow
         /\ \A b \in BOOLEAN : [d EXCEPT !.due = b] \in DigestRow /\ [d EXCEPT !.old = b] \in DigestRow
         /\ \A s \in DigestStatus, n \in Nat, b \in BOOLEAN : [d EXCEPT !.st = s, !.tries = n, !.due = b] \in DigestRow
<1>1. ASSUME NEW s \in DigestStatus PROVE [d EXCEPT !.st = s] \in DigestRow /\ [d EXCEPT !.st = s, !.old = FALSE] \in DigestRow
  BY DEF DigestRow
<1>2. ASSUME NEW b \in BOOLEAN PROVE [d EXCEPT !.due = b] \in DigestRow /\ [d EXCEPT !.old = b] \in DigestRow
  BY DEF DigestRow
<1>3. ASSUME NEW s \in DigestStatus, NEW n \in Nat, NEW b \in BOOLEAN PROVE [d EXCEPT !.st = s, !.tries = n, !.due = b] \in DigestRow
  BY DEF DigestRow
<1> QED
  BY <1>1, <1>2, <1>3

LEMMA BackoffType ==
  ASSUME digest \in DigestRow, NEW n \in Nat
  PROVE  Backoff(n) \in DigestRow /\ Backoff(n).st \in {"failed", "pending"}
<1>1. (IF n + 1 >= MaxTries THEN "failed" ELSE "pending") \in DigestStatus /\ n + 1 \in Nat
  BY DEF DigestStatus
<1>2. Backoff(n) \in DigestRow
  BY <1>1, DigestUpdate DEF Backoff
<1>3. Backoff(n).st \in {"failed", "pending"}
  BY DEF Backoff, DigestRow
<1> QED
  BY <1>2, <1>3

\* The digest's row after a failed try: as it was, given up, or to be tried again.
LEMMA NextDigestFacts ==
  ASSUME NEW w, NEW s, NEW d \in DigestRow, NextDigest(w, s, d)
  PROVE  digest' \in DigestRow /\ digest'.st = d.st
<1>1. digest' = [d EXCEPT !.old = FALSE]
  BY DEF NextDigest
<1> QED
  BY <1>1 DEF DigestRow

LEMMA TypeDigestHold ==
  ASSUME TextAssumption, Types, Next
  PROVE  TypeDigest'
<1>0. digest \in DigestRow /\ delivered \in Nat /\ TypeRows /\ TypeReplicas
  BY DEF Types, TypeDigest
<1>u. \A s \in DigestStatus : /\ [digest EXCEPT !.st = s] \in DigestRow
                              /\ [digest EXCEPT !.st = s, !.old = FALSE] \in DigestRow
  BY <1>0, DigestUpdate
<1>s. DigestStatus = {"none", "pending", "sending", "sent", "failed", "unknown"}
  BY DEF DigestStatus
<1>1. ASSUME NEW w \in Replicas, DigestAct(w) PROVE TypeDigest'
  <2>1. mem[w].tries \in Nat
    BY <1>0, ReplicaTypes, MemUpdate
  <2>b. Backoff(mem[w].tries) \in DigestRow
    BY <1>0, <2>1, BackoffType
  <2>2. delivered' \in Nat
    <3>1. delivered' \in {delivered, delivered + 1}
      BY <1>1, Zenon DEF DigestAct, Digest, ReapDigest, QueueDigest, ScanDigest, ReadDigest, ClaimDigest, Post, DigestClosed,
         ReadDigestFails, PostUnclear, PostRefused, NextDigest, post
    <3> QED
      BY <1>0, <3>1
  <2>3. digest' \in DigestRow
    <3>1. CASE ReapDigest(w) \/ QueueDigest(w)
      BY <1>0, <1>u, <1>s, <3>1 DEF ReapDigest, QueueDigest
    <3>2. CASE ScanDigest(w) \/ ReadDigest(w) \/ Post(w) \/ PostUnclear(w)
      BY <1>0, <3>2, Zenon DEF ScanDigest, ReadDigest, Post, PostUnclear, post
    <3>3. CASE ClaimDigest(w)
      BY <1>0, <1>u, <1>s, <3>3 DEF ClaimDigest
    <3>4. CASE DigestClosed(w)
      <4>1. \E d \in DigestRow : NextDigest(w, "idle", d)
        BY <1>u, <1>s, <3>4 DEF DigestClosed
      <4> QED
        BY <4>1, NextDigestFacts
    <3>5. CASE ReadDigestFails(w) \/ PostRefused(w)
      <4>1. \E d \in DigestRow : NextDigest(w, "idle", d)
        <5>1. [digest EXCEPT !.st = "failed"] \in DigestRow
          BY <1>u, <1>s
        <5>2. CASE ReadDigestFails(w)
          <6>1. PICK f \in {"error", "auth"} :
                  NextDigest(w, "idle",
                    IF ~StillPending(w) THEN digest
                    ELSE IF f = "auth" THEN [digest EXCEPT !.st = "failed"] ELSE Backoff(mem[w].tries))
            BY <5>2 DEF ReadDigestFails
          <6>2. (IF ~StillPending(w) THEN digest
                 ELSE IF f = "auth" THEN [digest EXCEPT !.st = "failed"] ELSE Backoff(mem[w].tries)) \in DigestRow
            BY <1>0, <2>b, <5>1
          <6> QED
            BY <6>1, <6>2
        <5>3. CASE PostRefused(w)
          BY <2>b, <5>1, <5>3 DEF PostRefused
        <5> QED
          BY <3>5, <5>2, <5>3
      <4> QED
        BY <4>1, NextDigestFacts
    <3> QED
      BY <1>1, <3>1, <3>2, <3>3, <3>4, <3>5 DEF DigestAct, Digest
  <2> QED
    BY <2>2, <2>3 DEF TypeDigest
<1>2. ASSUME NEW w \in Replicas, Tick(w) \/ RowAct(w) \/ Crash(w) PROVE TypeDigest'
  BY <1>0, <1>2, TickKeeps, RowActKeeps DEF Crash, post, TypeDigest
<1>3. CASE Time
  <2>1. CASE DigestDue
    BY <1>0, <2>1, DigestUpdate DEF DigestDue, TypeDigest
  <2>2. CASE DigestStale
    BY <1>0, <2>2, DigestUpdate DEF DigestStale, TypeDigest
  <2>3. CASE \E t \in Texts : TextDue(t) \/ TextStale(t)
    BY <1>0, <2>3, Zenon DEF TextDue, TextStale, post, TypeDigest
  <2> QED
    BY <1>3, <2>1, <2>2, <2>3 DEF Time
<1> QED
  BY <1>1, <1>2, <1>3, ActKinds DEF Next, Act

LEMMA TypeReplicasHold ==
  ASSUME TextAssumption, Types, Next
  PROVE  TypeReplicas'
<1>0. TypeRows /\ TypeReplicas
  BY DEF Types
<1>1. ASSUME NEW w \in Replicas, Act(w) PROVE TypeReplicas'
  <2>1. pc' \in [Replicas -> Steps] /\ mem' \in [Replicas -> Mem]
    BY <1>0, <1>1, Goes, GotoFacts
  <2>2. todo \in [Replicas -> SUBSET Texts] /\ stuck \in [Replicas -> SUBSET Mem]
    BY <1>0 DEF TypeReplicas
  <2>3. CASE RowAct(w) \/ DigestAct(w)
    BY <2>1, <2>2, <2>3, RowActKeeps, DigestActKeeps DEF lists, TypeReplicas
  <2>4. CASE Crash(w)
    <3>1. todo' = [todo EXCEPT ![w] = {}] /\ stuck' = [stuck EXCEPT ![w] = {}]
      BY <2>4 DEF Crash
    <3> QED
      BY <2>1, <2>2, <3>1 DEF TypeReplicas
  <2>5. CASE Tick(w)
    <3>1. CASE Reap(w)
      <4>1. todo' = todo
        BY <3>1 DEF Reap
      <4> QED
        BY <1>0, <2>1, <2>2, <3>1, <4>1, ReapStuck DEF TypeReplicas
    <3>2. CASE FinalAlert(w)
      <4>1. todo' = todo /\ \E m \in stuck[w] : stuck' = [stuck EXCEPT ![w] = @ \ {m}]
        BY <3>2 DEF FinalAlert, lists
      <4> QED
        BY <2>1, <2>2, <4>1 DEF TypeReplicas
    <3>3. CASE Scan(w)
      <4>1. stuck' = stuck /\ todo' = [todo EXCEPT ![w] = {t \in Texts : text[t].st = "pending" /\ text[t].due}]
        BY <3>3 DEF Scan, lists
      <4> QED
        BY <2>1, <2>2, <4>1 DEF TypeReplicas
    <3>4. CASE Claim(w) \/ GiveUp(w) \/ Lose(w)
      <4>1. stuck' = stuck /\ \E t \in todo[w] : todo' = [todo EXCEPT ![w] = @ \ {t}]
        BY <3>4, Zenon DEF Claim, GiveUp, Lose, lists
      <4> QED
        BY <2>1, <2>2, <4>1 DEF TypeReplicas
    <3>5. CASE EndScan(w)
      BY <2>1, <2>2, <3>5 DEF EndScan, lists, TypeReplicas
    <3> QED
      BY <2>5, <3>1, <3>2, <3>3, <3>4, <3>5 DEF Tick
  <2> QED
    BY <1>1, <2>3, <2>4, <2>5, ActKinds
<1>2. CASE Time
  BY <1>0, <1>2, Zenon DEF Time, DigestDue, DigestStale, TextDue, TextStale, lists, TypeReplicas
<1> QED
  BY <1>1, <1>2 DEF Next, Act

LEMMA TypesInit ==
  ASSUME TextAssumption, Init
  PROVE  Types
<1>1. NewText \in TextRow /\ NoDigest \in DigestRow
  BY DEF NewText, NoDigest, TextRow, DigestRow, TextStatus, DigestStatus
<1>2. TypeRows /\ TypeCounts /\ TypeDigest
  BY <1>1 DEF Init, TypeRows, TypeCounts, TypeDigest
<1>3. TypeReplicas
  BY NoMemType, StepsNamed DEF Init, TypeReplicas
<1> QED
  BY <1>2, <1>3 DEF Types

LEMMA TypesHold ==
  ASSUME TextAssumption, Types, [Next]_vars
  PROVE  Types'
<1>1. CASE Next
  BY <1>1, TypeRowsHold, TypeCountsHold, TypeDigestHold, TypeReplicasHold DEF Types
<1>2. CASE UNCHANGED vars
  BY <1>2 DEF vars, sent, post, lists, Types, TypeRows, TypeCounts, TypeDigest, TypeReplicas
<1> QED
  BY <1>1, <1>2

\* TextQueue.TypeOK: every text, digest, count, replica and list keeps its type.
THEOREM TypeCorrect == ASSUME TextAssumption PROVE Spec => []TypeOK
<1>1. Init => Types
  BY TypesInit
<1>2. Types /\ [Next]_vars => Types'
  BY TypesHold
<1>3. Types => TypeOK
  BY TypesAreTypeOK
<1> QED
  BY <1>1, <1>2, <1>3, PTL DEF Spec

-----------------------------------------------------------------------------
(* The digest goes out once: a claim is the only way to the post, a row    *)
(* claimed is pending again only when its holder was refused, and a row    *)
(* the reaper gave up is never claimed again.                              *)

InPost == {"post", "digestSent", "digestUnknown"}
PosterInv(w) ==
  /\ pc[w] = "post" => delivered = 0
  /\ pc[w] \in InPost => digest.st \in {"sending", "unknown"}
OnePoster == \A v, w \in Replicas : pc[w] \in InPost /\ pc[v] \in InPost => v = w
DigestInv ==
  /\ delivered \in {0, 1}
  /\ digest.st \in {"none", "pending"} => delivered = 0
  /\ \A w \in Replicas : PosterInv(w)
  /\ OnePoster

\* A step that posts nothing, and leaves its replica with no digest in hand.
LEMMA DigestStays ==
  ASSUME DigestInv, NEW w \in Replicas, NEW s, s \notin InPost,
         \A v \in Replicas : pc'[v] = IF v = w THEN s ELSE pc[v],
         delivered' = delivered, digest' = digest
  PROVE  DigestInv'
<1>1. \A v \in Replicas : PosterInv(v)'
  BY DEF DigestInv, PosterInv, InPost
<1>2. OnePoster'
  BY DEF DigestInv, OnePoster
<1> QED
  BY <1>1, <1>2 DEF DigestInv

LEMMA DigestInvHolds ==
  ASSUME TextAssumption, Types, Types', DigestInv, Next
  PROVE  DigestInv'
<1>0. TypeRows /\ TypeReplicas /\ TypeDigest /\ digest \in DigestRow
  BY DEF Types, TypeDigest
<1>1. ASSUME NEW w \in Replicas, Act(w) PROVE DigestInv'
  <2>0. PICK s \in Steps, m \in Mem : Goto(w, s, m)
    BY <1>1, Goes
  <2>1. \A v \in Replicas : pc'[v] = IF v = w THEN s ELSE pc[v]
    BY <1>0, <2>0, GotoFacts
  <2>t. mem[w].tries \in Nat /\ Backoff(mem[w].tries).st \in {"failed", "pending"}
    BY <1>0, ReplicaTypes, MemUpdate, BackoffType
  <2>b. Backoff(mem[w].tries) \in DigestRow /\ [digest EXCEPT !.st = "failed"] \in DigestRow
    BY <1>0, <2>t, BackoffType, DigestUpdate DEF DigestStatus
  \* w leaves its post, alone in it, and writes the row as it knows it.
  <2>p. ASSUME pc[w] \in InPost, s \notin InPost, delivered' = delivered,
               digest'.st \in {"none", "pending"} => delivered = 0
        PROVE  DigestInv'
    <3>1. \A v \in Replicas : pc'[v] \notin InPost
      BY <2>1, <2>p DEF DigestInv, OnePoster
    <3> QED
      BY <2>p, <3>1 DEF DigestInv, PosterInv, OnePoster, InPost
  \* w has nothing in hand, and the row was free of a holder.
  <2>f. ASSUME s \notin InPost, delivered' = delivered, digest.st \notin {"sending", "unknown"},
               digest'.st \in {"none", "pending"} => digest.st \in {"none", "pending"}
        PROVE  DigestInv'
    <3>1. \A v \in Replicas : pc[v] \notin InPost /\ pc'[v] \notin InPost
      BY <2>1, <2>f DEF DigestInv, PosterInv
    <3> QED
      BY <2>f, <3>1 DEF DigestInv, PosterInv, OnePoster, InPost
  <2>2. CASE Tick(w) \/ RowAct(w) \/ Crash(w)
    <3>1. delivered' = delivered /\ digest' = digest
      BY <2>2, TickKeeps, RowActKeeps DEF Crash, post
    <3>2. s \notin InPost
      <4>1. pc'[w] = s
        BY <2>1
      <4>2. w \in DOMAIN pc
        BY <1>0 DEF TypeReplicas
      <4>3. CASE Tick(w)
        <5>1. pc[w] \in {"idle", "final", "scan"}
          BY <4>3, TickKeeps
        <5>2. pc' = pc \/ pc'[w] \in {"final", "alert", "scan", "match", "reapDigest"}
          BY <4>2, <4>3, Zenon DEF Tick, Reap, FinalAlert, Scan, Claim, GiveUp, Lose, EndScan, Goto
        <5> QED
          BY <4>1, <5>1, <5>2 DEF InPost
      <4>4. CASE RowAct(w)
        <5>1. CASE SkipAlert(w) \/ StampEmail(w)
          <6>1. pc'[w] \in {"close", "final", "scan"}
            BY <1>0, <4>2, <5>1, AfterAlertGoes DEF SkipAlert, StampEmail, Goto
          <6> QED
            BY <4>1, <6>1 DEF InPost
        <5>2. CASE CreateRefused(w) \/ CreateUnanswered(w)
          <6>1. \E p \in BOOLEAN : GiveUpTask(w, p)
            BY <5>2 DEF CreateRefused, CreateUnanswered
          <6>2. pc'[w] \in {"catch", "alert", "close"}
            BY <1>0, <4>2, <6>1, GiveUpTaskGoes DEF Goto
          <6> QED
            BY <4>1, <6>2 DEF InPost
        <5>3. CASE EmailUnanswered(w) \/ EmailRefused(w)
          <6>1. \E a \in BOOLEAN : AlertFailed(w, a)
            BY <5>3 DEF EmailUnanswered, EmailRefused
          <6>2. pc'[w] \in {"catch", "final", "scan"}
            BY <1>0, <4>2, <6>1, AlertFailedGoes DEF Goto
          <6> QED
            BY <4>1, <6>2 DEF InPost
        <5>4. CASE Match(w) \/ StampTask(w)
          <6>1. AfterTask(mem[w]) \in {"alert", "close"}
            BY DEF AfterTask
          <6>2. pc'[w] \in {"create", "alert", "close"}
            BY <4>2, <5>4, <6>1 DEF Match, StampTask, Goto
          <6> QED
            BY <4>1, <6>2 DEF InPost
        <5>5. CASE Create(w) \/ ToEmail(w) \/ Email(w) \/ Close(w) \/ Catch(w) \/ RequestFails(w)
          <6>1. pc'[w] \in {"stampTask", "email", "stampEmail", "scan", "catch"}
            BY <4>2, <5>5, Zenon DEF Create, ToEmail, Email, Close, Catch, RequestFails, Goto
          <6> QED
            BY <4>1, <6>1 DEF InPost
        <5> QED
          BY <4>4, <5>1, <5>2, <5>3, <5>4, <5>5 DEF RowAct, Process
      <4>5. CASE Crash(w)
        <5>1. pc'[w] = "idle"
          BY <4>2, <4>5 DEF Crash, Goto
        <5> QED
          BY <4>1, <5>1 DEF InPost
      <4> QED
        BY <2>2, <4>3, <4>4, <4>5
    <3> QED
      BY <2>1, <3>1, <3>2, DigestStays
  <2>3. CASE DigestAct(w)
    <3>0. pc'[w] = s /\ w \in DOMAIN pc /\ pc[w] \in DigestSteps
      BY <2>1, <2>3, DigestActKeeps, <1>0 DEF TypeReplicas
    <3>1. CASE ReapDigest(w)
      <4>1. s = "queue" /\ delivered' = delivered
        BY <3>0, <3>1 DEF ReapDigest, Goto
      <4>2. CASE digest.st = "sending" /\ digest.old
        <5>1. digest'.st = "unknown"
          BY <1>0, <3>1, <4>2 DEF ReapDigest, DigestRow
        <5>2. \A v \in Replicas : PosterInv(v)' /\ (pc'[v] \in InPost => pc[v] \in InPost)
          BY <2>1, <4>1, <5>1 DEF DigestInv, PosterInv, InPost
        <5> QED
          BY <4>1, <5>1, <5>2 DEF DigestInv, OnePoster
      <4>3. CASE ~(digest.st = "sending" /\ digest.old)
        <5>1. digest' = digest /\ s \notin InPost
          BY <3>1, <4>1, <4>3 DEF ReapDigest, InPost
        <5> QED
          BY <2>1, <4>1, <5>1, DigestStays
      <4> QED
        BY <4>2, <4>3
    <3>2. CASE QueueDigest(w)
      <4>1. s \notin InPost /\ delivered' = delivered
        BY <3>0, <3>2 DEF QueueDigest, Goto, InPost
      <4>2. CASE digest.st = "none" /\ BatchReady
        BY <2>f, <4>1, <4>2
      <4>3. CASE ~(digest.st = "none" /\ BatchReady)
        <5>1. digest' = digest
          BY <3>2, <4>3 DEF QueueDigest
        <5> QED
          BY <2>1, <4>1, <5>1, DigestStays
      <4> QED
        BY <4>2, <4>3
    <3>3. CASE ScanDigest(w) \/ ReadDigest(w)
      <4>1. s \notin InPost /\ delivered' = delivered /\ digest' = digest
        BY <3>0, <3>3 DEF ScanDigest, ReadDigest, Goto, InPost, post
      <4> QED
        BY <2>1, <4>1, DigestStays
    <3>4. CASE ClaimDigest(w)
      <4>1. delivered' = delivered
        BY <3>4 DEF ClaimDigest
      <4>2. CASE digest.st = "pending" /\ digest.due
        <5>1. s = "post" /\ digest'.st = "sending"
          BY <1>0, <3>0, <3>4, <4>2 DEF ClaimDigest, Goto, DigestRow
        <5>2. \A v \in Replicas : pc'[v] \in InPost => v = w
          BY <2>1, <4>2 DEF DigestInv, PosterInv
        <5>3. delivered = 0
          BY <4>2 DEF DigestInv
        <5> QED
          BY <4>1, <5>1, <5>2, <5>3, <2>1 DEF DigestInv, PosterInv, OnePoster, InPost
      <4>3. CASE ~(digest.st = "pending" /\ digest.due)
        <5>1. digest' = digest /\ s = "idle"
          BY <3>0, <3>4, <4>3 DEF ClaimDigest, Goto
        <5> QED
          BY <2>1, <4>1, <5>1, DigestStays DEF InPost
      <4> QED
        BY <4>2, <4>3
    <3>5. CASE Post(w) \/ PostUnclear(w)
      <4>1. pc[w] = "post" /\ digest' = digest /\ s \in {"digestSent", "digestUnknown"} /\ delivered' \in {delivered, delivered + 1}
        BY <3>0, <3>5 DEF Post, PostUnclear, Goto, At
      <4>2. delivered = 0 /\ digest.st \in {"sending", "unknown"}
        BY <4>1 DEF DigestInv, PosterInv, InPost
      <4>3. \A v \in Replicas : pc'[v] \in InPost => v = w
        BY <2>1, <4>1 DEF DigestInv, OnePoster, InPost
      <4>4. \A v \in Replicas : PosterInv(v)'
        BY <2>1, <4>1, <4>2, <4>3 DEF PosterInv, InPost
      <4> QED
        BY <4>1, <4>2, <4>3, <4>4 DEF DigestInv, OnePoster
    <3>6. CASE DigestClosed(w)
      <4>1. pc[w] \in InPost /\ delivered' = delivered /\ s = "idle"
        BY <3>0, <3>6 DEF DigestClosed, NextDigest, Goto, At, InPost
      <4>2. digest'.st \in {"sent", "unknown"}
        BY <1>0, <3>6 DEF DigestClosed, NextDigest, DigestRow
      <4> QED
        BY <2>p, <4>1, <4>2 DEF InPost
    <3>7. CASE ReadDigestFails(w)
      <4>1. PICK f \in {"error", "auth"} :
              NextDigest(w, "idle",
                IF ~StillPending(w) THEN digest
                ELSE IF f = "auth" THEN [digest EXCEPT !.st = "failed"] ELSE Backoff(mem[w].tries))
        BY <3>7 DEF ReadDigestFails
      <4>2. s = "idle" /\ delivered' = delivered
        BY <3>0, <3>7 DEF ReadDigestFails, NextDigest, Goto
      <4>3. CASE StillPending(w)
        BY <2>f, <4>2, <4>3 DEF StillPending, InPost
      <4>4. CASE ~StillPending(w)
        <5>1. digest'.st = digest.st
          BY <1>0, <4>1, <4>4, NextDigestFacts
        <5> QED
          BY <2>1, <4>2, <5>1 DEF DigestInv, PosterInv, OnePoster, InPost
      <4> QED
        BY <4>3, <4>4
    <3>8. CASE PostRefused(w)
      <4>1. pc[w] = "post" /\ s = "idle" /\ delivered' = delivered
        BY <3>0, <3>8 DEF PostRefused, NextDigest, Goto, At
      <4>2. delivered = 0
        BY <4>1 DEF DigestInv, PosterInv
      <4> QED
        BY <2>p, <4>1, <4>2 DEF InPost
    <3> QED
      BY <2>3, <3>1, <3>2, <3>3, <3>4, <3>5, <3>6, <3>7, <3>8 DEF DigestAct, Digest
  <2> QED
    BY <1>1, <2>2, <2>3, ActKinds
<1>2. CASE Time
  <2>1. pc' = pc /\ delivered' = delivered /\ digest'.st = digest.st
    <3>1. CASE DigestDue \/ DigestStale
      BY <1>0, <3>1 DEF DigestDue, DigestStale, DigestRow
    <3>2. CASE \E t \in Texts : TextDue(t) \/ TextStale(t)
      BY <3>2, Zenon DEF TextDue, TextStale, post
    <3> QED
      BY <1>2, <3>1, <3>2 DEF Time
  <2> QED
    BY <2>1 DEF DigestInv, PosterInv, OnePoster
<1> QED
  BY <1>1, <1>2 DEF Next, Act

LEMMA DigestInvInit ==
  ASSUME Init
  PROVE  DigestInv
BY DEF Init, DigestInv, PosterInv, OnePoster, NoDigest, InPost

LEMMA DigestInvStep ==
  ASSUME TextAssumption, Types, Types', DigestInv, [Next]_vars
  PROVE  DigestInv'
<1>1. CASE UNCHANGED vars
  BY <1>1 DEF vars, post, DigestInv, PosterInv, OnePoster
<1> QED
  BY <1>1, DigestInvHolds

\* TextQueue.DigestOnce, the run's DigestOnce for every number of replicas and
\* texts: the digest email goes out at most once, whatever times out, dies,
\* overlaps or is given up too early.
THEOREM DigestOnceHolds == ASSUME TextAssumption PROVE Spec => []DigestOnce
<1>1. TextAssumption /\ Types /\ Types' /\ DigestInv /\ [Next]_vars => DigestInv'
  BY DigestInvStep
<1>2. DigestInv => DigestOnce
  BY DEF DigestInv, DigestOnce
<1> QED
  BY <1>1, <1>2, DigestInvInit, TypesInit, TypesHold, PTL DEF Spec

-----------------------------------------------------------------------------
(* A create is paid for by the claim before it: the creates issued and     *)
(* those on their way never exceed the claims the row has counted.         *)

ToCreate(t) == {w \in Replicas : pc[w] \in {"match", "create"} /\ mem[w].row = t}
Paid(t) ==
  /\ IsFiniteSet(ToCreate(t))
  /\ tried[t] + Cardinality(ToCreate(t)) <= MaxTries
  /\ tried[t] + Cardinality(ToCreate(t)) <= text[t].tries
CapInv == \A t \in Texts : Paid(t)

LEMMA NaturalSize ==
  ASSUME Types, NEW t \in Texts, IsFiniteSet(ToCreate(t))
  PROVE  tried[t] \in Nat /\ text[t].tries \in Nat /\ Cardinality(ToCreate(t)) \in Nat
BY FS_CardinalityType DEF Types, TypeRows, TypeCounts, TextRow

\* A step that sets nobody on the way to a create, and issues none.
LEMMA PaidStays ==
  ASSUME TextAssumption, Types, NEW t \in Texts, Paid(t), ToCreate(t)' \subseteq ToCreate(t),
         tried'[t] = tried[t], text'[t].tries = text[t].tries
  PROVE  Paid(t)'
<1>1. /\ IsFiniteSet(ToCreate(t)') /\ Cardinality(ToCreate(t)') <= Cardinality(ToCreate(t))
      /\ Cardinality(ToCreate(t)') \in Nat
  BY FS_Subset, FS_CardinalityType DEF Paid
<1>2. tried[t] \in Nat /\ text[t].tries \in Nat /\ Cardinality(ToCreate(t)) \in Nat /\ MaxTries \in Nat
  BY NaturalSize DEF Paid, TextAssumption
<1>3. /\ tried[t] + Cardinality(ToCreate(t)) <= MaxTries
      /\ tried[t] + Cardinality(ToCreate(t)) <= text[t].tries
  BY DEF Paid
<1>4. tried'[t] + Cardinality(ToCreate(t)') <= MaxTries /\ tried'[t] + Cardinality(ToCreate(t)') <= text'[t].tries
  BY <1>1, <1>2, <1>3
<1> QED
  BY <1>1, <1>4 DEF Paid

\* A create is issued: one tried more, one on the way less.
LEMMA PaidSpends ==
  ASSUME TextAssumption, Types, NEW w \in Replicas, NEW t \in Texts, Paid(t), w \in ToCreate(t),
         ToCreate(t)' \subseteq ToCreate(t) \ {w},
         tried'[t] = tried[t] + 1, text'[t].tries = text[t].tries
  PROVE  Paid(t)'
<1>1. /\ IsFiniteSet(ToCreate(t) \ {w}) /\ Cardinality(ToCreate(t) \ {w}) = Cardinality(ToCreate(t)) - 1
  BY FS_RemoveElement DEF Paid
<1>2. /\ IsFiniteSet(ToCreate(t)') /\ Cardinality(ToCreate(t)') <= Cardinality(ToCreate(t) \ {w})
      /\ Cardinality(ToCreate(t)') \in Nat
  BY <1>1, FS_Subset, FS_CardinalityType
<1>3. tried[t] \in Nat /\ text[t].tries \in Nat /\ Cardinality(ToCreate(t)) \in Nat /\ MaxTries \in Nat
  BY NaturalSize DEF Paid, TextAssumption
<1>4. /\ tried[t] + Cardinality(ToCreate(t)) <= MaxTries
      /\ tried[t] + Cardinality(ToCreate(t)) <= text[t].tries
  BY DEF Paid
<1>5. tried'[t] + Cardinality(ToCreate(t)') <= MaxTries /\ tried'[t] + Cardinality(ToCreate(t)') <= text'[t].tries
  BY <1>1, <1>2, <1>3, <1>4
<1> QED
  BY <1>2, <1>5 DEF Paid

\* A claim counts the try before the replica sets out.
LEMMA PaidClaims ==
  ASSUME TextAssumption, Types, NEW w \in Replicas, NEW t \in Texts, Paid(t), text[t].tries < MaxTries,
         ToCreate(t)' \subseteq ToCreate(t) \cup {w},
         tried'[t] = tried[t], text'[t].tries = text[t].tries + 1
  PROVE  Paid(t)'
<1>1. /\ IsFiniteSet(ToCreate(t) \cup {w}) /\ Cardinality(ToCreate(t) \cup {w}) \in Nat
      /\ Cardinality(ToCreate(t) \cup {w}) <= Cardinality(ToCreate(t)) + 1
  <2>1. IsFiniteSet(ToCreate(t)) /\ Cardinality(ToCreate(t)) \in Nat
    BY FS_CardinalityType DEF Paid
  <2>2. /\ IsFiniteSet(ToCreate(t) \cup {w})
        /\ Cardinality(ToCreate(t) \cup {w}) = IF w \in ToCreate(t) THEN Cardinality(ToCreate(t)) ELSE Cardinality(ToCreate(t)) + 1
    BY <2>1, FS_AddElement, Zenon
  <2> QED
    BY <2>1, <2>2
<1>2. /\ IsFiniteSet(ToCreate(t)') /\ Cardinality(ToCreate(t)') <= Cardinality(ToCreate(t) \cup {w})
      /\ Cardinality(ToCreate(t)') \in Nat
  BY <1>1, FS_Subset, FS_CardinalityType
<1>3. tried[t] \in Nat /\ text[t].tries \in Nat /\ Cardinality(ToCreate(t)) \in Nat /\ MaxTries \in Nat
  BY NaturalSize DEF Paid, TextAssumption
<1>4. tried[t] + Cardinality(ToCreate(t)) <= text[t].tries
  BY DEF Paid
<1>5. tried'[t] + Cardinality(ToCreate(t)') <= MaxTries /\ tried'[t] + Cardinality(ToCreate(t)') <= text'[t].tries
  BY <1>1, <1>2, <1>3, <1>4
<1> QED
  BY <1>2, <1>5 DEF Paid

\* The tries of a row change with a claim and never otherwise.
LEMMA TriesKept ==
  ASSUME Types, NEW w \in Replicas, RowAct(w)
  PROVE  \A t \in Texts : text'[t].tries = text[t].tries
<1>0. TypeRows /\ TypeReplicas /\ mem[w].row \in Texts /\ Row(w) \in TextRow /\ Row(w) = text[mem[w].row]
  BY ReplicaTypes DEF Types, Row
<1>1. CASE StampTask(w) \/ SkipAlert(w) \/ StampEmail(w) \/ Close(w) \/ Catch(w)
  <2>1. PICK r \in TextRow : Patch(mem[w].row, r) /\ r.tries = Row(w).tries
    <3>1. \A s \in TextStatus : /\ [Row(w) EXCEPT !.st = s] \in TextRow /\ [Row(w) EXCEPT !.st = s].tries = Row(w).tries
                                /\ [Row(w) EXCEPT !.st = s, !.due = FALSE] \in TextRow
                                /\ [Row(w) EXCEPT !.st = s, !.due = FALSE].tries = Row(w).tries
      <4> TAKE s \in TextStatus
      <4>1. [Row(w) EXCEPT !.st = s] \in TextRow /\ [Row(w) EXCEPT !.st = s, !.due = FALSE] \in TextRow
        BY <1>0, RowUpdate
      <4>2. [Row(w) EXCEPT !.st = s].tries = Row(w).tries /\ [Row(w) EXCEPT !.st = s, !.due = FALSE].tries = Row(w).tries
        BY <1>0 DEF TextRow
      <4> QED
        BY <4>1, <4>2
    <3>2. /\ [Row(w) EXCEPT !.task = TRUE] \in TextRow /\ [Row(w) EXCEPT !.task = TRUE].tries = Row(w).tries
          /\ \A a \in {"emailed", "skipped"} : [Row(w) EXCEPT !.alert = a] \in TextRow /\ [Row(w) EXCEPT !.alert = a].tries = Row(w).tries
      <4>1. [Row(w) EXCEPT !.task = TRUE] \in TextRow
        BY <1>0, RowUpdate
      <4>2. \A a \in {"emailed", "skipped"} : [Row(w) EXCEPT !.alert = a] \in TextRow
        BY <1>0, RowUpdate
      <4>3. /\ [Row(w) EXCEPT !.task = TRUE].tries = Row(w).tries
            /\ \A a \in {"emailed", "skipped"} : [Row(w) EXCEPT !.alert = a].tries = Row(w).tries
        BY <1>0 DEF TextRow
      <4> QED
        BY <4>1, <4>2, <4>3
    <3>3. (IF mem[w].lost THEN "failed" ELSE "done") \in TextStatus /\ "failed" \in TextStatus /\ "pending" \in TextStatus
      BY DEF TextStatus
    <3>4. CASE StampTask(w) \/ SkipAlert(w) \/ StampEmail(w)
      BY <3>2, <3>4 DEF StampTask, SkipAlert, StampEmail
    <3>5. CASE Close(w)
      BY <3>1, <3>3, <3>5 DEF Close
    <3>6. CASE Catch(w)
      BY <3>1, <3>3, <3>6 DEF Catch
    <3> QED
      BY <1>1, <3>4, <3>5, <3>6
  <2> QED
    BY <1>0, <2>1, PatchFacts
<1>2. CASE \/ Match(w) \/ Create(w) \/ ToEmail(w) \/ Email(w) \/ CreateRefused(w) \/ CreateUnanswered(w)
           \/ EmailUnanswered(w) \/ EmailRefused(w) \/ RequestFails(w)
  <2>1. text' = text
    BY <1>2, Zenon DEF Match, Create, ToEmail, Email, CreateRefused, CreateUnanswered, EmailUnanswered,
       EmailRefused, RequestFails
  <2> QED
    BY <2>1
<1> QED
  BY <1>1, <1>2 DEF RowAct, Process

\* Only a claim sends a replica towards a create, and a row step goes on with its row.
LEMMA CreateAhead ==
  ASSUME TextAssumption, Types, NEW w \in Replicas, Act(w), ~Claim(w), pc'[w] \in {"match", "create"}
  PROVE  pc[w] \in {"match", "create"} /\ mem'[w] = mem[w] /\ tried' = tried
<1>0. TypeRows /\ TypeReplicas /\ w \in DOMAIN pc /\ w \in DOMAIN mem
  BY DEF Types, TypeReplicas
<1>a. AfterTask(mem[w]) \in {"alert", "close"}
  BY DEF AfterTask
<1>1. CASE Match(w)
  BY <1>0, <1>1 DEF Match, Goto, At, sent
<1>2. CASE Lose(w)
  BY <1>2 DEF Lose, At
<1>3. CASE SkipAlert(w) \/ StampEmail(w)
  <2>1. pc'[w] \in {"close", "final", "scan"}
    BY <1>0, <1>3, AfterAlertGoes DEF SkipAlert, StampEmail, Goto
  <2> QED
    BY <2>1
<1>4. CASE CreateRefused(w) \/ CreateUnanswered(w)
  <2>1. \E p \in BOOLEAN : GiveUpTask(w, p)
    BY <1>4 DEF CreateRefused, CreateUnanswered
  <2>2. pc'[w] \in {"catch", "alert", "close"}
    BY <1>0, <2>1, GiveUpTaskGoes DEF Goto
  <2> QED
    BY <2>2
<1>5. CASE EmailUnanswered(w) \/ EmailRefused(w)
  <2>1. \E a \in BOOLEAN : AlertFailed(w, a)
    BY <1>5 DEF EmailUnanswered, EmailRefused
  <2>2. pc'[w] \in {"catch", "final", "scan"}
    BY <1>0, <2>1, AlertFailedGoes DEF Goto
  <2> QED
    BY <2>2
<1>6. CASE StampTask(w)
  BY <1>0, <1>a, <1>6 DEF StampTask, Goto
<1>7. CASE Reap(w) \/ FinalAlert(w) \/ Scan(w) \/ GiveUp(w) \/ EndScan(w)
  BY <1>0, <1>7, Zenon DEF Reap, FinalAlert, Scan, GiveUp, EndScan, Goto
<1>8. CASE Create(w) \/ ToEmail(w) \/ Email(w) \/ Close(w) \/ Catch(w) \/ RequestFails(w) \/ Crash(w)
  BY <1>0, <1>8, Zenon DEF Create, ToEmail, Email, Close, Catch, RequestFails, Crash, Goto
<1>9. CASE DigestAct(w)
  BY <1>0, <1>9, Zenon DEF DigestAct, Digest, ReapDigest, QueueDigest, ScanDigest, ReadDigest, ClaimDigest, Post,
     DigestClosed, ReadDigestFails, PostUnclear, PostRefused, NextDigest, Goto
<1> QED
  BY <1>1, <1>2, <1>3, <1>4, <1>5, <1>6, <1>7, <1>8, <1>9, ActKinds DEF RowAct, Process, Tick

LEMMA CapInvHolds ==
  ASSUME TextAssumption, Types, Types', CapInv, [Next]_vars
  PROVE  CapInv'
<1>0. TypeRows /\ TypeReplicas /\ TypeCounts
  BY DEF Types
<1>1. ASSUME NEW w \in Replicas, Act(w), NEW t \in Texts PROVE Paid(t)'
  <2>0. PICK s \in Steps, m \in Mem : Goto(w, s, m)
    BY <1>1, Goes
  <2>1. \A v \in Replicas : /\ pc'[v] = IF v = w THEN s ELSE pc[v]
                            /\ mem'[v] = IF v = w THEN m ELSE mem[v]
    BY <1>0, <2>0, GotoFacts
  <2>p. Paid(t)
    BY DEF CapInv
  <2>2. CASE Claim(w)
    <3>1. PICK u \in todo[w] : /\ Claimable(u) /\ text[u].tries < MaxTries
                               /\ Patch(u, Claimed(u))
                               /\ Goto(w, "match", [Memory(u) EXCEPT !.tries = @ + 1])
      BY <2>2 DEF Claim
    <3>2. u \in Texts
      BY <1>0, ReplicaTypes
    <3>3. tried' = tried
      BY <2>2, Zenon DEF Claim, sent
    <3>4. /\ \A x \in Texts : x # u => text'[x] = text[x]
          /\ text'[u].tries = text[u].tries + 1
      BY <1>0, <3>1, <3>2, ClaimedType, PatchFacts
    <3>5. mem'[w].row = u
      <4>1. Memory(u) \in Mem /\ Memory(u).row = u
        BY <1>0, <3>2, MemoryType
      <4> QED
        BY <1>0, <3>1, <4>1 DEF Goto, TypeReplicas, Mem
    <3>6. CASE t = u
      <4>1. ToCreate(t)' \subseteq ToCreate(t) \cup {w}
        BY <2>1 DEF ToCreate
      <4> QED
        BY <2>p, <3>1, <3>3, <3>4, <3>6, <4>1, PaidClaims
    <3>7. CASE t # u
      <4>1. ToCreate(t)' \subseteq ToCreate(t)
        BY <2>1, <3>5, <3>7 DEF ToCreate
      <4> QED
        BY <2>p, <3>3, <3>4, <3>7, <4>1, PaidStays
    <3> QED
      BY <3>6, <3>7
  <2>3. CASE ~Claim(w)
    <3>1. ToCreate(t)' \subseteq ToCreate(t)
      BY <1>1, <2>1, <2>3, CreateAhead DEF ToCreate
    <3>2. CASE Create(w) \/ CreateRefused(w) \/ CreateUnanswered(w)
      <4>1. pc[w] = "create" /\ Plus(tried, mem[w].row) /\ text' = text
        BY <3>2, Zenon DEF Create, CreateRefused, CreateUnanswered, At
      <4>2. mem[w].row \in Texts /\ \A u \in Texts : tried'[u] = IF u = mem[w].row THEN tried[u] + 1 ELSE tried[u]
        BY <1>0, <4>1, ReplicaTypes, PlusFacts DEF Plus, TypeCounts
      <4>3. tried' # tried
        <5>1. tried[mem[w].row] \in Nat
          BY <1>0, <4>2 DEF TypeCounts
        <5> QED
          BY <4>2, <5>1
      <4>4. pc'[w] \notin {"match", "create"}
        BY <1>1, <2>3, <4>3, CreateAhead
      <4>5. CASE mem[w].row = t
        <5>1. w \in ToCreate(t) /\ ToCreate(t)' \subseteq ToCreate(t) \ {w}
          BY <3>1, <4>1, <4>4, <4>5 DEF ToCreate
        <5> QED
          BY <2>p, <4>1, <4>2, <4>5, <5>1, PaidSpends
      <4>6. CASE mem[w].row # t
        BY <2>p, <3>1, <4>1, <4>2, <4>6, PaidStays
      <4> QED
        BY <4>5, <4>6
    <3>3. CASE ~(Create(w) \/ CreateRefused(w) \/ CreateUnanswered(w))
      <4>1. tried' = tried
        <5>1. CASE Tick(w) \/ DigestAct(w) \/ Crash(w)
          BY <5>1, TickKeeps, DigestActKeeps DEF Crash, sent
        <5>2. CASE RowAct(w)
          BY <3>3, <5>2, Zenon DEF RowAct, Process, Match, StampTask, SkipAlert, ToEmail, Email, StampEmail,
             Close, Catch, EmailUnanswered, EmailRefused, RequestFails, sent
        <5> QED
          BY <1>1, <5>1, <5>2, ActKinds
      <4>2. CASE GiveUp(w)
        <5>1. PICK u \in todo[w] : Patch(u, [Claimed(u) EXCEPT !.st = "failed"])
          BY <4>2 DEF GiveUp
        <5>2. u \in Texts
          BY <1>0, ReplicaTypes
        <5>3. /\ [Claimed(u) EXCEPT !.st = "failed"].tries = text[u].tries + 1
          BY <1>0, <5>2, ClaimedType DEF TextRow
        <5>4. /\ \A x \in Texts : x # u => text'[x] = text[x]
              /\ text'[u].tries = text[u].tries + 1
          BY <1>0, <5>1, <5>2, <5>3, ClaimedType, PatchFacts
        <5>5. IsFiniteSet(ToCreate(t)') /\ Cardinality(ToCreate(t)') \in Nat /\ Cardinality(ToCreate(t)') <= Cardinality(ToCreate(t))
          BY <2>p, <3>1, FS_Subset, FS_CardinalityType DEF Paid
        <5>6. tried[t] \in Nat /\ text[t].tries \in Nat /\ Cardinality(ToCreate(t)) \in Nat /\ MaxTries \in Nat
          BY <2>p, NaturalSize DEF Paid, TextAssumption
        <5>7. text'[t].tries \in {text[t].tries, text[t].tries + 1} /\ tried'[t] = tried[t]
          BY <4>1, <5>4
        <5>8. /\ tried[t] + Cardinality(ToCreate(t)) <= MaxTries
              /\ tried[t] + Cardinality(ToCreate(t)) <= text[t].tries
          BY <2>p DEF Paid
        <5>9. /\ tried'[t] + Cardinality(ToCreate(t)') <= MaxTries
              /\ tried'[t] + Cardinality(ToCreate(t)') <= text'[t].tries
          BY <5>5, <5>6, <5>7, <5>8
        <5> QED
          BY <5>5, <5>9 DEF Paid
      <4>3. CASE ~GiveUp(w)
        <5>1. text'[t].tries = text[t].tries
          <6>1. CASE Reap(w)
            BY <1>0, <6>1, ReapFacts
          <6>2. CASE FinalAlert(w) \/ Scan(w) \/ Lose(w) \/ EndScan(w)
            <7>1. text' = text
              BY <6>2, Zenon DEF FinalAlert, Scan, Lose, EndScan
            <7> QED
              BY <7>1
          <6>3. CASE RowAct(w)
            BY <6>3, TriesKept
          <6>4. CASE DigestAct(w) \/ Crash(w)
            <7>1. text' = text
              BY <6>4, DigestActKeeps DEF Crash
            <7> QED
              BY <7>1
          <6> QED
            BY <1>1, <2>3, <4>3, <6>1, <6>2, <6>3, <6>4, ActKinds DEF Tick
        <5> QED
          BY <2>p, <3>1, <4>1, <5>1, PaidStays
      <4> QED
        BY <4>2, <4>3
    <3> QED
      BY <3>2, <3>3
  <2> QED
    BY <2>2, <2>3
<1>2. ASSUME Time \/ UNCHANGED vars, NEW t \in Texts PROVE Paid(t)'
  <2>1. pc' = pc /\ mem' = mem /\ tried' = tried
    BY <1>2, Zenon DEF Time, DigestDue, DigestStale, TextDue, TextStale, vars, sent
  <2>2. text'[t].tries = text[t].tries
    <3>1. CASE DigestDue \/ DigestStale \/ UNCHANGED vars
      <4>1. text' = text
        BY <3>1, Zenon DEF DigestDue, DigestStale, vars
      <4> QED
        BY <4>1
    <3>2. ASSUME NEW u \in Texts, TextDue(u) \/ TextStale(u) PROVE text'[t].tries = text[t].tries
      <4>1. text' = [text EXCEPT ![u].due = TRUE] \/ text' = [text EXCEPT ![u].old = TRUE]
        BY <3>2, Zenon DEF TextDue, TextStale
      <4> QED
        BY <1>0, <4>1 DEF TypeRows, TextRow
    <3> QED
      BY <1>2, <3>1, <3>2 DEF Time
  <2>3. ToCreate(t)' = ToCreate(t)
    BY <2>1 DEF ToCreate
  <2> QED
    BY <2>1, <2>2, <2>3, PaidStays DEF CapInv
<1> QED
  BY <1>1, <1>2 DEF Next, Act, CapInv

\* TextQueue.TriesCapped, the first half of the run's TextToldOnce: a text costs
\* Salesforce MAX_TRIES creates and no more, though it crashes, hangs or outlives
\* its worker every time.
THEOREM TriesCappedHolds == ASSUME TextAssumption PROVE Spec => []TriesCapped
<1>1. ASSUME Init, TextAssumption PROVE CapInv
  <2> SUFFICES ASSUME NEW t \in Texts PROVE Paid(t)
    BY DEF CapInv
  <2>1. ToCreate(t) = {}
    BY <1>1 DEF Init, ToCreate
  <2>2. IsFiniteSet({}) /\ Cardinality({}) = 0
    BY FS_EmptySet
  <2>3. tried[t] = 0 /\ text[t].tries = 0 /\ MaxTries \in Nat
    BY <1>1 DEF Init, NewText, TextAssumption
  <2> QED
    BY <2>1, <2>2, <2>3 DEF Paid
<1>2. TextAssumption /\ Types /\ Types' /\ CapInv /\ [Next]_vars => CapInv'
  BY CapInvHolds
<1>3. ASSUME Types, CapInv, TextAssumption PROVE TriesCapped
  <2> SUFFICES ASSUME NEW t \in Texts PROVE tried[t] <= MaxTries
    BY DEF TriesCapped
  <2>1. Paid(t) /\ tried[t] \in Nat /\ Cardinality(ToCreate(t)) \in Nat /\ MaxTries \in Nat
    BY <1>3, NaturalSize DEF CapInv, Paid, TextAssumption
  <2>2. tried[t] + Cardinality(ToCreate(t)) <= MaxTries
    BY <2>1 DEF Paid
  <2> QED
    BY <2>1, <2>2
<1> QED
  BY <1>1, <1>2, <1>3, TypesInit, TypesHold, PTL DEF Spec

-----------------------------------------------------------------------------
(* What a step on a text does to that text, and to no other.               *)

Q(w) == mem[w].row
Elsewhere(q) ==
  \A u \in Texts : u # q => /\ text'[u] = text[u] /\ made'[u] = made[u]
                            /\ mails'[u] = mails[u] /\ unheard'[u] = unheard[u]
\* The replica goes to s with m, the text q reads st, task and alert, and this
\* many Tasks, emails and losses are added.
Move(w, q, s, m, st, task, alert, dm, dl, du) ==
  /\ pc'[w] = s /\ mem'[w] = m
  /\ text'[q].st = st /\ text'[q].task = task /\ text'[q].alert = alert /\ (text'[q].old => text[q].old)
  /\ made'[q] = made[q] + dm /\ mails'[q] = mails[q] + dl /\ unheard'[q] = unheard[q] + du
Still(w, q, s, m, dm, dl, du) == Move(w, q, s, m, text[q].st, text[q].task, text[q].alert, dm, dl, du)
Follows(w, m) == m.row = mem[w].row /\ m.task = mem[w].task /\ m.owes = mem[w].owes /\ m.back = mem[w].back

Tried(w, q) ==
  \/ pc[w] = "match" /\ Still(w, q, IF mem[w].task THEN AfterTask(mem[w]) ELSE "create", mem[w], 0, 0, 0)
  \/ pc[w] = "create" /\ Still(w, q, "stampTask", mem[w], 1, 0, 0)
  \/ /\ pc[w] = "create"
     /\ \E n \in {0, 1}, s \in {"catch", "alert", "close"}, m \in Mem :
          /\ Follows(w, m) /\ (s # "catch" => m.lost /\ (s = "alert" <=> mem[w].owes))
          /\ Still(w, q, s, m, n, 0, n)
  \/ pc[w] = "stampTask" /\ \E m \in Mem :
       /\ m.row = mem[w].row /\ m.task /\ m.owes = mem[w].owes /\ m.back = mem[w].back
       /\ Move(w, q, AfterTask(mem[w]), m, text[q].st, TRUE, text[q].alert, 0, 0, 0)
  \/ pc[w] \in {"match", "create"} /\ \E m \in Mem : Follows(w, m) /\ Still(w, q, "catch", m, 0, 0, 0)
Alerted(w, q) ==
  \/ /\ pc[w] = "alert" /\ mem[w].task
     /\ \E m \in Mem : /\ mem[w].back = "close" => m = mem[w]
                       /\ Move(w, q, mem[w].back, m, text[q].st, text[q].task, "skipped", 0, 0, 0)
  \/ pc[w] = "alert" /\ Still(w, q, "email", mem[w], 0, 0, 0)
  \/ pc[w] = "email" /\ Still(w, q, "stampEmail", mem[w], 0, 1, 0)
  \/ /\ pc[w] = "email"
     /\ \E n \in {0, 1}, s \in {"catch", "final", "scan"}, m \in Mem :
          /\ s = "catch" => Follows(w, m) /\ m.back = "close"
          /\ Still(w, q, s, m, 0, n, n)
  \/ /\ pc[w] = "stampEmail"
     /\ \E m \in Mem : /\ mem[w].back = "close" => m = mem[w]
                       /\ Move(w, q, mem[w].back, m, text[q].st, text[q].task, "emailed", 0, 0, 0)
Ended(w, q) ==
  \/ /\ pc[w] = "close"
     /\ Move(w, q, "scan", NoMem, IF mem[w].lost THEN "failed" ELSE "done", text[q].task, text[q].alert, 0, 0, 0)
  \/ pc[w] = "catch" /\ \E st \in {"failed", "pending"} :
       Move(w, q, "scan", NoMem, st, text[q].task, text[q].alert, 0, 0, 0)

LEMMA Here ==
  ASSUME TextAssumption, Types, NEW w \in Replicas
  PROVE  /\ TypeRows /\ TypeReplicas /\ TypeCounts
         /\ w \in DOMAIN pc /\ w \in DOMAIN mem /\ mem[w] \in Mem /\ NoMem \in Mem
         /\ mem[w].row \in Texts /\ text[mem[w].row] \in TextRow /\ Row(w) = text[mem[w].row]
         /\ made[mem[w].row] \in Nat /\ mails[mem[w].row] \in Nat /\ unheard[mem[w].row] \in Nat
         /\ tried[mem[w].row] \in Nat
BY ReplicaTypes, NoMemType DEF Types, TypeReplicas, TypeRows, TypeCounts, Row

\* Where the step leads: the row's counts after it.
LEMMA CountsHere ==
  ASSUME TextAssumption, Types, NEW w \in Replicas
  PROVE  LET q == mem[w].row IN
         /\ UNCHANGED made => made'[q] = made[q] + 0
         /\ UNCHANGED mails => mails'[q] = mails[q] + 0
         /\ UNCHANGED unheard => unheard'[q] = unheard[q] + 0
         /\ Plus(made, q) => made'[q] = made[q] + 1
         /\ Plus(mails, q) => mails'[q] = mails[q] + 1
         /\ Plus(unheard, q) => unheard'[q] = unheard[q] + 1
<1> DEFINE q == mem[w].row
<1>1. q \in Texts /\ made[q] \in Nat /\ mails[q] \in Nat /\ unheard[q] \in Nat /\ TypeCounts
  BY Here
<1> HIDE DEF q
<1>2. /\ UNCHANGED made => made'[q] = made[q] + 0
      /\ UNCHANGED mails => mails'[q] = mails[q] + 0
      /\ UNCHANGED unheard => unheard'[q] = unheard[q] + 0
  BY <1>1
<1>3. Plus(made, q) => made'[q] = made[q] + 1
  BY <1>1 DEF Plus, TypeCounts
<1>4. Plus(mails, q) => mails'[q] = mails[q] + 1
  BY <1>1 DEF Plus, TypeCounts
<1>5. Plus(unheard, q) => unheard'[q] = unheard[q] + 1
  BY <1>1 DEF Plus, TypeCounts
<1> QED
  BY <1>2, <1>3, <1>4, <1>5 DEF q

LEMMA TextSame ==
  ASSUME text' = text, NEW q
  PROVE  /\ text'[q].st = text[q].st /\ text'[q].task = text[q].task /\ text'[q].alert = text[q].alert
         /\ text'[q].old = text[q].old
OBVIOUS

LEMMA TaskStep ==
  ASSUME TextAssumption, Types, NEW w \in Replicas,
         Match(w) \/ Create(w) \/ CreateRefused(w) \/ CreateUnanswered(w) \/ StampTask(w) \/ RequestFails(w)
  PROVE  Tried(w, mem[w].row)
<1> DEFINE q == mem[w].row
<1>0. /\ TypeRows /\ TypeReplicas /\ w \in DOMAIN pc /\ w \in DOMAIN mem /\ mem[w] \in Mem /\ q \in Texts
      /\ text[q] \in TextRow /\ Row(w) = text[q]
  BY Here
<1>g. ASSUME NEW s, NEW m, Goto(w, s, m) PROVE pc'[w] = s /\ mem'[w] = m
  BY <1>0, <1>g DEF Goto
<1>c. /\ UNCHANGED made => made'[q] = made[q] + 0
      /\ UNCHANGED mails => mails'[q] = mails[q] + 0
      /\ UNCHANGED unheard => unheard'[q] = unheard[q] + 0
      /\ Plus(made, q) => made'[q] = made[q] + 1
      /\ Plus(unheard, q) => unheard'[q] = unheard[q] + 1
  BY CountsHere
<1>t. text' = text => /\ text'[q].st = text[q].st /\ text'[q].task = text[q].task /\ text'[q].alert = text[q].alert
                      /\ text'[q].old = text[q].old
  BY TextSame
<1>1. CASE Match(w)
  <2>1. Still(w, q, IF mem[w].task THEN AfterTask(mem[w]) ELSE "create", mem[w], 0, 0, 0) /\ pc[w] = "match"
    BY <1>1, <1>g, <1>c, <1>t DEF Match, sent, At, Still, Move
  <2> QED
    BY <2>1 DEF Tried
<1>2. CASE Create(w)
  <2>1. Still(w, q, "stampTask", mem[w], 1, 0, 0) /\ pc[w] = "create"
    BY <1>2, <1>g, <1>c, <1>t DEF Create, At, Still, Move
  <2> QED
    BY <2>1 DEF Tried
<1>3. CASE CreateRefused(w)
  <2>1. pc[w] = "create" /\ UNCHANGED <<text, made, mails, unheard>> /\ \E p \in BOOLEAN : GiveUpTask(w, p)
    BY <1>3 DEF CreateRefused, At
  <2>2. PICK s \in {"catch", "alert", "close"}, m \in Mem :
           /\ Goto(w, s, m) /\ Follows(w, m) /\ (s # "catch" => m.lost /\ (s = "alert" <=> mem[w].owes))
    BY <1>0, <2>1, GiveUpTaskGoes DEF Follows
  <2>3. Still(w, q, s, m, 0, 0, 0)
    BY <2>1, <2>2, <1>g, <1>c, <1>t DEF Still, Move
  <2> QED
    BY <2>1, <2>2, <2>3 DEF Tried
<1>4. CASE CreateUnanswered(w)
  <2>1. pc[w] = "create" /\ UNCHANGED <<text, mails>> /\ Plus(made, q) /\ Plus(unheard, q) /\ GiveUpTask(w, FALSE)
    BY <1>4 DEF CreateUnanswered, At
  <2>2. PICK s \in {"catch", "alert", "close"}, m \in Mem :
           /\ Goto(w, s, m) /\ Follows(w, m) /\ (s # "catch" => m.lost /\ (s = "alert" <=> mem[w].owes))
    BY <1>0, <2>1, GiveUpTaskGoes DEF Follows
  <2>3. Still(w, q, s, m, 1, 0, 1)
    BY <2>1, <2>2, <1>g, <1>c, <1>t DEF Still, Move
  <2> QED
    BY <2>1, <2>2, <2>3 DEF Tried
<1>5. CASE StampTask(w)
  <2> DEFINE r == [Row(w) EXCEPT !.task = TRUE]
             m == [mem[w] EXCEPT !.task = TRUE]
  <2>1. pc[w] = "stampTask" /\ Patch(q, r) /\ Goto(w, AfterTask(mem[w]), m) /\ UNCHANGED <<made, mails, unheard>>
    BY <1>5 DEF StampTask, At, sent
  <2>2. m \in Mem /\ m.row = q /\ m.task /\ m.owes = mem[w].owes /\ m.back = mem[w].back
    BY <1>0 DEF Mem
  <2>3. r \in TextRow /\ r.st = text[q].st /\ r.task = TRUE /\ r.alert = text[q].alert
    BY <1>0 DEF TextRow
  <2> HIDE DEF r, m
  <2>4. Move(w, q, AfterTask(mem[w]), m, text[q].st, TRUE, text[q].alert, 0, 0, 0)
    BY <1>0, <2>1, <2>3, <1>g, <1>c, PatchFacts DEF Move
  <2> QED
    BY <2>1, <2>2, <2>4 DEF Tried
<1>6. CASE RequestFails(w)
  <2>1. pc[w] \in {"match", "create"} /\ UNCHANGED <<text, made, mails, unheard>>
        /\ \E auth \in BOOLEAN : Goto(w, "catch", [mem[w] EXCEPT !.auth = auth])
    BY <1>6 DEF RequestFails, At, sent
  <2>2. PICK auth \in BOOLEAN : Goto(w, "catch", [mem[w] EXCEPT !.auth = auth])
    BY <2>1
  <2> DEFINE m == [mem[w] EXCEPT !.auth = auth]
  <2>3. m \in Mem /\ Follows(w, m)
    BY <1>0 DEF Mem, Follows
  <2> HIDE DEF m
  <2>4. Still(w, q, "catch", m, 0, 0, 0)
    BY <2>1, <2>2, <1>g, <1>c, <1>t DEF Still, Move, m
  <2> QED
    BY <2>1, <2>3, <2>4 DEF Tried
<1> QED
  BY <1>1, <1>2, <1>3, <1>4, <1>5, <1>6

LEMMA AlertStep ==
  ASSUME TextAssumption, Types, NEW w \in Replicas,
         SkipAlert(w) \/ ToEmail(w) \/ Email(w) \/ EmailUnanswered(w) \/ EmailRefused(w) \/ StampEmail(w)
  PROVE  Alerted(w, mem[w].row)
<1> DEFINE q == mem[w].row
<1>0. /\ TypeRows /\ TypeReplicas /\ w \in DOMAIN pc /\ w \in DOMAIN mem /\ mem[w] \in Mem /\ q \in Texts
      /\ text[q] \in TextRow /\ Row(w) = text[q]
  BY Here
<1>g. ASSUME NEW s, NEW m, Goto(w, s, m) PROVE pc'[w] = s /\ mem'[w] = m
  BY <1>0, <1>g DEF Goto
<1>c. /\ UNCHANGED made => made'[q] = made[q] + 0
      /\ UNCHANGED mails => mails'[q] = mails[q] + 0
      /\ UNCHANGED unheard => unheard'[q] = unheard[q] + 0
      /\ Plus(mails, q) => mails'[q] = mails[q] + 1
      /\ Plus(unheard, q) => unheard'[q] = unheard[q] + 1
  BY CountsHere
<1>t. text' = text => /\ text'[q].st = text[q].st /\ text'[q].task = text[q].task /\ text'[q].alert = text[q].alert
                      /\ text'[q].old = text[q].old
  BY TextSame
<1>1. ASSUME NEW a \in {"skipped", "emailed"}, Patch(q, [Row(w) EXCEPT !.alert = a]), AfterAlert(w), UNCHANGED sent
      PROVE  \E m \in Mem : /\ mem[w].back = "close" => m = mem[w]
                            /\ Move(w, q, mem[w].back, m, text[q].st, text[q].task, a, 0, 0, 0)
  <2> DEFINE r == [Row(w) EXCEPT !.alert = a]
  <2>1. r \in TextRow /\ r.st = text[q].st /\ r.task = text[q].task /\ r.alert = a
    BY <1>0 DEF TextRow
  <2>2. Patch(q, r) /\ UNCHANGED <<made, mails, unheard>>
    BY <1>1 DEF sent
  <2> HIDE DEF r
  <2>3. PICK m \in Mem : Goto(w, mem[w].back, m) /\ (mem[w].back = "close" => m = mem[w])
    BY <1>0, <1>1, AfterAlertGoes
  <2>4. Move(w, q, mem[w].back, m, text[q].st, text[q].task, a, 0, 0, 0)
    BY <1>0, <2>1, <2>2, <2>3, <1>g, <1>c, PatchFacts DEF Move
  <2> QED
    BY <2>3, <2>4
<1>2. CASE SkipAlert(w)
  <2>1. pc[w] = "alert" /\ mem[w].task /\ Patch(q, [Row(w) EXCEPT !.alert = "skipped"]) /\ AfterAlert(w) /\ UNCHANGED sent
    BY <1>2 DEF SkipAlert, GuardedAlert, At
  <2> QED
    BY <1>1, <2>1 DEF Alerted
<1>3. CASE StampEmail(w)
  <2>1. pc[w] = "stampEmail" /\ Patch(q, [Row(w) EXCEPT !.alert = "emailed"]) /\ AfterAlert(w) /\ UNCHANGED sent
    BY <1>3 DEF StampEmail, At
  <2> QED
    BY <1>1, <2>1 DEF Alerted
<1>4. CASE ToEmail(w)
  <2>1. pc[w] = "alert" /\ Still(w, q, "email", mem[w], 0, 0, 0)
    BY <1>4, <1>g, <1>c, <1>t DEF ToEmail, At, sent, Still, Move
  <2> QED
    BY <2>1 DEF Alerted
<1>5. CASE Email(w)
  <2>1. pc[w] = "email" /\ Still(w, q, "stampEmail", mem[w], 0, 1, 0)
    BY <1>5, <1>g, <1>c, <1>t DEF Email, At, Still, Move
  <2> QED
    BY <2>1 DEF Alerted
<1>6. CASE EmailUnanswered(w)
  <2>1. pc[w] = "email" /\ UNCHANGED <<text, made>> /\ Plus(mails, q) /\ Plus(unheard, q) /\ AlertFailed(w, FALSE)
    BY <1>6 DEF EmailUnanswered, At
  <2>2. PICK s \in {"catch", "final", "scan"}, m \in Mem :
          Goto(w, s, m) /\ (s = "catch" => Follows(w, m) /\ m.back = "close")
    BY <1>0, <2>1, AlertFailedGoes DEF Follows
  <2>3. Still(w, q, s, m, 0, 1, 1)
    BY <2>1, <2>2, <1>g, <1>c, <1>t DEF Still, Move
  <2> QED
    BY <2>1, <2>2, <2>3 DEF Alerted
<1>7. CASE EmailRefused(w)
  <2>1. pc[w] = "email" /\ UNCHANGED <<text, made, mails, unheard>> /\ \E a \in BOOLEAN : AlertFailed(w, a)
    BY <1>7 DEF EmailRefused, At, sent
  <2>2. PICK s \in {"catch", "final", "scan"}, m \in Mem :
          Goto(w, s, m) /\ (s = "catch" => Follows(w, m) /\ m.back = "close")
    BY <1>0, <2>1, AlertFailedGoes DEF Follows
  <2>3. Still(w, q, s, m, 0, 0, 0)
    BY <2>1, <2>2, <1>g, <1>c, <1>t DEF Still, Move
  <2> QED
    BY <2>1, <2>2, <2>3 DEF Alerted
<1> QED
  BY <1>2, <1>3, <1>4, <1>5, <1>6, <1>7

LEMMA EndStep ==
  ASSUME TextAssumption, Types, NEW w \in Replicas, Close(w) \/ Catch(w)
  PROVE  Ended(w, mem[w].row)
<1> DEFINE q == mem[w].row
<1>0. /\ TypeRows /\ TypeReplicas /\ w \in DOMAIN pc /\ w \in DOMAIN mem /\ mem[w] \in Mem /\ q \in Texts
      /\ text[q] \in TextRow /\ Row(w) = text[q]
  BY Here
<1>1. pc'[w] = "scan" /\ mem'[w] = NoMem /\ UNCHANGED <<made, mails, unheard>>
  BY <1>0 DEF Close, Catch, Goto, sent
<1>2. made'[q] = made[q] + 0 /\ mails'[q] = mails[q] + 0 /\ unheard'[q] = unheard[q] + 0
  BY <1>1, CountsHere
<1>3. ASSUME NEW s \in TextStatus, NEW r \in TextRow, r = [Row(w) EXCEPT !.st = s] \/ r = [Row(w) EXCEPT !.st = s, !.due = FALSE],
             Patch(q, r)
      PROVE  Move(w, q, "scan", NoMem, s, text[q].task, text[q].alert, 0, 0, 0)
  <2>1. r.st = s /\ r.task = text[q].task /\ r.alert = text[q].alert
    BY ZenonT(30), <1>0, <1>3 DEF TextRow
  <2> QED
    BY <1>0, <1>1, <1>2, <1>3, <2>1, PatchFacts DEF Move
<1>4. CASE Close(w)
  <2> DEFINE s == IF mem[w].lost THEN "failed" ELSE "done"
  <2>1. s \in TextStatus /\ Patch(q, [Row(w) EXCEPT !.st = s]) /\ pc[w] = "close"
    BY <1>4 DEF Close, At, TextStatus
  <2>2. [Row(w) EXCEPT !.st = s] \in TextRow
    BY <1>0, <2>1, RowUpdate
  <2>3. Move(w, q, "scan", NoMem, s, text[q].task, text[q].alert, 0, 0, 0)
    BY <1>3, <2>1, <2>2
  <2> QED
    BY <2>1, <2>3 DEF Ended
<1>5. CASE Catch(w)
  <2>1. pc[w] = "catch" /\ \E s \in {"failed", "pending"} :
           Patch(q, [Row(w) EXCEPT !.st = s]) \/ Patch(q, [Row(w) EXCEPT !.st = s, !.due = FALSE])
    BY <1>5 DEF Catch, At
  <2>2. PICK s \in {"failed", "pending"} :
           Patch(q, [Row(w) EXCEPT !.st = s]) \/ Patch(q, [Row(w) EXCEPT !.st = s, !.due = FALSE])
    BY <2>1
  <2>3. s \in TextStatus
    BY DEF TextStatus
  <2>4. [Row(w) EXCEPT !.st = s] \in TextRow /\ [Row(w) EXCEPT !.st = s, !.due = FALSE] \in TextRow
    BY <1>0, <2>3, RowUpdate
  <2>5. Move(w, q, "scan", NoMem, s, text[q].task, text[q].alert, 0, 0, 0)
    BY <1>3, <2>2, <2>3, <2>4
  <2> QED
    BY <2>1, <2>5 DEF Ended
<1> QED
  BY <1>4, <1>5

LEMMA RowActElsewhere ==
  ASSUME TextAssumption, Types, NEW w \in Replicas, RowAct(w)
  PROVE  Elsewhere(mem[w].row)
<1> DEFINE q == mem[w].row
<1>0. TypeRows /\ TypeCounts /\ q \in Texts /\ text[q] \in TextRow /\ Row(w) = text[q]
  BY Here
<1>1. \A u \in Texts : u # q => made'[u] = made[u] /\ mails'[u] = mails[u] /\ unheard'[u] = unheard[u]
  <2>1. Counted(q)
    BY ActCounts DEF Act, RowAct, Failure
  <2> QED
    BY <1>0, <2>1, CountedFacts
<1>2. \A u \in Texts : u # q => text'[u] = text[u]
  <2>1. text' = text \/ \E r : Patch(q, r)
    <3>1. CASE StampTask(w) \/ SkipAlert(w) \/ StampEmail(w) \/ Close(w) \/ Catch(w)
      BY <3>1, Zenon DEF StampTask, SkipAlert, StampEmail, Close, Catch
    <3>2. CASE \/ Match(w) \/ Create(w) \/ ToEmail(w) \/ Email(w) \/ CreateRefused(w) \/ CreateUnanswered(w)
               \/ EmailUnanswered(w) \/ EmailRefused(w) \/ RequestFails(w)
      BY <3>2, Zenon DEF Match, Create, ToEmail, Email, CreateRefused, CreateUnanswered, EmailUnanswered,
         EmailRefused, RequestFails
    <3> QED
      BY <3>1, <3>2 DEF RowAct, Process
  <2> QED
    BY <1>0, <2>1 DEF Patch, TypeRows
<1> QED
  BY <1>1, <1>2 DEF Elsewhere

\* Every step on a text is one of these.
LEMMA RowMoves ==
  ASSUME TextAssumption, Types, NEW w \in Replicas, RowAct(w)
  PROVE  Tried(w, mem[w].row) \/ Alerted(w, mem[w].row) \/ Ended(w, mem[w].row)
BY TaskStep, AlertStep, EndStep DEF RowAct, Process

-----------------------------------------------------------------------------
(* No text ends in silence: a memory that has the Task, or owes no alert,  *)
(* says so rightly, however stale it is, for a Task made is never unmade   *)
(* and an alert given never taken back.                                    *)

HandInv(w) ==
  pc[w] \in RowSteps =>
    /\ mem[w].back # "close" => pc[w] \in AlertSteps
    /\ ~mem[w].owes => ~OwesAlert(mem[w].row)
    /\ mem[w].task \/ pc[w] = "stampTask" => made[mem[w].row] > 0
    /\ pc[w] = "close" /\ mem[w].owes => text[mem[w].row].alert # "none"
    /\ pc[w] \in AlertSteps \cup {"close"} => mem[w].back # "close" \/ mem[w].task \/ mem[w].lost
OwedInv(w) == \A m \in stuck[w] : m.back = "final" /\ m.owes /\ (m.task => made[m.row] > 0)
TextInv(t) ==
  /\ text[t].task => made[t] > 0
  /\ text[t].st = "done" => made[t] > 0 /\ ~OwesAlert(t)
  /\ text[t].alert = "skipped" => made[t] > 0
ToldInv == /\ \A w \in Replicas : HandInv(w) /\ OwedInv(w)
           /\ \A t \in Texts : TextInv(t)

\* What no step takes back.
Grows ==
  /\ backfill' = backfill
  /\ \A t \in Texts : made'[t] >= made[t] /\ (text'[t].alert = "none" => text[t].alert = "none")

LEMMA HandStays ==
  ASSUME Types, Types', Grows, NEW v \in Replicas, HandInv(v), pc'[v] = pc[v], mem'[v] = mem[v]
  PROVE  HandInv(v)'
<1>1. mem[v].row \in Texts
  BY ReplicaTypes DEF Types
<1> DEFINE q == mem[v].row
<1>2. made[q] \in Nat /\ made'[q] \in Nat /\ made'[q] >= made[q]
  BY <1>1 DEF Types, TypeCounts, Grows
<1>3. OwesAlert(q)' => OwesAlert(q)
  BY <1>1 DEF OwesAlert, Grows
<1>4. text[q].alert # "none" => text'[q].alert # "none"
  BY <1>1 DEF Grows
<1>5. mem'[v].row = q /\ OwesAlert(mem[v].row)' = OwesAlert(q)'
  BY DEF OwesAlert
<1> HIDE DEF q
<1> QED
  BY <1>2, <1>3, <1>4, <1>5 DEF HandInv, q

LEMMA OwedStays ==
  ASSUME Types, Types', Grows, NEW v \in Replicas, OwedInv(v), stuck'[v] \subseteq stuck[v]
  PROVE  OwedInv(v)'
<1>1. ASSUME NEW m \in stuck[v] PROVE made[m.row] > 0 => made'[m.row] > 0
  <2>1. m.row \in Texts
    BY <1>1 DEF Types, TypeReplicas, Mem
  <2> QED
    BY <2>1 DEF Types, TypeCounts, Grows
<1> QED
  BY <1>1 DEF OwedInv

LEMMA TextStays ==
  ASSUME Types, Types', Grows, NEW t \in Texts, TextInv(t), text'[t].task => text[t].task \/ made'[t] > 0,
         text'[t].st = "done" => text[t].st = "done" \/ (made'[t] > 0 /\ ~OwesAlert(t)'),
         text'[t].alert = "skipped" => text[t].alert = "skipped" \/ made'[t] > 0
  PROVE  TextInv(t)'
<1>1. made[t] \in Nat /\ made'[t] \in Nat /\ made'[t] >= made[t]
  BY DEF Types, TypeCounts, Grows
<1>2. OwesAlert(t)' => OwesAlert(t)
  BY DEF OwesAlert, Grows
<1> QED
  BY <1>1, <1>2 DEF TextInv

\* A step on a text keeps what is said of it.
LEMMA ToldRow ==
  ASSUME TextAssumption, Types, Types', ToldInv, NEW w \in Replicas, RowAct(w)
  PROVE  ToldInv'
<1>q. PICK q \in Texts : q = mem[w].row
  BY Here
<1>0. q \in Texts /\ mem[w] \in Mem /\ made[q] \in Nat /\ TypeRows /\ TypeReplicas
  BY <1>q, Here
<1>i. HandInv(w) /\ TextInv(q) /\ pc[w] \in RowSteps /\ stuck' = stuck
  BY <1>0, RowActKeeps DEF ToldInv, lists
<1>e. Elsewhere(q)
  BY <1>q, RowActElsewhere
<1>v. \A v \in Replicas : v # w => pc'[v] = pc[v] /\ mem'[v] = mem[v]
  BY <1>0, Goes, GotoFacts DEF Act, RowAct, Failure
<1>b. backfill' = backfill
  BY <1>0, Goes, GotoFacts DEF Act, RowAct, Failure
<1>n. NoMem \in Mem /\ made'[q] \in Nat /\ text'[q] \in TextRow /\ text[q] \in TextRow /\ mem[w].owes \in BOOLEAN
      /\ backfill \in BOOLEAN
  BY <1>0, NoMemType, MemUpdate DEF Types, TypeCounts, TypeRows
<1>m. Tried(w, q) \/ Alerted(w, q) \/ Ended(w, q)
  BY <1>q, RowMoves
<1>a. AfterTask(mem[w]) = IF mem[w].owes THEN "alert" ELSE "close"
  BY DEF AfterTask
<1>o. OwesAlert(q) = (text[q].alert = "none" /\ ~backfill) /\ OwesAlert(q)' = (text'[q].alert = "none" /\ ~backfill')
  BY DEF OwesAlert
<1>h. /\ mem[w].back # "close" => pc[w] \in AlertSteps
      /\ ~mem[w].owes => ~(text[q].alert = "none" /\ ~backfill)
      /\ mem[w].task \/ pc[w] = "stampTask" => made[q] > 0
      /\ pc[w] = "close" /\ mem[w].owes => text[q].alert # "none"
      /\ pc[w] \in AlertSteps \cup {"close"} => mem[w].back # "close" \/ mem[w].task \/ mem[w].lost
  BY <1>i, <1>o, <1>q DEF HandInv
<1>k. mem[w].back \in {"close", "final", "scan"}
  BY <1>0, MemUpdate
<1>1. /\ made'[q] >= made[q] /\ (text'[q].alert = "none" => text[q].alert = "none")
      /\ text'[q].task => text[q].task \/ made'[q] > 0
      /\ text'[q].st = "done" => text[q].st = "done" \/ (made'[q] > 0 /\ ~OwesAlert(q)')
      /\ text'[q].alert = "skipped" => text[q].alert = "skipped" \/ made'[q] > 0
  <2>1. CASE Tried(w, q)
    BY <2>1, <1>0, <1>n, <1>h DEF Tried, Still, Move
  <2>2. CASE Alerted(w, q)
    BY <2>2, <1>0, <1>n, <1>h DEF Alerted, Still, Move
  <2>3. CASE Ended(w, q)
    <3>1. /\ made'[q] = made[q] + 0 /\ text'[q].alert = text[q].alert /\ text'[q].task = text[q].task
          /\ text'[q].st = "done" => pc[w] = "close" /\ ~mem[w].lost
      BY <2>3 DEF Ended, Move
    <3>2. pc[w] = "close" /\ ~mem[w].lost => made[q] > 0 /\ ~(text[q].alert = "none" /\ ~backfill)
      BY <1>h, <1>n DEF AlertSteps
    <3>3. made'[q] = made[q]
      BY <3>1, <1>0
    <3>4. OwesAlert(q)' => text[q].alert = "none" /\ ~backfill
      BY <3>1, <1>b, <1>o
    <3>5. text'[q].task => text[q].task
      BY <3>1
    <3>6. text'[q].st = "done" => made'[q] > 0 /\ ~OwesAlert(q)'
      BY <3>1, <3>2, <3>3, <3>4
    <3> QED
      BY <3>1, <3>3, <3>5, <3>6, <1>0
  <2> QED
    BY <1>m, <2>1, <2>2, <2>3
<1>2. Grows
  BY <1>1, <1>e, <1>b, <1>0 DEF Grows, Elsewhere, Types, TypeCounts
<1>3. HandInv(w)'
  <2>1. CASE Tried(w, q)
    <3>1. mem'[w].row = q
      BY <2>1, <1>q DEF Tried, Still, Move, Follows
    <3>2. pc'[w] \in RowSteps =>
            /\ mem'[w].back # "close" => pc'[w] \in AlertSteps
            /\ ~mem'[w].owes => ~(text'[q].alert = "none" /\ ~backfill')
            /\ mem'[w].task \/ pc'[w] = "stampTask" => made'[q] > 0
            /\ pc'[w] = "close" /\ mem'[w].owes => text'[q].alert # "none"
            /\ pc'[w] \in AlertSteps \cup {"close"} => mem'[w].back # "close" \/ mem'[w].task \/ mem'[w].lost
      BY SMTT(20), <2>1, <1>0, <1>n, <1>h, <1>b, <1>a DEF Tried, Still, Move, Follows, AlertSteps
    <3> QED
      BY <3>1, <3>2, <1>o DEF HandInv, OwesAlert
  <2>2. CASE Alerted(w, q)
    <3>1. pc'[w] \in RowSteps => mem'[w].row = q
      BY <2>2, <1>k, <1>q DEF Alerted, Still, Move, Follows, RowSteps
    <3>2. pc'[w] \in RowSteps =>
            /\ mem'[w].back # "close" => pc'[w] \in AlertSteps
            /\ ~mem'[w].owes => ~(text'[q].alert = "none" /\ ~backfill')
            /\ mem'[w].task \/ pc'[w] = "stampTask" => made'[q] > 0
            /\ pc'[w] = "close" /\ mem'[w].owes => text'[q].alert # "none"
            /\ pc'[w] \in AlertSteps \cup {"close"} => mem'[w].back # "close" \/ mem'[w].task \/ mem'[w].lost
      BY <2>2, <1>0, <1>n, <1>h, <1>b, <1>k DEF Alerted, Still, Move, Follows, AlertSteps, RowSteps
    <3> QED
      BY <3>1, <3>2, <1>o DEF HandInv, OwesAlert
  <2>3. CASE Ended(w, q)
    BY <2>3 DEF Ended, Move, HandInv, RowSteps
  <2> QED
    BY <1>m, <2>1, <2>2, <2>3
<1>4. \A v \in Replicas : HandInv(v)'
  BY <1>2, <1>3, <1>v, HandStays DEF ToldInv
<1>5. \A v \in Replicas : OwedInv(v)'
  BY <1>2, <1>i, OwedStays DEF ToldInv
<1>6. \A t \in Texts : TextInv(t)'
  BY <1>0, <1>1, <1>2, <1>e, TextStays DEF ToldInv, Elsewhere
<1> QED
  BY <1>4, <1>5, <1>6 DEF ToldInv

\* A step that puts no replica at a text, and changes what is said of none.
LEMMA ToldElse ==
  ASSUME TextAssumption, Types, Types', ToldInv, backfill' = backfill, made' = made,
         \A t \in Texts : text'[t].task = text[t].task /\ text'[t].alert = text[t].alert
                          /\ (text'[t].st = "done" => text[t].st = "done"),
         \A v \in Replicas : (pc'[v] = pc[v] /\ mem'[v] = mem[v]) \/ pc'[v] \notin RowSteps \/ HandInv(v)',
         \A v \in Replicas : stuck'[v] \subseteq stuck[v] \/ OwedInv(v)'
  PROVE  ToldInv'
<1>1. Grows
  <2>1. \A t \in Texts : made[t] \in Nat
    BY DEF Types, TypeCounts
  <2> QED
    BY <2>1 DEF Grows
<1>2. \A v \in Replicas : HandInv(v)'
  BY <1>1, HandStays DEF ToldInv, HandInv
<1>3. \A v \in Replicas : OwedInv(v)'
  BY <1>1, OwedStays DEF ToldInv
<1>4. \A t \in Texts : TextInv(t)'
  BY <1>1, TextStays DEF ToldInv
<1> QED
  BY <1>2, <1>3, <1>4 DEF ToldInv

LEMMA DigestGoes ==
  ASSUME TextAssumption, Types, NEW w \in Replicas, DigestAct(w)
  PROVE  pc'[w] \notin RowSteps
<1>1. w \in DOMAIN pc
  BY Here
<1>2. pc'[w] \in DigestSteps \cup {"idle"}
  BY <1>1, Zenon DEF DigestAct, Digest, ReapDigest, QueueDigest, ScanDigest, ReadDigest, ClaimDigest, Post,
     DigestClosed, ReadDigestFails, PostUnclear, PostRefused, NextDigest, Goto, DigestSteps
<1> QED
  BY <1>2 DEF DigestSteps, RowSteps

\* The steps of a tick, as they bear on the texts.
LEMMA TickMoves ==
  ASSUME TextAssumption, Types, NEW w \in Replicas, Tick(w)
  PROVE  \/ Reap(w) /\ pc'[w] = "final" /\ todo' = todo
         \/ /\ \E m \in stuck[w] : pc'[w] = "alert" /\ mem'[w] = m /\ stuck' = [stuck EXCEPT ![w] = @ \ {m}]
            /\ FinalAlert(w) /\ text' = text
         \/ /\ Claim(w) /\ stuck' = stuck
            /\ \E t \in Texts : /\ text[t].st = "pending" /\ Patch(t, Claimed(t)) /\ pc'[w] = "match"
                                /\ mem'[w].row = t /\ mem'[w].task = text[t].task /\ mem'[w].owes = OwesAlert(t)
                                /\ mem'[w].back = "close"
         \/ /\ GiveUp(w) /\ stuck' = stuck
            /\ \E t \in Texts : /\ text[t].st = "pending" /\ Patch(t, [Claimed(t) EXCEPT !.st = "failed"])
                                /\ IF OwesAlert(t)
                                   THEN /\ pc'[w] = "alert" /\ mem'[w].row = t /\ mem'[w].task = text[t].task
                                        /\ mem'[w].owes /\ mem'[w].back = "scan"
                                   ELSE pc'[w] = "scan"
         \/ text' = text /\ stuck' = stuck /\ pc'[w] \notin RowSteps /\ pc[w] \notin RowSteps /\ ~Reap(w)
<1>0. w \in DOMAIN pc /\ w \in DOMAIN mem /\ TypeRows /\ TypeReplicas
  BY Here
<1>g. ASSUME NEW s, NEW m, Goto(w, s, m) PROVE pc'[w] = s /\ mem'[w] = m
  BY <1>0, <1>g DEF Goto
<1>1. CASE Reap(w)
  BY <1>1, <1>g DEF Reap
<1>2. CASE FinalAlert(w)
  BY <1>2, <1>g DEF FinalAlert
<1>3. CASE Claim(w)
  <2>1. PICK t \in todo[w] : /\ Claimable(t) /\ Patch(t, Claimed(t))
                             /\ Goto(w, "match", [Memory(t) EXCEPT !.tries = @ + 1])
    BY <1>3 DEF Claim
  <2>2. t \in Texts
    BY <1>0, ReplicaTypes
  <2> DEFINE m == [Memory(t) EXCEPT !.tries = @ + 1]
  <2>3. m.row = t /\ m.task = text[t].task /\ m.owes = OwesAlert(t) /\ m.back = "close"
    <3>1. /\ Memory(t) \in Mem /\ Memory(t).row = t /\ Memory(t).back = "close"
          /\ Memory(t).task = text[t].task /\ Memory(t).owes = OwesAlert(t)
      BY <1>0, <2>2, MemoryType
    <3> QED
      BY <3>1 DEF Mem
  <2>4. pc'[w] = "match" /\ mem'[w] = m
    BY <2>1, <1>g
  <2>5. stuck' = stuck
    BY <1>3 DEF Claim
  <2> QED
    BY <1>3, <2>1, <2>2, <2>3, <2>4, <2>5 DEF Claimable
<1>4. CASE GiveUp(w)
  <2>1. PICK t \in todo[w] : /\ Claimable(t) /\ Patch(t, [Claimed(t) EXCEPT !.st = "failed"])
                             /\ IF OwesAlert(t) THEN Goto(w, "alert", [Memory(t) EXCEPT !.back = "scan"])
                                                ELSE Goto(w, "scan", NoMem)
    BY <1>4 DEF GiveUp
  <2>2. t \in Texts
    BY <1>0, ReplicaTypes
  <2> DEFINE m == [Memory(t) EXCEPT !.back = "scan"]
  <2>3. m.row = t /\ m.task = text[t].task /\ m.owes = OwesAlert(t) /\ m.back = "scan"
    <3>1. /\ Memory(t) \in Mem /\ Memory(t).row = t
          /\ Memory(t).task = text[t].task /\ Memory(t).owes = OwesAlert(t)
      BY <1>0, <2>2, MemoryType
    <3> QED
      BY <3>1 DEF Mem
  <2>4. IF OwesAlert(t) THEN pc'[w] = "alert" /\ mem'[w] = m ELSE pc'[w] = "scan"
    BY <2>1, <1>g
  <2>5. stuck' = stuck
    BY <1>4 DEF GiveUp
  <2> QED
    BY <1>4, <2>1, <2>2, <2>3, <2>4, <2>5 DEF Claimable
<1>5. CASE Scan(w) \/ Lose(w) \/ EndScan(w)
  <2>1. text' = text /\ stuck' = stuck /\ pc[w] \in {"final", "scan"} /\ pc'[w] \in {"scan", "reapDigest"}
    BY <1>0, <1>5, <1>g DEF Scan, Lose, EndScan, lists, At
  <2> QED
    BY <2>1 DEF RowSteps, Reap, At
<1> QED
  BY <1>1, <1>2, <1>3, <1>4, <1>5 DEF Tick

LEMMA ToldTick ==
  ASSUME TextAssumption, Types, Types', ToldInv, NEW w \in Replicas, Tick(w)
  PROVE  ToldInv'
<1>0. TypeRows /\ TypeReplicas /\ made' = made
  BY Here, TickKeeps DEF sent
<1>v. \A v \in Replicas : v # w => pc'[v] = pc[v] /\ mem'[v] = mem[v]
  BY <1>0, Goes, GotoFacts DEF Act
<1>b. backfill' = backfill
  BY <1>0, Goes, GotoFacts DEF Act
<1>1. CASE Reap(w) /\ pc'[w] = "final"
  <2>1. \A t \in Texts : text'[t].task = text[t].task /\ text'[t].alert = text[t].alert
                          /\ (text'[t].st = "done" => text[t].st = "done")
    BY <1>0, <1>1, ReapFacts
  <2>2. OwedInv(w)' /\ \A v \in Replicas : v # w => stuck'[v] = stuck[v]
    <3>1. /\ \A v \in Replicas : v # w => stuck'[v] = stuck[v]
          /\ \A m \in stuck'[w] : m.row \in Old /\ m.back = "final" /\ m.owes /\ m.task = text[m.row].task
      BY <1>0, <1>1, ReapStuck
    <3>2. \A t \in Old : t \in Texts /\ (text[t].task => made'[t] > 0)
      BY <1>0 DEF Old, ToldInv, TextInv
    <3> QED
      BY <3>1, <3>2 DEF OwedInv
  <2>3. pc'[w] \notin RowSteps
    BY <1>1 DEF RowSteps
  <2> QED
    BY <1>0, <1>v, <1>b, <2>1, <2>2, <2>3, ToldElse
<1>2. ASSUME NEW m \in stuck[w], pc'[w] = "alert", mem'[w] = m, stuck' = [stuck EXCEPT ![w] = @ \ {m}], text' = text
      PROVE  ToldInv'
  <2>1. \A v \in Replicas : stuck'[v] \subseteq stuck[v]
    BY <1>0, <1>2 DEF TypeReplicas
  <2>2. HandInv(w)'
    <3>1. m.back = "final" /\ m.owes /\ (m.task => made'[m.row] > 0)
      BY <1>0 DEF ToldInv, OwedInv
    <3> QED
      BY <1>2, <3>1 DEF HandInv, AlertSteps
  <2> QED
    BY <1>0, <1>2, <1>v, <1>b, <2>1, <2>2, ToldElse
<1>3. ASSUME NEW t \in Texts, text[t].st = "pending", NEW r \in TextRow, Patch(t, r), stuck' = stuck,
             r.st # "done", r.task = text[t].task, r.alert = text[t].alert,
             pc'[w] \in RowSteps => /\ mem'[w].row = t /\ mem'[w].task = text[t].task /\ mem'[w].owes = OwesAlert(t)
                                    /\ \/ mem'[w].back = "close" /\ pc'[w] = "match"
                                       \/ mem'[w].back = "scan" /\ pc'[w] = "alert"
      PROVE  ToldInv'
  <2>1. /\ \A u \in Texts : u # t => text'[u] = text[u]
        /\ text'[t].st = r.st /\ text'[t].task = r.task /\ text'[t].alert = r.alert
    BY <1>0, <1>3, PatchFacts
  <2>2. OwesAlert(t)' = OwesAlert(t)
    BY <1>b, <1>3, <2>1 DEF OwesAlert
  <2>3. HandInv(w)'
    <3> SUFFICES ASSUME pc'[w] \in RowSteps PROVE HandInv(w)'
      BY DEF HandInv
    <3>1. text[t].task => made'[t] > 0
      BY <1>0 DEF ToldInv, TextInv
    <3>2. OwesAlert(mem[w].row)' = OwesAlert(t)
      BY <1>3, <2>2 DEF OwesAlert
    <3> QED
      BY <1>3, <3>1, <3>2 DEF HandInv, AlertSteps
  <2> QED
    BY <1>0, <1>3, <1>v, <1>b, <2>1, <2>3, ToldElse
<1>4. ASSUME NEW t \in Texts
      PROVE  /\ Claimed(t) \in TextRow /\ Claimed(t).st # "done" /\ Claimed(t).task = text[t].task
             /\ Claimed(t).alert = text[t].alert
             /\ [Claimed(t) EXCEPT !.st = "failed"] \in TextRow
             /\ [Claimed(t) EXCEPT !.st = "failed"].st # "done"
             /\ [Claimed(t) EXCEPT !.st = "failed"].task = text[t].task
             /\ [Claimed(t) EXCEPT !.st = "failed"].alert = text[t].alert
  <2>1. /\ Claimed(t) \in TextRow /\ [Claimed(t) EXCEPT !.st = "failed"] \in TextRow
        /\ Claimed(t).st = "in_flight" /\ Claimed(t).task = text[t].task /\ Claimed(t).alert = text[t].alert
    BY <1>0, ClaimedType
  <2> QED
    BY <2>1 DEF TextRow
<1>5. CASE text' = text /\ stuck' = stuck /\ pc'[w] \notin RowSteps
  BY <1>0, <1>5, <1>v, <1>b, ToldElse
<1>6. ASSUME stuck' = stuck, NEW t \in Texts, text[t].st = "pending", Patch(t, Claimed(t)), pc'[w] = "match",
             mem'[w].row = t, mem'[w].task = text[t].task, mem'[w].owes = OwesAlert(t), mem'[w].back = "close"
      PROVE  ToldInv'
  BY <1>3, <1>4, <1>6
<1>7. ASSUME stuck' = stuck, NEW t \in Texts, text[t].st = "pending", Patch(t, [Claimed(t) EXCEPT !.st = "failed"]),
             IF OwesAlert(t) THEN /\ pc'[w] = "alert" /\ mem'[w].row = t /\ mem'[w].task = text[t].task
                                  /\ mem'[w].owes /\ mem'[w].back = "scan"
                             ELSE pc'[w] = "scan"
      PROVE  ToldInv'
  <2>1. pc'[w] \in RowSteps => /\ mem'[w].row = t /\ mem'[w].task = text[t].task /\ mem'[w].owes = OwesAlert(t)
                               /\ mem'[w].back = "scan" /\ pc'[w] = "alert"
    <3>1. mem'[w].owes \in BOOLEAN /\ OwesAlert(t) \in BOOLEAN
      <4>1. mem'[w] \in Mem /\ text[t] \in TextRow /\ backfill \in BOOLEAN
        BY DEF Types, TypeReplicas, TypeRows
      <4> QED
        BY <4>1 DEF Mem, OwesAlert
    <3> QED
      BY <1>7, <3>1 DEF RowSteps
  <2> QED
    BY <1>3, <1>4, <1>7, <2>1
<1> QED
  BY <1>1, <1>2, <1>5, <1>6, <1>7, TickMoves

LEMMA ToldInvHolds ==
  ASSUME TextAssumption, Types, Types', ToldInv, [Next]_vars
  PROVE  ToldInv'
<1>1. ASSUME NEW w \in Replicas, DigestAct(w) \/ Crash(w) PROVE ToldInv'
  <2>0. TypeRows /\ TypeReplicas /\ w \in DOMAIN pc
    BY Here
  <2>1. text' = text /\ made' = made
    BY <1>1, DigestActKeeps DEF Crash, sent
  <2>2. backfill' = backfill /\ \A v \in Replicas : v # w => pc'[v] = pc[v] /\ mem'[v] = mem[v]
    BY <1>1, <2>0, Goes, GotoFacts DEF Act, DigestAct, Failure
  <2>3. pc'[w] \notin RowSteps
    <3>1. Crash(w) => pc'[w] = "idle"
      BY <2>0 DEF Crash, Goto
    <3> QED
      BY <1>1, <3>1, DigestGoes DEF RowSteps
  <2>4. \A v \in Replicas : stuck'[v] \subseteq stuck[v]
    <3>1. stuck' = stuck \/ stuck' = [stuck EXCEPT ![w] = {}]
      BY <1>1, DigestActKeeps DEF Crash, lists
    <3> QED
      BY <2>0, <3>1 DEF TypeReplicas
  <2> QED
    BY <2>1, <2>2, <2>3, <2>4, ToldElse
<1>2. ASSUME Time \/ UNCHANGED vars PROVE ToldInv'
  <2>1. pc' = pc /\ mem' = mem /\ made' = made /\ stuck' = stuck /\ backfill' = backfill
    BY <1>2, Zenon DEF Time, DigestDue, DigestStale, TextDue, TextStale, vars, sent, lists
  <2>2. \A t \in Texts : text'[t].task = text[t].task /\ text'[t].alert = text[t].alert
                          /\ (text'[t].st = "done" => text[t].st = "done")
    <3>1. CASE text' = text
      BY <3>1
    <3>2. ASSUME NEW u \in Texts, TextDue(u) \/ TextStale(u)
          PROVE \A t \in Texts : text'[t].task = text[t].task /\ text'[t].alert = text[t].alert
                                 /\ (text'[t].st = "done" => text[t].st = "done")
      <4>1. text' = [text EXCEPT ![u].due = TRUE] \/ text' = [text EXCEPT ![u].old = TRUE]
        BY <3>2, Zenon DEF TextDue, TextStale
      <4> QED
        BY <4>1 DEF Types, TypeRows, TextRow
    <3>3. text' = text \/ \E u \in Texts : TextDue(u) \/ TextStale(u)
      BY <1>2, Zenon DEF Time, DigestDue, DigestStale, vars
    <3> QED
      BY <3>1, <3>2, <3>3
  <2> QED
    BY <2>1, <2>2, ToldElse
<1> QED
  BY <1>1, <1>2, ToldRow, ToldTick, ActKinds DEF Next, Act

LEMMA ToldInvInit ==
  ASSUME Init
  PROVE  ToldInv
<1>1. \A w \in Replicas : pc[w] = "idle" /\ stuck[w] = {}
  BY DEF Init
<1>2. \A t \in Texts : text[t].st = "pending" /\ ~text[t].task /\ text[t].alert = "none"
  BY DEF Init, NewText
<1> QED
  BY <1>1, <1>2 DEF ToldInv, HandInv, OwedInv, TextInv, RowSteps

\* TextQueue.NothingSilent: a text is done only with its Task logged and its
\* alert given, held back or left to the digest, and no text without a Task is
\* held back, even when claims outlive their limit and replicas work on one row.
THEOREM NothingSilentHolds == ASSUME TextAssumption PROVE Spec => []NothingSilent
<1>1. TextAssumption /\ Types /\ Types' /\ ToldInv /\ [Next]_vars => ToldInv'
  BY ToldInvHolds
<1>2. ToldInv => NothingSilent
  BY DEF ToldInv, TextInv, NothingSilent
<1> QED
  BY <1>1, <1>2, ToldInvInit, TypesInit, TypesHold, PTL DEF Spec

-----------------------------------------------------------------------------
(* One Task and one alert: while no claim on a text outlives its limit one *)
(* replica at most has business with it, a claim or an alert that giving   *)
(* up left over, and what that replica remembers of the row is what the    *)
(* row says.                                                               *)

Works(w, t) == pc[w] \in RowSteps /\ mem[w].row = t
Queued(w, t) == \E m \in stuck[w] : m.row = t
Busy(w, t) == Works(w, t) \/ Queued(w, t)
OwnInv(w, t) ==
  Works(w, t) =>
    /\ mem[w].back = "close" => text[t].st = "in_flight" /\ ~text[t].old /\ mem[w].task = text[t].task
    /\ mem[w].back # "close" => text[t].st = "failed"
    /\ pc[w] \in {"create", "stampTask"} => ~mem[w].task
    /\ pc[w] \in AlertSteps => mem[w].owes
    /\ pc[w] \notin {"close", "catch"} /\ mem[w].owes => text[t].alert = "none"
    /\ ~Queued(w, t)
QueueInv(w, t) ==
  /\ Queued(w, t) => text[t].st = "failed" /\ text[t].alert = "none"
  /\ \A m, n \in stuck[w] : m.row = t /\ n.row = t => m = n
OneBusy(t) == \A v, w \in Replicas : Busy(v, t) /\ Busy(w, t) => v = w
Stamping(t, step) == \E w \in Replicas : Works(w, t) /\ pc[w] = step
Counts(t) ==
  /\ made[t] <= 1 + unheard[t] /\ mails[t] <= 1 + unheard[t]
  /\ ~text[t].task /\ ~Stamping(t, "stampTask") => made[t] <= unheard[t]
  /\ text[t].alert # "emailed" /\ ~Stamping(t, "stampEmail") => mails[t] <= unheard[t]
PerText(t) == OneBusy(t) /\ (\A w \in Replicas : OwnInv(w, t) /\ QueueInv(w, t)) /\ Counts(t)
OnceInv == \A t \in Texts \ overrun : PerText(t)

\* The counts as the one replica at work on the text sees them.
CountsAt(w, t) ==
  /\ made[t] <= 1 + unheard[t] /\ mails[t] <= 1 + unheard[t]
  /\ ~text[t].task /\ pc[w] # "stampTask" => made[t] <= unheard[t]
  /\ text[t].alert # "emailed" /\ pc[w] # "stampEmail" => mails[t] <= unheard[t]

LEMMA CountsSole ==
  ASSUME NEW w \in Replicas, NEW t, Works(w, t), OneBusy(t)
  PROVE  Counts(t) => CountsAt(w, t)
<1>1. \A v \in Replicas : Works(v, t) => v = w
  BY DEF OneBusy, Busy
<1>2. /\ Stamping(t, "stampTask") => pc[w] = "stampTask"
      /\ Stamping(t, "stampEmail") => pc[w] = "stampEmail"
  BY <1>1 DEF Stamping
<1> QED
  BY <1>2 DEF Counts, CountsAt

\* A text that the step leaves as it was.
LEMMA Untouched ==
  ASSUME NEW t \in Texts, PerText(t),
         text'[t].st = text[t].st, text'[t].task = text[t].task, text'[t].alert = text[t].alert,
         made'[t] = made[t], mails'[t] = mails[t], unheard'[t] = unheard[t],
         text'[t].old => text[t].old \/ (\A v \in Replicas : ~HeldBy(v, t)),
         \A v \in Replicas : \/ pc'[v] = pc[v] /\ mem'[v] = mem[v]
                             \/ ~Works(v, t) /\ ~Works(v, t)',
         \A v \in Replicas : stuck'[v] \subseteq stuck[v] \/ ~Queued(v, t)'
  PROVE  PerText(t)'
<1>1. \A v \in Replicas : Works(v, t)' <=> Works(v, t)
  BY DEF Works
<1>2. \A v \in Replicas : Queued(v, t)' => Queued(v, t)
  BY DEF Queued
<1>3. OneBusy(t)'
  BY <1>1, <1>2 DEF OneBusy, Busy, PerText
<1>4. ASSUME NEW v \in Replicas PROVE OwnInv(v, t)'
  <2> SUFFICES ASSUME Works(v, t)' PROVE OwnInv(v, t)'
    BY DEF OwnInv
  <2>1. Works(v, t) /\ pc'[v] = pc[v] /\ mem'[v] = mem[v]
    BY <1>1
  <2>2. OwnInv(v, t)
    BY DEF PerText
  <2>3. mem[v].back = "close" => ~text'[t].old
    BY <2>1, <2>2 DEF OwnInv, HeldBy, Works
  <2> QED
    BY <1>2, <2>1, <2>2, <2>3 DEF OwnInv
<1>5. ASSUME NEW v \in Replicas PROVE QueueInv(v, t)'
  BY <1>2, <1>5 DEF PerText, QueueInv, Queued
<1>6. Counts(t)'
  <2>1. ASSUME NEW s PROVE Stamping(t, s) => Stamping(t, s)'
    <3> SUFFICES ASSUME NEW v \in Replicas, Works(v, t), pc[v] = s PROVE Works(v, t)' /\ pc'[v] = s
      BY Zenon DEF Stamping
    <3> QED
      BY <1>1
  <2> QED
    BY <2>1 DEF Counts, PerText
<1> QED
  BY <1>3, <1>4, <1>5, <1>6 DEF PerText

\* A text that one replica only has business with, before the step and after it.
LEMMA Sole ==
  ASSUME NEW t \in Texts, NEW w \in Replicas, OneBusy(t), \A v \in Replicas : QueueInv(v, t),
         \A v \in Replicas : Busy(v, t)' => v = w,
         OwnInv(w, t)', QueueInv(w, t)',
         CountsAt(w, t)', pc'[w] \in {"stampTask", "stampEmail"} => Works(w, t)'
  PROVE  PerText(t)'
<1>1. OneBusy(t)'
  BY DEF OneBusy
<1>2. \A v \in Replicas : v # w => OwnInv(v, t)' /\ QueueInv(v, t)'
  BY DEF Busy, OwnInv, QueueInv, Queued
<1>3. Counts(t)'
  <2>1. pc'[w] = "stampTask" => Stamping(t, "stampTask")'
    BY DEF Stamping
  <2>2. pc'[w] = "stampEmail" => Stamping(t, "stampEmail")'
    BY DEF Stamping
  <2> QED
    BY <2>1, <2>2 DEF Counts, CountsAt
<1> QED
  BY <1>1, <1>2, <1>3 DEF PerText

LEMMA OnceRow ==
  ASSUME TextAssumption, Types, Types', ToldInv, OnceInv, NEW w \in Replicas, RowAct(w)
  PROVE  OnceInv'
<1>q. PICK q \in Texts : q = mem[w].row
  BY Here
<1>0. mem[w] \in Mem /\ made[q] \in Nat /\ mails[q] \in Nat /\ unheard[q] \in Nat /\ TypeRows /\ TypeReplicas
      /\ text[q] \in TextRow /\ text'[q] \in TextRow /\ mem'[w] \in Mem /\ NoMem \in Mem
  BY <1>q, Here DEF Types, TypeRows, TypeReplicas
<1>i. HandInv(w) /\ pc[w] \in RowSteps /\ stuck' = stuck /\ overrun' = overrun
  BY RowActKeeps DEF ToldInv, lists
<1>e. Elsewhere(q)
  BY <1>q, RowActElsewhere
<1>v. \A v \in Replicas : v # w => pc'[v] = pc[v] /\ mem'[v] = mem[v]
  BY <1>0, Goes, GotoFacts DEF Act, RowAct, Failure
<1>m. Tried(w, q) \/ Alerted(w, q) \/ Ended(w, q)
  BY <1>q, RowMoves
<1>a. AfterTask(mem[w]) = IF mem[w].owes THEN "alert" ELSE "close"
  BY DEF AfterTask
<1>k. mem[w].back \in {"close", "final", "scan"} /\ NoMem.back = "close"
  BY <1>0, MemUpdate DEF NoMem
<1>b. mem[w].back # "close" => pc[w] \in AlertSteps
  BY <1>i DEF HandInv
<1>r. pc'[w] \in RowSteps => mem'[w].row = q
  <2>1. CASE Tried(w, q)
    BY <2>1, <1>q DEF Tried, Still, Move, Follows
  <2>2. CASE Alerted(w, q)
    BY <2>2, <1>k, <1>q DEF Alerted, Still, Move, Follows, RowSteps
  <2>3. CASE Ended(w, q)
    BY <2>3 DEF Ended, Move, RowSteps
  <2> QED
    BY <1>m, <2>1, <2>2, <2>3
<1>1. ASSUME NEW t \in Texts \ overrun, t # q PROVE PerText(t)'
  <2>1. ~Works(w, t) /\ ~Works(w, t)'
    BY <1>1, <1>q, <1>r DEF Works
  <2>2. PerText(t)
    BY DEF OnceInv
  <2>3. text'[t] = text[t] /\ made'[t] = made[t] /\ mails'[t] = mails[t] /\ unheard'[t] = unheard[t]
    BY <1>1, <1>e DEF Elsewhere
  <2> QED
    BY <1>i, <1>v, <2>1, <2>2, <2>3, Untouched
<1>2. ASSUME q \notin overrun PROVE PerText(q)'
  <2>1. PerText(q) /\ Works(w, q)
    BY <1>2, <1>i, <1>q DEF OnceInv, Works
  <2>2. CountsAt(w, q) /\ OwnInv(w, q)
    BY <2>1, CountsSole DEF PerText
  <2>3. \A v \in Replicas : Busy(v, q) => v = w
    BY <2>1 DEF PerText, OneBusy, Busy
  <2>4. ~Queued(w, q)
    BY <2>1, <2>2 DEF OwnInv
  <2>5. \A v \in Replicas : Busy(v, q)' => v = w
    BY <1>i, <1>v, <2>3 DEF Busy, Works, Queued
  <2>6. ~Queued(w, q)' /\ QueueInv(w, q)'
    BY <1>i, <2>4 DEF Queued, QueueInv
  <2>7. /\ mem[w].back = "close" => text[q].st = "in_flight" /\ ~text[q].old /\ mem[w].task = text[q].task
        /\ mem[w].back # "close" => text[q].st = "failed"
        /\ pc[w] \in {"create", "stampTask"} => ~mem[w].task
        /\ pc[w] \in AlertSteps => mem[w].owes
        /\ pc[w] \notin {"close", "catch"} /\ mem[w].owes => text[q].alert = "none"
    BY <2>1, <2>2 DEF OwnInv
  <2>8. /\ pc'[w] \in RowSteps =>
             /\ mem'[w].back = "close" => text'[q].st = "in_flight" /\ ~text'[q].old /\ mem'[w].task = text'[q].task
             /\ mem'[w].back # "close" => text'[q].st = "failed"
             /\ pc'[w] \in {"create", "stampTask"} => ~mem'[w].task
             /\ pc'[w] \in AlertSteps => mem'[w].owes
             /\ pc'[w] \notin {"close", "catch"} /\ mem'[w].owes => text'[q].alert = "none"
        /\ CountsAt(w, q)'
    <3>1. CASE Tried(w, q)
      <4>1. mem[w].back = "close"
        BY <3>1, <1>b DEF Tried, AlertSteps
      <4>2. \A m \in Mem : m.task \in BOOLEAN /\ m.owes \in BOOLEAN
        BY DEF Mem
      <4>3. text[q].task \in BOOLEAN /\ text'[q].task \in BOOLEAN
        BY <1>0 DEF TextRow
      <4>4. pc[w] \notin AlertSteps /\ pc[w] \notin {"close", "catch"}
        BY <3>1 DEF Tried, AlertSteps
      <4>5. /\ text'[q].st = "in_flight" /\ ~text'[q].old /\ text'[q].alert = text[q].alert
            /\ mem'[w].back = "close" /\ mem'[w].owes = mem[w].owes
            /\ pc'[w] \in {"create", "stampTask"} => ~mem'[w].task
            /\ pc'[w] \in AlertSteps => mem'[w].owes
        BY <3>1, <4>1, <2>7, <1>a DEF Tried, Still, Move, Follows, AlertSteps
      <4>6. mem'[w].task = text'[q].task
        BY <3>1, <4>1, <4>2, <4>3, <2>7 DEF Tried, Still, Move, Follows
      <4>7. CountsAt(w, q)'
        BY SMTT(20), <3>1, <2>2, <2>7, <4>1, <1>0, <1>a DEF Tried, Still, Move, CountsAt
      <4> QED
        BY <4>4, <4>5, <4>6, <4>7, <2>7
    <3>2. CASE Alerted(w, q)
      BY <3>2, <2>2, <2>7, <1>0, <1>b, <1>k DEF Alerted, Still, Move, Follows, CountsAt, AlertSteps, RowSteps
    <3>3. CASE Ended(w, q)
      BY <3>3, <2>2, <1>0 DEF Ended, Move, CountsAt, RowSteps
    <3> QED
      BY <1>m, <3>1, <3>2, <3>3
  <2>9. OwnInv(w, q)'
    BY <2>6, <2>8 DEF OwnInv, Works
  <2>10. pc'[w] \in {"stampTask", "stampEmail"} => Works(w, q)'
    BY <1>r DEF Works, RowSteps
  <2> QED
    BY <2>1, <2>5, <2>6, <2>8, <2>9, <2>10, Sole DEF PerText
<1> QED
  BY <1>i, <1>1, <1>2 DEF OnceInv

\* A text nobody has business with counts no more than what was lost of it.
LEMMA FreeCounts ==
  ASSUME NEW t \in Texts, NEW w \in Replicas, PerText(t), \A v \in Replicas : ~Works(v, t),
         text'[t].task = text[t].task, text'[t].alert = text[t].alert,
         made'[t] = made[t], mails'[t] = mails[t], unheard'[t] = unheard[t]
  PROVE  CountsAt(w, t)'
<1>1. ~Stamping(t, "stampTask") /\ ~Stamping(t, "stampEmail")
  BY DEF Stamping
<1> QED
  BY <1>1 DEF PerText, Counts, CountsAt

LEMMA OnceReap ==
  ASSUME TextAssumption, Types, Types', OnceInv, NEW w \in Replicas, Reap(w), pc'[w] = "final", NEW t \in Texts \ overrun,
         \A v \in Replicas : v # w => pc'[v] = pc[v] /\ mem'[v] = mem[v],
         UNCHANGED <<made, mails, unheard, backfill>>
  PROVE  PerText(t)'
<1>0. TypeRows /\ TypeReplicas /\ PerText(t)
  BY Here DEF OnceInv
<1>1. /\ t \notin Old => text'[t] = text[t]
      /\ t \in Old => /\ text[t].st = "in_flight" /\ text[t].old /\ ~text'[t].old
                      /\ text'[t].st = IF text[t].tries < MaxTries THEN "pending" ELSE "failed"
      /\ text'[t].task = text[t].task /\ text'[t].alert = text[t].alert
  BY <1>0, ReapFacts
<1>2. /\ \A v \in Replicas : v # w => stuck'[v] = stuck[v]
      /\ \A m \in stuck'[w] : /\ m.row \in Old /\ text[m.row].tries >= MaxTries /\ OwesAlert(m.row)
                              /\ m = [Memory(m.row) EXCEPT !.back = "final"]
  BY <1>0, ReapStuck
<1>3. pc[w] = "idle" /\ ~Works(w, t) /\ ~Works(w, t)'
  BY DEF Reap, At, Works, RowSteps
<1>4. CASE t \notin Old
  <2>1. ~Queued(w, t)'
    BY <1>2, <1>4 DEF Queued
  <2> QED
    BY <1>0, <1>1, <1>2, <1>3, <1>4, <2>1, Untouched
<1>5. CASE t \in Old
  <2>1. \A v \in Replicas : ~Busy(v, t)
    BY <1>0, <1>1, <1>5 DEF PerText, OwnInv, QueueInv, Busy
  <2>2. \A v \in Replicas : Busy(v, t)' => v = w
    BY <1>2, <2>1 DEF Busy, Works, Queued
  <2>3. OwnInv(w, t)'
    BY <1>3 DEF OwnInv
  <2>4. QueueInv(w, t)'
    <3>1. Queued(w, t)' => text'[t].st = "failed" /\ text'[t].alert = "none"
      <4> SUFFICES ASSUME NEW m \in stuck'[w], m.row = t PROVE text'[t].st = "failed" /\ text'[t].alert = "none"
        BY DEF Queued
      <4>1. text[t].tries >= MaxTries /\ text[t].alert = "none"
        BY <1>2 DEF OwesAlert
      <4>2. text[t].tries \in Nat /\ MaxTries \in Nat
        BY <1>0 DEF TypeRows, TextRow, TextAssumption
      <4> QED
        BY <1>1, <1>5, <4>1, <4>2
    <3>2. \A m, n \in stuck'[w] : m.row = t /\ n.row = t => m = n
      <4> DEFINE F(y) == [Memory(y) EXCEPT !.back = "final"]
      <4>1. \A m \in stuck'[w] : m = F(m.row)
        BY <1>2
      <4> HIDE DEF F
      <4> QED
        BY <4>1
    <3> QED
      BY <3>1, <3>2 DEF QueueInv
  <2>5. CountsAt(w, t)'
    BY <1>0, <1>1, <2>1, FreeCounts DEF Busy
  <2> QED
    BY <1>0, <1>3, <2>2, <2>3, <2>4, <2>5, Sole DEF PerText, Reap
<1> QED
  BY <1>4, <1>5

LEMMA OnceFinal ==
  ASSUME TextAssumption, Types, Types', ToldInv, OnceInv, NEW w \in Replicas, FinalAlert(w), text' = text,
         NEW x \in stuck[w], pc'[w] = "alert", mem'[w] = x, stuck' = [stuck EXCEPT ![w] = @ \ {x}],
         NEW t \in Texts \ overrun,
         \A v \in Replicas : v # w => pc'[v] = pc[v] /\ mem'[v] = mem[v],
         UNCHANGED <<made, mails, unheard, backfill>>
  PROVE  PerText(t)'
<1>0. TypeRows /\ TypeReplicas /\ PerText(t)
  BY Here DEF OnceInv
<1>1. pc[w] = "final" /\ ~Works(w, t)
  BY DEF FinalAlert, At, Works, RowSteps
<1>2. /\ \A v \in Replicas : v # w => stuck'[v] = stuck[v]
      /\ stuck'[w] = stuck[w] \ {x}
  BY <1>0 DEF TypeReplicas
<1>3. CASE x.row # t
  <2>1. ~Works(w, t)'
    BY <1>3 DEF Works
  <2>2. \A v \in Replicas : stuck'[v] \subseteq stuck[v]
    BY <1>2
  <2> QED
    BY <1>0, <1>1, <2>1, <2>2, Untouched
<1>4. CASE x.row = t
  <2>1. Queued(w, t)
    BY <1>4 DEF Queued
  <2>2. \A v \in Replicas : Busy(v, t) => v = w
    BY <1>0, <2>1 DEF PerText, OneBusy, Busy
  <2>3. \A v \in Replicas : Busy(v, t)' => v = w
    BY <1>2, <2>2 DEF Busy, Works, Queued
  <2>4. ~Queued(w, t)' /\ QueueInv(w, t)'
    BY <1>0, <1>2, <1>4 DEF Queued, QueueInv, PerText
  <2>5. OwnInv(w, t)'
    <3>1. text[t].st = "failed" /\ text[t].alert = "none"
      BY <1>0, <2>1 DEF PerText, QueueInv
    <3>2. x.back = "final" /\ x.owes
      BY DEF ToldInv, OwedInv
    <3> QED
      BY <2>4, <3>1, <3>2 DEF OwnInv
  <2>6. CountsAt(w, t)'
    BY <1>0, <1>1, <2>2, FreeCounts DEF Busy
  <2> QED
    BY <1>0, <2>3, <2>4, <2>5, <2>6, Sole DEF PerText
<1> QED
  BY <1>3, <1>4

\* A claim, to work on the text or to give it up.
LEMMA OnceClaim ==
  ASSUME TextAssumption, Types, Types', OnceInv, NEW w \in Replicas, pc[w] = "scan", stuck' = stuck,
         NEW u \in Texts, text[u].st = "pending", NEW r \in TextRow, Patch(u, r),
         r.task = text[u].task, r.alert = text[u].alert,
         pc'[w] \in RowSteps =>
           /\ mem'[w].row = u
           /\ \/ /\ pc'[w] = "match" /\ mem'[w].back = "close" /\ r.st = "in_flight" /\ mem'[w].task = text[u].task
                 /\ mem'[w].owes = OwesAlert(u)
              \/ /\ pc'[w] = "alert" /\ mem'[w].back = "scan" /\ r.st = "failed" /\ mem'[w].owes /\ OwesAlert(u),
         NEW t \in Texts \ overrun,
         \A v \in Replicas : v # w => pc'[v] = pc[v] /\ mem'[v] = mem[v],
         UNCHANGED <<made, mails, unheard, backfill>>
  PROVE  PerText(t)'
<1>0. TypeRows /\ TypeReplicas /\ PerText(t)
  BY Here DEF OnceInv
<1>1. ~Works(w, t)
  BY DEF Works, RowSteps
<1>2. /\ \A y \in Texts : y # u => text'[y] = text[y]
      /\ text'[u].st = r.st /\ text'[u].task = r.task /\ text'[u].alert = r.alert /\ ~text'[u].old
  BY <1>0, PatchFacts
<1>3. CASE t # u
  <2>1. ~Works(w, t)'
    BY <1>3 DEF Works
  <2> QED
    BY <1>0, <1>1, <1>2, <1>3, <2>1, Untouched
<1>4. CASE t = u
  <2>1. \A v \in Replicas : ~Busy(v, t)
    BY <1>0, <1>4 DEF PerText, OwnInv, QueueInv, Busy
  <2>2. \A v \in Replicas : Busy(v, t)' => v = w
    BY <2>1 DEF Busy, Works, Queued
  <2>3. ~Queued(w, t)' /\ QueueInv(w, t)'
    BY <2>1 DEF Queued, QueueInv, Busy
  <2>4. OwnInv(w, t)'
    <3>1. OwesAlert(u) => text[u].alert = "none"
      BY DEF OwesAlert
    <3> QED
      BY <1>2, <1>4, <2>3, <3>1 DEF OwnInv, Works, AlertSteps
  <2>5. CountsAt(w, t)'
    BY <1>0, <1>2, <1>4, <2>1, FreeCounts DEF Busy
  <2>6. pc'[w] \notin {"stampTask", "stampEmail"}
    BY DEF RowSteps
  <2> QED
    BY <1>0, <2>2, <2>3, <2>4, <2>5, <2>6, Sole DEF PerText
<1> QED
  BY <1>3, <1>4

LEMMA OnceTick ==
  ASSUME TextAssumption, Types, Types', ToldInv, OnceInv, NEW w \in Replicas, Tick(w)
  PROVE  OnceInv'
<1>0. TypeRows /\ TypeReplicas
  BY Here
<1>1. UNCHANGED <<made, mails, unheard, overrun>>
  BY TickKeeps DEF sent
<1>v. backfill' = backfill /\ \A v \in Replicas : v # w => pc'[v] = pc[v] /\ mem'[v] = mem[v]
  BY <1>0, Goes, GotoFacts DEF Act
<1>2. SUFFICES ASSUME NEW t \in Texts \ overrun PROVE PerText(t)'
  BY <1>1 DEF OnceInv
<1>3. CASE Reap(w) /\ pc'[w] = "final"
  BY <1>1, <1>v, <1>3, OnceReap
<1>4. CASE /\ \E m \in stuck[w] : pc'[w] = "alert" /\ mem'[w] = m /\ stuck' = [stuck EXCEPT ![w] = @ \ {m}]
           /\ FinalAlert(w) /\ text' = text
  BY <1>1, <1>v, <1>4, OnceFinal
<1>5. CASE /\ Claim(w) /\ stuck' = stuck
           /\ \E u \in Texts : /\ text[u].st = "pending" /\ Patch(u, Claimed(u)) /\ pc'[w] = "match"
                               /\ mem'[w].row = u /\ mem'[w].task = text[u].task /\ mem'[w].owes = OwesAlert(u)
                               /\ mem'[w].back = "close"
  <2>1. PICK u \in Texts : /\ text[u].st = "pending" /\ Patch(u, Claimed(u)) /\ pc'[w] = "match"
                           /\ mem'[w].row = u /\ mem'[w].task = text[u].task /\ mem'[w].owes = OwesAlert(u)
                           /\ mem'[w].back = "close"
    BY <1>5
  <2>2. /\ Claimed(u) \in TextRow /\ Claimed(u).st = "in_flight" /\ Claimed(u).task = text[u].task
        /\ Claimed(u).alert = text[u].alert
    BY <1>0, ClaimedType
  <2>3. pc[w] = "scan" /\ stuck' = stuck
    BY <1>5 DEF Claim, At
  <2> QED
    BY <1>1, <1>v, <2>1, <2>2, <2>3, OnceClaim
<1>6. CASE /\ GiveUp(w) /\ stuck' = stuck
           /\ \E u \in Texts : /\ text[u].st = "pending" /\ Patch(u, [Claimed(u) EXCEPT !.st = "failed"])
                               /\ IF OwesAlert(u)
                                  THEN /\ pc'[w] = "alert" /\ mem'[w].row = u /\ mem'[w].task = text[u].task
                                       /\ mem'[w].owes /\ mem'[w].back = "scan"
                                  ELSE pc'[w] = "scan"
  <2>1. PICK u \in Texts : /\ text[u].st = "pending" /\ Patch(u, [Claimed(u) EXCEPT !.st = "failed"])
                           /\ IF OwesAlert(u)
                              THEN /\ pc'[w] = "alert" /\ mem'[w].row = u /\ mem'[w].task = text[u].task
                                   /\ mem'[w].owes /\ mem'[w].back = "scan"
                              ELSE pc'[w] = "scan"
    BY <1>6
  <2> DEFINE r == [Claimed(u) EXCEPT !.st = "failed"]
  <2>2. /\ Claimed(u) \in TextRow /\ r \in TextRow /\ Claimed(u).task = text[u].task
        /\ Claimed(u).alert = text[u].alert
    BY <1>0, ClaimedType
  <2>3. r.st = "failed" /\ r.task = text[u].task /\ r.alert = text[u].alert
    BY <2>2 DEF TextRow
  <2>4. pc[w] = "scan" /\ stuck' = stuck
    BY <1>6 DEF GiveUp, At
  <2>5. Patch(u, r)
    BY <2>1
  <2>6. pc'[w] \in RowSteps => /\ mem'[w].row = u /\ pc'[w] = "alert" /\ mem'[w].back = "scan" /\ mem'[w].owes /\ OwesAlert(u)
    BY <2>1 DEF RowSteps
  <2> HIDE DEF r
  <2> QED
    BY <1>1, <1>v, <2>1, <2>2, <2>3, <2>4, <2>5, <2>6, OnceClaim
<1>7. CASE text' = text /\ stuck' = stuck /\ pc'[w] \notin RowSteps /\ pc[w] \notin RowSteps
  <2>1. ~Works(w, t) /\ ~Works(w, t)'
    BY <1>7 DEF Works
  <2> QED
    BY <1>1, <1>v, <1>7, <2>1, Untouched DEF OnceInv
<1> QED
  BY <1>3, <1>4, <1>5, <1>6, <1>7, TickMoves

LEMMA OnceCrash ==
  ASSUME TextAssumption, Types, Types', OnceInv, NEW w \in Replicas, Crash(w)
  PROVE  OnceInv'
<1>0. TypeRows /\ TypeReplicas /\ TypeCounts /\ w \in DOMAIN pc
  BY Here
<1>1. UNCHANGED <<text, made, mails, overrun>> /\ pc'[w] = "idle"
  BY <1>0 DEF Crash, Goto
<1>v. backfill' = backfill /\ \A v \in Replicas : v # w => pc'[v] = pc[v] /\ mem'[v] = mem[v]
  BY <1>0, Goes, GotoFacts DEF Act, Failure
<1>s. /\ \A v \in Replicas : stuck'[v] \subseteq stuck[v]
      /\ stuck'[w] = {}
  BY <1>0 DEF Crash, TypeReplicas
<1>2. SUFFICES ASSUME NEW t \in Texts \ overrun PROVE PerText(t)'
  BY <1>1 DEF OnceInv
<1>3. PerText(t) /\ ~Works(w, t)'
  BY <1>1 DEF OnceInv, Works, RowSteps
<1>u. /\ unheard[t] \in Nat /\ made[t] \in Nat /\ mails[t] \in Nat /\ unheard'[t] >= unheard[t]
      /\ Works(w, t) /\ pc[w] \in {"stampTask", "stampEmail"} => unheard'[t] = unheard[t] + 1
      /\ ~Works(w, t) => unheard'[t] = unheard[t]
  <2>1. unheard[t] \in Nat /\ made[t] \in Nat /\ mails[t] \in Nat /\ mem[w].row \in Texts
    BY <1>0, Here DEF TypeCounts
  <2>2. CASE pc[w] \in {"stampTask", "stampEmail"}
    <3>1. \A x \in Texts : unheard'[x] = IF x = mem[w].row THEN unheard[x] + 1 ELSE unheard[x]
      BY <1>0, <2>1, <2>2, PlusFacts DEF Crash, Plus, TypeCounts
    <3> QED
      BY <2>1, <2>2, <3>1 DEF Works, RowSteps
  <2>3. CASE pc[w] \notin {"stampTask", "stampEmail"}
    BY <2>1, <2>3 DEF Crash
  <2> QED
    BY <2>2, <2>3
<1>4. CASE ~Works(w, t)
  BY <1>1, <1>v, <1>s, <1>3, <1>4, <1>u, Untouched
<1>5. CASE Works(w, t)
  <2>1. \A v \in Replicas : Busy(v, t) => v = w
    BY <1>3, <1>5 DEF PerText, OneBusy, Busy
  <2>2. \A v \in Replicas : ~Busy(v, t)'
    BY <1>v, <1>s, <1>3, <2>1 DEF Busy, Works, Queued
  <2>3. CountsAt(w, t)
    BY <1>3, <1>5, CountsSole DEF PerText
  <2>4. CountsAt(w, t)'
    <3>1. text'[t].task = text[t].task /\ text'[t].alert = text[t].alert /\ made'[t] = made[t] /\ mails'[t] = mails[t]
      BY <1>1
    <3>2. unheard'[t] \in Nat
      BY <1>0 DEF Types, TypeCounts
    <3>3. CASE pc[w] \in {"stampTask", "stampEmail"}
      <4>1. unheard'[t] = unheard[t] + 1
        BY <1>5, <1>u, <3>3
      <4> QED
        BY <1>u, <2>3, <3>1, <4>1 DEF CountsAt
    <3>4. CASE pc[w] \notin {"stampTask", "stampEmail"}
      BY <1>u, <2>3, <3>1, <3>2, <3>4 DEF CountsAt
    <3> QED
      BY <3>3, <3>4
  <2>5. OwnInv(w, t)' /\ QueueInv(w, t)'
    BY <2>2, <1>s DEF Busy, OwnInv, QueueInv
  <2> QED
    BY <1>1, <1>3, <2>2, <2>4, <2>5, Sole DEF PerText
<1> QED
  BY <1>4, <1>5

LEMMA OnceElse ==
  ASSUME TextAssumption, Types, Types', OnceInv,
         (\E w \in Replicas : DigestAct(w)) \/ Time \/ UNCHANGED vars
  PROVE  OnceInv'
<1>0. TypeRows /\ TypeReplicas
  BY DEF Types
<1>1. UNCHANGED <<made, mails, unheard, stuck>>
  BY DigestActKeeps, Zenon DEF Time, DigestDue, DigestStale, TextDue, TextStale, vars, sent, lists
<1>2. overrun \subseteq overrun'
  <2>1. overrun' = overrun \/ \E t \in Texts : TextStale(t)
    BY DigestActKeeps, Zenon DEF Time, DigestDue, DigestStale, TextDue, vars
  <2> QED
    BY <2>1 DEF TextStale
<1>3. SUFFICES ASSUME NEW t \in Texts \ overrun, t \notin overrun' PROVE PerText(t)'
  BY <1>2 DEF OnceInv
<1>4. \A v \in Replicas : \/ pc'[v] = pc[v] /\ mem'[v] = mem[v]
                          \/ ~Works(v, t) /\ ~Works(v, t)'
  <2>1. ASSUME NEW w \in Replicas, DigestAct(w)
        PROVE  \A v \in Replicas : \/ pc'[v] = pc[v] /\ mem'[v] = mem[v]
                                   \/ ~Works(v, t) /\ ~Works(v, t)'
    <3>1. \A v \in Replicas : v # w => pc'[v] = pc[v] /\ mem'[v] = mem[v]
      BY <1>0, <2>1, Goes, GotoFacts DEF Act, DigestAct, Failure
    <3>2. ~Works(w, t) /\ ~Works(w, t)'
      BY <2>1, DigestGoes, DigestActKeeps DEF Works, RowSteps, DigestSteps
    <3> QED
      BY <3>1, <3>2
  <2>2. CASE Time \/ UNCHANGED vars
    <3>1. pc' = pc /\ mem' = mem
      BY <2>2, Zenon DEF Time, DigestDue, DigestStale, TextDue, TextStale, vars
    <3> QED
      BY <3>1
  <2> QED
    BY <2>1, <2>2
<1>5. /\ text'[t].st = text[t].st /\ text'[t].task = text[t].task /\ text'[t].alert = text[t].alert
      /\ text'[t].old => text[t].old \/ (\A v \in Replicas : ~HeldBy(v, t))
  <2>1. CASE text' = text
    BY <2>1
  <2>2. ASSUME NEW x \in Texts, TextDue(x)
        PROVE  /\ text'[t].st = text[t].st /\ text'[t].task = text[t].task /\ text'[t].alert = text[t].alert
               /\ text'[t].old => text[t].old
    <3>1. text' = [text EXCEPT ![x].due = TRUE]
      BY <2>2 DEF TextDue
    <3> QED
      BY <1>0, <3>1 DEF TypeRows, TextRow
  <2>3. ASSUME NEW x \in Texts, TextStale(x)
        PROVE  /\ text'[t].st = text[t].st /\ text'[t].task = text[t].task /\ text'[t].alert = text[t].alert
               /\ text'[t].old => text[t].old \/ (\A v \in Replicas : ~HeldBy(v, t))
    <3>1. text' = [text EXCEPT ![x].old = TRUE]
      BY <2>3 DEF TextStale
    <3>2. text'[t].st = text[t].st /\ text'[t].task = text[t].task /\ text'[t].alert = text[t].alert
          /\ (t # x => text'[t].old = text[t].old)
      BY <1>0, <3>1 DEF TypeRows, TextRow
    <3>3. t = x => \A v \in Replicas : ~HeldBy(v, t)
      BY <1>3, <2>3 DEF TextStale
    <3> QED
      BY <3>2, <3>3
  <2>4. text' = text \/ \E x \in Texts : TextDue(x) \/ TextStale(x)
    BY DigestActKeeps, Zenon DEF Time, DigestDue, DigestStale, vars
  <2> QED
    BY <2>1, <2>2, <2>3, <2>4
<1>6. PerText(t)
  BY DEF OnceInv
<1> QED
  BY <1>1, <1>4, <1>5, <1>6, Untouched

LEMMA OnceInvHolds ==
  ASSUME TextAssumption, Types, Types', ToldInv, OnceInv, [Next]_vars
  PROVE  OnceInv'
BY OnceRow, OnceTick, OnceCrash, OnceElse, ActKinds DEF Next, Act

LEMMA OnceInvInit ==
  ASSUME TextAssumption, Init
  PROVE  OnceInv
<1>1. \A w \in Replicas : pc[w] = "idle" /\ stuck[w] = {}
  BY DEF Init
<1>2. \A t \in Texts : made[t] = 0 /\ mails[t] = 0 /\ unheard[t] = 0
  BY DEF Init
<1> QED
  BY <1>1, <1>2 DEF OnceInv, PerText, OneBusy, OwnInv, QueueInv, Counts, Busy, Works, Queued, RowSteps

\* TextQueue.ToldOnce, the second half of the run's TextToldOnce: a text whose
\* claims kept within their limit gets one Task and one alert, and one more for
\* each answer or stamp that was lost.
THEOREM ToldOnceHolds == ASSUME TextAssumption PROVE Spec => []ToldOnce
<1>1. TextAssumption /\ Types /\ Types' /\ ToldInv /\ OnceInv /\ [Next]_vars => ToldInv' /\ OnceInv'
  BY ToldInvHolds, OnceInvHolds
<1>2. OnceInv => ToldOnce
  BY DEF OnceInv, PerText, Counts, ToldOnce
<1> QED
  BY <1>1, <1>2, OnceInvInit, ToldInvInit, TypesInit, TypesHold, PTL DEF Spec

-----------------------------------------------------------------------------
(* A digest waits for its whole batch: a text that is done or failed has   *)
(* no holder left to write it, so it stays so.                             *)

FinalTexts == \A t \in Texts : text[t].st \in Terminal
BatchInv == digest.st # "none" => overrun # {} \/ FinalTexts

LEMMA FinalStays ==
  ASSUME TextAssumption, Types, Types', ToldInv, OnceInv, overrun = {}, FinalTexts, [Next]_vars
  PROVE  FinalTexts'
<1>0. TypeRows /\ TypeReplicas
  BY DEF Types
<1>1. SUFFICES ASSUME NEW t \in Texts PROVE text'[t].st = text[t].st
  BY DEF FinalTexts
<1>2. text[t].st \in {"done", "failed"} /\ PerText(t)
  BY DEF FinalTexts, Terminal, OnceInv
<1>3. ASSUME NEW w \in Replicas, RowAct(w) PROVE text'[t].st = text[t].st
  <2>q. PICK q \in Texts : q = mem[w].row
    BY Here
  <2>1. CASE q # t
    BY <1>3, <2>q, <2>1, RowActElsewhere DEF Elsewhere
  <2>2. CASE q = t
    <3>1. OwnInv(w, t) /\ Works(w, t) /\ HandInv(w)
      BY <1>2, <1>3, <2>q, <2>2, RowActKeeps DEF PerText, Works, ToldInv
    <3>2. pc[w] \notin {"close", "catch"}
      BY <1>2, <3>1 DEF OwnInv, HandInv, Works, AlertSteps
    <3>3. Tried(w, t) \/ Alerted(w, t) \/ Ended(w, t)
      BY <1>3, <2>q, <2>2, RowMoves
    <3> QED
      BY <3>2, <3>3 DEF Tried, Alerted, Ended, Still, Move
  <2> QED
    BY <2>1, <2>2
<1>4. ASSUME NEW w \in Replicas, Tick(w) PROVE text'[t].st = text[t].st
  <2>1. CASE Reap(w)
    <3>1. t \notin Old
      BY <1>2 DEF Old
    <3> QED
      BY <1>0, <2>1, <3>1, ReapFacts
  <2>2. ASSUME NEW u \in Texts, text[u].st = "pending", Patch(u, Claimed(u)) \/ Patch(u, [Claimed(u) EXCEPT !.st = "failed"])
        PROVE  text'[t].st = text[t].st
    <3>1. t # u
      BY <1>2, <2>2
    <3> QED
      BY <1>0, <2>2, <3>1, ClaimedType, PatchFacts
  <2>3. CASE text' = text
    BY <2>3
  <2> QED
    BY <1>4, <2>1, <2>2, <2>3, TickMoves
<1>5. CASE \/ (\E w \in Replicas : DigestAct(w) \/ Crash(w)) \/ DigestDue \/ DigestStale \/ UNCHANGED vars
  <2>1. text' = text
    BY <1>5, DigestActKeeps, Zenon DEF Crash, DigestDue, DigestStale, vars
  <2> QED
    BY <2>1
<1>6. ASSUME NEW u \in Texts, TextDue(u) \/ TextStale(u) PROVE text'[t].st = text[t].st
  <2>1. text' = [text EXCEPT ![u].due = TRUE] \/ text' = [text EXCEPT ![u].old = TRUE]
    BY <1>6, Zenon DEF TextDue, TextStale
  <2> QED
    BY <1>0, <2>1 DEF TypeRows, TextRow
<1> QED
  BY <1>3, <1>4, <1>5, <1>6, ActKinds DEF Next, Act, Time

LEMMA BatchInvHolds ==
  ASSUME TextAssumption, Types, Types', DigestInv, ToldInv, OnceInv, BatchInv, [Next]_vars
  PROVE  BatchInv'
<1>0. TypeRows /\ TypeReplicas /\ digest \in DigestRow
  BY DEF Types, TypeDigest
<1>1. overrun \subseteq overrun'
  <2>1. overrun' = overrun \/ \E t \in Texts : TextStale(t)
    BY ActKinds, RowActKeeps, TickKeeps, DigestActKeeps, Zenon DEF Next, Act, Crash, Time, DigestDue, DigestStale, TextDue, vars
  <2> QED
    BY <2>1 DEF TextStale
<1>2. CASE digest.st # "none"
  <2>1. CASE overrun # {}
    BY <1>1, <2>1 DEF BatchInv
  <2>2. CASE overrun = {}
    BY <1>2, <2>2, FinalStays DEF BatchInv
  <2> QED
    BY <2>1, <2>2
<1>3. CASE digest.st = "none"
  <2>1. ASSUME digest'.st # "none" PROVE FinalTexts'
    <3>1. CASE digest' = digest
      BY <1>3, <2>1, <3>1
    <3>2. CASE DigestDue \/ DigestStale
      BY <1>3, <3>2 DEF DigestDue, DigestStale
    <3>3. ASSUME NEW w \in Replicas, DigestAct(w), digest' # digest PROVE FinalTexts'
      <4>n. mem[w].tries \in Nat
        BY <1>0, ReplicaTypes, MemUpdate
      <4>1. CASE QueueDigest(w)
        BY <2>1, <3>3, <4>1 DEF QueueDigest, BatchReady, FinalTexts
      <4>2. CASE ReapDigest(w) \/ ClaimDigest(w) \/ ScanDigest(w) \/ ReadDigest(w) \/ Post(w) \/ PostUnclear(w)
        BY <1>3, <3>3, <4>2, Zenon DEF ReapDigest, ClaimDigest, ScanDigest, ReadDigest, Post, PostUnclear, post
      <4>3. CASE ReadDigestFails(w)
        <5>1. ~StillPending(w)
          BY <1>3 DEF StillPending
        <5>2. NextDigest(w, "idle", digest)
          BY <4>3, <5>1 DEF ReadDigestFails
        <5> QED
          BY <1>0, <1>3, <2>1, <5>2, NextDigestFacts
      <4>4. CASE PostRefused(w) \/ DigestClosed(w)
        <5>1. pc[w] \in InPost
          BY <4>4, Zenon DEF PostRefused, DigestClosed, At, InPost
        <5> QED
          BY <1>3, <5>1 DEF DigestInv, PosterInv
      <4> QED
        BY <3>3, <4>1, <4>2, <4>3, <4>4 DEF DigestAct, Digest
    <3>4. CASE \E w \in Replicas : Tick(w) \/ RowAct(w) \/ Crash(w)
      BY <1>3, <2>1, <3>4, TickKeeps, RowActKeeps DEF Crash, post
    <3>5. CASE \E t \in Texts : TextDue(t) \/ TextStale(t)
      BY <1>3, <2>1, <3>5, Zenon DEF TextDue, TextStale, post
    <3> QED
      BY <3>1, <3>2, <3>3, <3>4, <3>5, ActKinds DEF Next, Act, Time, vars
  <2> QED
    BY <2>1 DEF BatchInv
<1> QED
  BY <1>2, <1>3

\* TextQueue.DigestAfterBatch: unless a claim outlived its limit, a digest is
\* queued only for a batch whose every text is done or failed, and they stay so.
THEOREM DigestAfterBatchHolds == ASSUME TextAssumption PROVE Spec => []DigestAfterBatch
<1>1. TextAssumption /\ Types /\ Types' /\ DigestInv /\ ToldInv /\ OnceInv /\ BatchInv /\ [Next]_vars
        => DigestInv' /\ ToldInv' /\ OnceInv' /\ BatchInv'
  BY DigestInvStep, ToldInvHolds, OnceInvHolds, BatchInvHolds
<1>2. BatchInv => DigestAfterBatch
  BY DEF BatchInv, FinalTexts, DigestAfterBatch
<1>3. Init => BatchInv
  BY DEF Init, BatchInv, NoDigest
<1> QED
  BY <1>1, <1>2, <1>3, DigestInvInit, OnceInvInit, ToldInvInit, TypesInit, TypesHold, PTL DEF Spec
=============================================================================
