--------------------------- MODULE SamOutbox_proofs ---------------------------
(* What the outbox promises whatever the workers, emails, cap and bounds.  *)
EXTENDS SamOutbox, FiniteSetTheorems, TLAPS

-----------------------------------------------------------------------------
(* The pieces steps are made of.                                           *)

LEMMA NoRowType == NoRow \in EmailRow
BY DEF NoRow, EmailRow, RowStatus, Blocks, TenantBlocks

LEMMA NoMemType == NoMem \in Mem
<1>1. AnyEmail \in Emails
  BY OutboxAssumption DEF AnyEmail
<1> QED
  BY <1>1 DEF NoMem, Mem, Blocks, TenantBlocks

\* A tick's move to a step it has keeps the ticks' types.
LEMMA GotoType ==
  ASSUME TypeTicks, NEW w \in Workers, NEW s \in Steps, NEW m \in Mem, Goto(w, s, m)
  PROVE  /\ pc' \in [Workers -> Steps] /\ mem' \in [Workers -> Mem]
         /\ practice' = practice
         /\ \A v \in Workers : /\ pc'[v] = IF v = w THEN s ELSE pc[v]
                               /\ mem'[v] = IF v = w THEN m ELSE mem[v]
BY DEF TypeTicks, Goto

\* What a step may write into a row.
LEMMA RowFields ==
  ASSUME NEW r \in EmailRow
  PROVE  /\ \A s \in RowStatus : [r EXCEPT !.st = s] \in EmailRow
         /\ \A b \in BOOLEAN : /\ [r EXCEPT !.due = b] \in EmailRow
                               /\ [r EXCEPT !.first = b] \in EmailRow
                               /\ [r EXCEPT !.old = b] \in EmailRow
                               /\ [r EXCEPT !.stale = b] \in EmailRow
                               /\ [r EXCEPT !.id = b] \in EmailRow
         /\ \A n \in Nat : [r EXCEPT !.tries = n] \in EmailRow
         /\ \A v \in Workers \cup {"nobody"} : [r EXCEPT !.by = v] \in EmailRow
         /\ \A y \in Blocks : [r EXCEPT !.why = y] \in EmailRow
BY DEF EmailRow

LEMMA MemFields ==
  ASSUME NEW m \in Mem
  PROVE  /\ \A e \in Emails : [m EXCEPT !.row = e] \in Mem
         /\ \A n \in Nat : [m EXCEPT !.tries = n] \in Mem
         /\ \A b \in BOOLEAN : /\ [m EXCEPT !.first = b] \in Mem
                               /\ [m EXCEPT !.held = b] \in Mem
                               /\ [m EXCEPT !.escaped = b] \in Mem
         /\ \A y \in Blocks : [m EXCEPT !.block = y] \in Mem
BY DEF Mem

\* A status and the next one a step may give the row.
Onward(a, b) ==
  \/ a = b
  \/ a = "none" /\ b = "queued"
  \/ a \in {"queued", "sending"} /\ b # "none"
  \/ a = "sent" /\ b \notin {"none", "queued", "sending"}
  \/ a \in {"delivered", "failed"} /\ b \in {"bounced", "complained"}
  \/ a = "bounced" /\ b = "complained"

LEMMA OnwardRanks ==
  ASSUME NEW a \in RowStatus, NEW b \in RowStatus, Onward(a, b)
  PROVE  Rank(b) >= Rank(a)
<1>1. CASE a = b
  BY <1>1 DEF Rank, RowStatus
<1>2. CASE a = "none" /\ b = "queued"
  BY <1>2 DEF Rank
<1>3. CASE a \in {"queued", "sending"} /\ b # "none"
  BY <1>3 DEF Rank, RowStatus
<1>4. CASE a = "sent" /\ b \notin {"none", "queued", "sending"}
  BY <1>4 DEF Rank, RowStatus
<1>5. CASE a \in {"delivered", "failed"} /\ b \in {"bounced", "complained"}
  BY <1>5 DEF Rank
<1>6. CASE a = "bounced" /\ b = "complained"
  BY <1>6 DEF Rank
<1> QED
  BY <1>1, <1>2, <1>3, <1>4, <1>5, <1>6 DEF Onward

\* A row keeps what dates its key, and an unused row has no key.
Dated(r, s) ==
  /\ r.first => s.first
  /\ r.old => s.old
  /\ s.st = "none" => ~s.first /\ ~s.old
\* A row as a step may leave it, from the row it was.
Written(r, s) ==
  /\ s \in EmailRow
  /\ s.st = "sending" => s.by # "nobody"
  /\ (r.st = "none" => ~r.first /\ ~r.old) => Dated(r, s)
  /\ Onward(r.st, s.st)
Writes == \A e \in Emails : row'[e] = row[e] \/ Written(row[e], row'[e])

LEMMA WritesType ==
  ASSUME TypeRows, row' \in [Emails -> EmailRow], Writes
  PROVE  TypeRows'
BY DEF TypeRows, Writes, Written

LEMMA RowWritten ==
  ASSUME TypeRows, NEW e \in Emails, NEW r, Written(row[e], r), row' = [row EXCEPT ![e] = r]
  PROVE  row' \in [Emails -> EmailRow] /\ Writes
BY DEF TypeRows, Writes, Written

\* settle writes the tick's row, or nothing.
LEMMA SettleWrites ==
  ASSUME TypeRows, NEW w \in Workers, mem[w] \in Mem, NEW r \in EmailRow,
         Settle(w, r), Holds(w) => Written(Row(w), r)
  PROVE  row' \in [Emails -> EmailRow] /\ Writes
<1>1. mem[w].row \in Emails
  BY DEF Mem
<1> QED
  BY <1>1 DEF TypeRows, Settle, Writes, Row

\* What Requeued, Failed and the other writes of a held row make of it.
LEMMA SettledRows ==
  ASSUME TypeRows, NEW e \in Emails, row[e].st = "sending"
  PROVE  /\ Written(row[e], Requeued(row[e])) /\ Written(row[e], Failed(row[e]))
         /\ \A n \in Nat : Written(row[e], [Requeued(row[e]) EXCEPT !.tries = n])
         /\ \A b \in Blocks : Written(row[e], [row[e] EXCEPT !.st = "canceled", !.why = b, !.stale = FALSE])
         /\ Written(row[e], [row[e] EXCEPT !.first = TRUE])
         /\ Written(row[e], [row[e] EXCEPT !.st = "sent", !.id = TRUE, !.stale = FALSE])
BY DEF Onward, TypeRows, Written, Dated, Requeued, Failed, EmailRow, RowStatus

-----------------------------------------------------------------------------
(* Every step writes rows only as Written allows.                          *)

LEMMA SettlingWrites ==
  ASSUME TypeOK, NEW w \in Workers,
         Wait(w) \/ Cancel(w) \/ FailBeforeSend(w) \/ Commit(w) \/ MarkSent(w) \/ Retry(w)
  PROVE  row' \in [Emails -> EmailRow] /\ Writes
<1> USE DEF TypeOK
<1>1. mem[w] \in Mem /\ mem[w].row \in Emails /\ Row(w) \in EmailRow
  BY DEF TypeTicks, TypeRows, Mem, Row
<1>2. Holds(w) => Row(w).st = "sending"
  BY DEF Holds
<1>3. CASE Wait(w)
  <2>1. PICK tooLate \in BOOLEAN :
          Settle(w, IF tooLate THEN Failed(Row(w))
                    ELSE [Requeued(Row(w)) EXCEPT !.tries = IF @ = 0 THEN 0 ELSE @ - 1])
    BY <1>3 DEF Wait
  <2>2. Requeued(Row(w)) \in EmailRow /\ Failed(Row(w)) \in EmailRow
    BY <1>1 DEF Requeued, Failed, EmailRow, RowStatus
  <2>3. (IF Requeued(Row(w)).tries = 0 THEN 0 ELSE Requeued(Row(w)).tries - 1) \in Nat
    BY <2>2 DEF EmailRow
  <2>4. [Requeued(Row(w)) EXCEPT !.tries = IF @ = 0 THEN 0 ELSE @ - 1] \in EmailRow
    BY <2>2, <2>3, RowFields
  <2>5. Holds(w) => Written(Row(w), [Requeued(Row(w)) EXCEPT !.tries = IF @ = 0 THEN 0 ELSE @ - 1])
    BY <1>1, <1>2, <2>3, SettledRows DEF Row
  <2>6. Holds(w) => Written(Row(w), Failed(Row(w)))
    BY <1>1, <1>2, SettledRows DEF Row
  <2>7. CASE tooLate
    BY <1>1, <2>1, <2>2, <2>6, <2>7, SettleWrites
  <2>8. CASE ~tooLate
    BY <1>1, <2>1, <2>4, <2>5, <2>8, SettleWrites
  <2> QED
    BY <2>7, <2>8
<1>4. CASE Cancel(w)
  <2>1. [Row(w) EXCEPT !.st = "canceled", !.why = mem[w].block, !.stale = FALSE] \in EmailRow
    BY <1>1 DEF EmailRow, RowStatus, Mem
  <2>2. Holds(w) => Written(Row(w), [Row(w) EXCEPT !.st = "canceled", !.why = mem[w].block, !.stale = FALSE])
    BY <1>1, <1>2, SettledRows DEF Row, Mem
  <2> QED
    BY <1>1, <1>4, <2>1, <2>2, SettleWrites DEF Cancel
<1>5. CASE FailBeforeSend(w)
  <2>1. Failed(Row(w)) \in EmailRow
    BY <1>1 DEF Failed, EmailRow, RowStatus
  <2>2. Holds(w) => Written(Row(w), Failed(Row(w)))
    BY <1>1, <1>2, SettledRows DEF Row
  <2> QED
    BY <1>1, <1>5, <2>1, <2>2, SettleWrites DEF FailBeforeSend
<1>6. CASE Commit(w)
  <2>1. [Row(w) EXCEPT !.first = TRUE] \in EmailRow
    BY <1>1 DEF EmailRow
  <2>2. Holds(w) => Written(Row(w), [Row(w) EXCEPT !.first = TRUE])
    BY <1>1, <1>2, SettledRows DEF Row
  <2> QED
    BY <1>1, <1>6, <2>1, <2>2, SettleWrites DEF Commit
<1>7. CASE MarkSent(w)
  <2>1. [Row(w) EXCEPT !.st = "sent", !.id = TRUE, !.stale = FALSE] \in EmailRow
    BY <1>1 DEF EmailRow, RowStatus
  <2>2. Holds(w) => Written(Row(w), [Row(w) EXCEPT !.st = "sent", !.id = TRUE, !.stale = FALSE])
    BY <1>1, <1>2, SettledRows DEF Row
  <2> QED
    BY <1>1, <1>7, <2>1, <2>2, SettleWrites DEF MarkSent
<1>8. CASE Retry(w)
  <2>1. Requeued(Row(w)) \in EmailRow /\ Failed(Row(w)) \in EmailRow
    BY <1>1 DEF Requeued, Failed, EmailRow, RowStatus
  <2>2. Holds(w) => Written(Row(w), Requeued(Row(w))) /\ Written(Row(w), Failed(Row(w)))
    BY <1>1, <1>2, SettledRows DEF Row
  <2> DEFINE r == IF At(w, "retry") /\ mem[w].tries < MaxAttempts THEN Requeued(Row(w)) ELSE Failed(Row(w))
  <2>3. Settle(w, r)
    BY <1>8 DEF Retry
  <2>4. r \in EmailRow /\ (Holds(w) => Written(Row(w), r))
    BY <2>1, <2>2
  <2> HIDE DEF r
  <2> QED
    BY <1>1, <2>3, <2>4, SettleWrites
<1> QED
  BY <1>3, <1>4, <1>5, <1>6, <1>7, <1>8

LEMMA ReapWrites ==
  ASSUME TypeOK, NEW w \in Workers, Reap(w)
  PROVE  row' \in [Emails -> EmailRow] /\ Writes
<1> USE DEF TypeOK
<1>1. ASSUME NEW e \in Emails
      PROVE  Reaped(row[e]) \in EmailRow /\ (Reaped(row[e]) = row[e] \/ Written(row[e], Reaped(row[e])))
  <2>1. row[e] \in EmailRow
    BY DEF TypeRows
  <2>2. CASE row[e].st # "sending" \/ ~row[e].stale
    BY <2>1, <2>2 DEF Reaped
  <2>3. CASE row[e].st = "sending" /\ row[e].stale /\ ((row[e].first /\ row[e].old) \/ row[e].tries >= MaxAttempts)
    <3>1. Reaped(row[e]) = [row[e] EXCEPT !.st = "failed", !.stale = FALSE]
      BY <2>3 DEF Reaped
    <3> QED
      BY <2>1, <2>3, <3>1 DEF Onward, Written, Dated, EmailRow, RowStatus
  <2>4. CASE row[e].st = "sending" /\ row[e].stale /\ ~((row[e].first /\ row[e].old) \/ row[e].tries >= MaxAttempts)
    <3>1. Reaped(row[e]) = [row[e] EXCEPT !.st = "queued", !.by = "nobody", !.due = TRUE, !.stale = FALSE]
      BY <2>4 DEF Reaped
    <3> QED
      BY ZenonT(30), <2>1, <2>4, <3>1 DEF Onward, Written, Dated, EmailRow, RowStatus
  <2> QED
    BY <2>1, <2>2, <2>3, <2>4 DEF EmailRow
<1> QED
  BY <1>1 DEF Reap, Writes

LEMMA ClaimWrites ==
  ASSUME TypeOK, NEW w \in Workers, Claim(w)
  PROVE  row' \in [Emails -> EmailRow] /\ Writes
<1> USE DEF TypeOK
<1>1. PICK e \in due[w] :
        IF row[e].st = "queued" /\ row[e].due
        THEN row' = [row EXCEPT ![e].st = "sending", ![e].tries = @ + 1, ![e].by = w, ![e].stale = FALSE]
        ELSE row' = row
  BY DEF Claim
<1>2. e \in Emails /\ row[e] \in EmailRow
  BY DEF TypeTicks, TypeRows
<1>3. CASE row[e].st = "queued" /\ row[e].due
  <2> DEFINE r == [row[e] EXCEPT !.st = "sending", !.tries = @ + 1, !.by = w, !.stale = FALSE]
  <2>1. row' = [row EXCEPT ![e] = r]
    BY <1>1, <1>2, <1>3 DEF TypeRows
  <2>4. row[e].tries + 1 \in Nat
    BY <1>2 DEF EmailRow
  <2>5. r \in EmailRow
    BY <1>2, <2>4 DEF EmailRow, RowStatus
  <2>2. Written(row[e], r)
    <3>1. r.st = "sending" /\ r.by = w /\ r.first = row[e].first /\ r.old = row[e].old
      BY <1>2 DEF EmailRow
    <3> HIDE DEF r
    <3> QED  BY <1>2, <1>3, <2>5, <3>1, OutboxAssumption DEF Onward, Written, Dated
  <2>3. \A i \in Emails \ {e} : row'[i] = row[i]
    BY <2>1 DEF TypeRows
  <2> HIDE DEF r
  <2> QED
    BY <1>2, <2>1, <2>2, <2>3, RowWritten
<1>4. CASE ~(row[e].st = "queued" /\ row[e].due)
  BY <1>1, <1>4 DEF TypeRows, Writes
<1> QED
  BY <1>3, <1>4

\* Queueing, time and the delivery events.
LEMMA OutsideWrites ==
  ASSUME TypeOK, NEW e \in Emails,
         \/ \E p \in Purposes : Queue(e, p)
         \/ Due(e) \/ Stale(e) \/ KeyAges(e)
         \/ Delivered(e) \/ Undelivered(e) \/ Bounced(e) \/ Complained(e)
  PROVE  row' \in [Emails -> EmailRow] /\ Writes
<1> USE DEF TypeOK
<1>1. row[e] \in EmailRow
  BY DEF TypeRows
<1>2. ASSUME NEW p \in Purposes, Queue(e, p) PROVE row' \in [Emails -> EmailRow] /\ Writes
  <2> DEFINE r == [NoRow EXCEPT !.st = "queued", !.purpose = p, !.due = practice \/ seller.hours]
  <2>1. row' = [row EXCEPT ![e] = r] /\ row[e].st = "none"
    BY <1>2 DEF Queue
  <2>2. practice \/ seller.hours \in BOOLEAN
    BY DEF TypeWorld, Seller
  <2>3. r \in EmailRow
    BY <2>2, NoRowType DEF EmailRow, RowStatus
  <2>4. r.st = "queued" /\ r.first = FALSE /\ r.old = FALSE
    BY DEF NoRow
  <2>5. \A i \in Emails \ {e} : row'[i] = row[i]
    BY <2>1 DEF TypeRows
  <2>6. Written(row[e], r)
    <3> HIDE DEF r
    <3> QED  BY <2>1, <2>3, <2>4 DEF Onward, Written, Dated
  <2> HIDE DEF r
  <2> QED
    BY <2>1, <2>5, <2>6, RowWritten
<1>3. CASE Due(e)
  BY <1>1, <1>3 DEF Onward, Due, TypeRows, Writes, Written, Dated, EmailRow
<1>4. CASE Stale(e)
  BY <1>1, <1>4 DEF Onward, Stale, TypeRows, Writes, Written, Dated, EmailRow
<1>5. CASE KeyAges(e)
  BY <1>1, <1>5 DEF Onward, KeyAges, TypeRows, Writes, Written, Dated, EmailRow
<1>6. CASE Delivered(e) \/ Undelivered(e) \/ Bounced(e) \/ Complained(e)
  <2> DEFINE To(s) == row' = [row EXCEPT ![e].st = s] /\ Onward(row[e].st, s)
  <2>2. Delivered(e) => To("delivered")
    BY DEF Delivered, Move, Onward
  <2>3. Undelivered(e) => To("failed")
    BY DEF Undelivered, Move, Onward
  <2>4. Bounced(e) => To("bounced")
    BY DEF Bounced, Move, Onward
  <2>5. Complained(e) => To("complained")
    BY DEF Complained, Move, Onward
  <2>1. \E s \in RowStatus \ {"none", "sending"} : To(s)
    BY <1>6, <2>2, <2>3, <2>4, <2>5 DEF RowStatus
  <2> QED
    BY <1>1, <2>1 DEF TypeRows, Writes, Written, Dated, EmailRow
<1> QED
  BY <1>2, <1>3, <1>4, <1>5, <1>6

-----------------------------------------------------------------------------
(* Types, one lemma per family of steps.                                   *)

\* Every step of a tick moves its pc and mem within their types.
LEMMA TickTypes ==
  ASSUME TypeOK, NEW w \in Workers, Tick(w) \/ Work(w) \/ Failure(w)
  PROVE  TypeTicks' /\ practice' = practice
<1> USE DEF TypeOK
<1>1. mem[w] \in Mem /\ mem[w].row \in Emails /\ Row(w) \in EmailRow /\ NoMem \in Mem
  BY NoMemType DEF TypeTicks, TypeRows, Mem, Row
<1>2. ASSUME NEW s \in Steps, NEW m \in Mem, Goto(w, s, m), UNCHANGED <<tick, excused>>
      PROVE  TypeTicks' /\ practice' = practice
  BY <1>2, GotoType DEF tick, TypeTicks
<1>3. CASE Reap(w)
  BY <1>1, <1>3, GotoType DEF Reap, TypeTicks, Steps
<1>4. CASE List(w)
  BY <1>1, <1>4, GotoType DEF List, TypeTicks, Steps
<1>5. CASE Claim(w)
  <2>1. PICK e \in due[w] : /\ due' = [due EXCEPT ![w] = @ \ {e}]
                            /\ \/ Goto(w, "scan", NoMem)
                               \/ Goto(w, "facts", [NoMem EXCEPT !.row = e, !.tries = row[e].tries + 1,
                                                                 !.first = row[e].first])
    BY <1>5 DEF Claim
  <2>2. e \in Emails /\ row[e].tries + 1 \in Nat /\ row[e].first \in BOOLEAN
    BY DEF TypeTicks, TypeRows, EmailRow
  <2>3. [NoMem EXCEPT !.row = e, !.tries = row[e].tries + 1, !.first = row[e].first] \in Mem
    BY <1>1, <2>2 DEF Mem
  <2>4. late' = late /\ excused' = excused
    BY <1>5 DEF Claim
  <2> QED
    BY <1>1, <2>1, <2>3, <2>4, GotoType DEF TypeTicks, Steps
<1>6. CASE EndTick(w)
  BY <1>1, <1>6, GotoType DEF EndTick, TypeTicks, Steps
<1>7. CASE ReadFacts(w)
  <2>1. SwitchBlock \in Blocks /\ (~practice /\ ConversationHolds(Row(w).purpose)) \in BOOLEAN
    BY DEF SwitchBlock, Blocks, TenantBlocks
  <2>2. [mem[w] EXCEPT !.block = SwitchBlock, !.held = ~practice /\ ConversationHolds(Row(w).purpose)] \in Mem
    BY <1>1, <2>1 DEF Mem
  <2> QED
    BY <1>2, <1>7, <2>2 DEF ReadFacts, Steps
<1>8. CASE ReadAddress(w)
  <2> DEFINE held == mem[w].held \/ (~practice /\ (seller.barred \/ (Row(w).purpose = "first" /\ ~seller.warm)))
             block == IF mem[w].block # "ok" THEN mem[w].block ELSE IF held THEN "seller" ELSE "ok"
  <2>1. held \in BOOLEAN /\ block \in Blocks
    BY <1>1 DEF Mem, Blocks, TenantBlocks
  <2>2. Goto(w, IF block = "ok" THEN "count" ELSE "act", [mem[w] EXCEPT !.held = held, !.block = block])
    BY <1>8 DEF ReadAddress
  <2>3. UNCHANGED <<tick, excused>>
    BY <1>8 DEF ReadAddress
  <2> HIDE DEF held, block
  <2>4. [mem[w] EXCEPT !.held = held, !.block = block] \in Mem
    BY <1>1, <2>1 DEF Mem
  <2> QED
    BY <1>2, <2>2, <2>3, <2>4 DEF Steps
<1>9. CASE ReadCount(w)
  <2>1. [mem[w] EXCEPT !.block =
           IF Cardinality(Out \ {mem[w].row}) >= Cap THEN "daily_cap"
           ELSE IF ~practice /\ ~seller.hours THEN "outside_window" ELSE "ok"] \in Mem
    BY <1>1, MemFields DEF Blocks
  <2> QED
    BY <1>2, <1>9, <2>1 DEF ReadCount, Steps
<1>10. CASE Cancel(w)
  BY <1>1, <1>10, GotoType DEF Cancel, NextRow, TypeTicks, Steps, tick
<1>11. CASE Wait(w) \/ FailBeforeSend(w) \/ MarkSent(w) \/ Retry(w) \/ Throw(w)
  BY <1>1, <1>2, <1>11 DEF Wait, FailBeforeSend, MarkSent, Retry, Throw, NextRow, Steps
<1>12. CASE Commit(w) \/ Send(w) \/ SendUnanswered(w)
  BY <1>1, <1>2, <1>12 DEF Commit, Send, SendUnanswered, NextRow, Steps
<1>13. CASE SendRefused(w)
  BY <1>1, <1>2, <1>13 DEF SendRefused, Steps
<1>14. CASE Crash(w)
  BY <1>1, <1>14, GotoType DEF Crash, TypeTicks, Steps
<1> QED
  BY <1>3, <1>4, <1>5, <1>6, <1>7, <1>8, <1>9, <1>10, <1>11, <1>12, <1>13, <1>14 DEF Tick, Work, Failure

\* Resend's memory, and the rows whose answer was lost.
LEMMA ResendTypes ==
  ASSUME TypeOK, NEW w \in Workers, Tick(w) \/ Work(w) \/ Failure(w)
  PROVE  TypeResend'
<1> USE DEF TypeOK
<1>1. mem[w].row \in Emails
  BY DEF TypeTicks, Mem
<1>2. CASE UNCHANGED resend
  BY <1>2 DEF resend, TypeResend
<1>3. CASE Send(w) \/ SendUnanswered(w)
  BY <1>1, <1>3 DEF Send, SendUnanswered, Accept, TypeResend
<1>4. CASE MarkSent(w)
  BY <1>1, <1>4 DEF MarkSent, TypeResend
<1>5. CASE Throw(w) \/ Crash(w)
  BY <1>1, <1>5 DEF Throw, Crash, Missed, TypeResend
<1>6. CASE Reap(w) \/ List(w) \/ Claim(w) \/ EndTick(w) \/ ReadFacts(w) \/ ReadAddress(w) \/ ReadCount(w)
           \/ Wait(w) \/ Cancel(w) \/ FailBeforeSend(w) \/ Commit(w) \/ Retry(w) \/ SendRefused(w)
  BY <1>2, <1>6, Zenon DEF Reap, List, Claim, EndTick, ReadFacts, ReadAddress, ReadCount, Wait, Cancel,
     FailBeforeSend, Commit, Retry, SendRefused
<1> QED
  BY <1>3, <1>4, <1>5, <1>6 DEF Tick, Work, Failure

\* The rows a tick leaves alone.
LEMMA TickWrites ==
  ASSUME TypeOK, NEW w \in Workers, Tick(w) \/ Work(w) \/ Failure(w)
  PROVE  row' \in [Emails -> EmailRow] /\ Writes
<1>1. CASE row' = row
  BY <1>1 DEF TypeOK, TypeRows, Writes
<1>2. CASE List(w) \/ EndTick(w) \/ ReadFacts(w) \/ ReadAddress(w) \/ ReadCount(w) \/ Send(w)
           \/ SendUnanswered(w) \/ SendRefused(w) \/ Throw(w) \/ Crash(w)
  BY <1>1, <1>2 DEF List, EndTick, ReadFacts, ReadAddress, ReadCount, Send, SendUnanswered, SendRefused,
     Throw, Crash
<1>3. CASE Wait(w) \/ Cancel(w) \/ FailBeforeSend(w) \/ Commit(w) \/ MarkSent(w) \/ Retry(w)
  BY <1>3, SettlingWrites
<1> QED
  BY <1>2, <1>3, ReapWrites, ClaimWrites DEF Tick, Work, Failure

LEMMA FaultType == ASSUME TypeWorld, NEW f, Fault(f) PROVE faults' \in Nat
BY DEF TypeWorld, Fault

LEMMA TickWorld ==
  ASSUME TypeOK, NEW w \in Workers, Tick(w) \/ Work(w) \/ Failure(w)
  PROVE  TypeWorld'
<1> USE DEF TypeOK
<1>1. practice' = practice
  BY TickTypes
<1>2. CASE Cancel(w)
  <2>1. seller' \in Seller
    BY <1>2 DEF Cancel, TypeWorld, Seller
  <2> QED
    BY <1>1, <1>2, <2>1 DEF Cancel, TypeWorld
<1>3. CASE UNCHANGED world /\ faults' \in Nat
  BY <1>1, <1>3 DEF world, TypeWorld
<1>4. CASE FailBeforeSend(w) \/ SendUnanswered(w) \/ SendRefused(w) \/ Throw(w) \/ Crash(w)
  <2>1. UNCHANGED world
    BY <1>4 DEF FailBeforeSend, SendUnanswered, SendRefused, Throw, Crash
  <2>2. faults' = faults \/ \E f : Fault(f)
    BY <1>4 DEF FailBeforeSend, SendUnanswered, SendRefused, Throw, Crash
  <2>3. faults' \in Nat
    BY <2>2, FaultType DEF TypeWorld
  <2> QED
    BY <1>3, <2>1, <2>3
<1>5. CASE Reap(w) \/ List(w) \/ Claim(w) \/ EndTick(w) \/ ReadFacts(w) \/ ReadAddress(w) \/ ReadCount(w)
           \/ Wait(w) \/ Commit(w) \/ Send(w) \/ MarkSent(w) \/ Retry(w)
  <2>1. UNCHANGED world /\ UNCHANGED faults
    BY <1>5, Zenon DEF Reap, List, Claim, EndTick, ReadFacts, ReadAddress, ReadCount, Wait, Commit, Send,
       MarkSent, Retry
  <2> QED
    BY <1>3, <2>1 DEF TypeWorld
<1> QED
  BY <1>2, <1>4, <1>5 DEF Tick, Work, Failure

\* What moves outside the ticks: queueing, events, people and time.
Around ==
  \/ \E e \in Emails : \E p \in Purposes : Queue(e, p)
  \/ Events \/ People \/ Time

LEMMA AroundTicks ==
  ASSUME TypeOK, Around
  PROVE  /\ TypeTicks' /\ practice' = practice /\ UNCHANGED <<pc, tick, excused>>
         /\ UNCHANGED mem \/ Stopping
<1> USE DEF TypeOK
<1>1. practice' = practice /\ UNCHANGED <<pc, tick, excused>> /\ (UNCHANGED mem \/ Stopping)
  <2>1. CASE \E e \in Emails : \E p \in Purposes : Queue(e, p)
    BY <2>1 DEF Queue, Outside
  <2>2. CASE Events
    BY <2>2 DEF Events, Delivered, Undelivered, Bounced, Complained, Outside
  <2>3. CASE People
    BY <2>3 DEF People, Switch, TakeOver, GiveBack, Book, Stop, Spoil, HoursOpen, HoursClose, Outside
  <2>4. CASE Time
    BY <2>4 DEF Time, Due, Stale, KeyAges, Forget, Outside
  <2> QED
    BY <2>1, <2>2, <2>3, <2>4 DEF Around
<1>2. mem' \in [Workers -> Mem]
  <2>1. CASE Stopping
    BY <2>1, MemFields DEF Stopping, TypeTicks
  <2> QED
    BY <1>1, <2>1 DEF TypeTicks
<1> QED
  BY <1>1, <1>2 DEF TypeTicks, tick

LEMMA AroundResend ==
  ASSUME TypeOK, Around
  PROVE  TypeResend' /\ UNCHANGED copies
<1> USE DEF TypeOK
<1>1. UNCHANGED resend \/ \E e \in Emails : Forget(e)
  <2>1. CASE \E e \in Emails : \E p \in Purposes : Queue(e, p)
    BY <2>1 DEF Queue
  <2>2. CASE Events
    BY <2>2 DEF Events, Delivered, Undelivered, Bounced, Complained
  <2>3. CASE People
    BY <2>3 DEF People, Switch, TakeOver, GiveBack, Book, Stop, Spoil, HoursOpen, HoursClose
  <2>4. CASE Time
    BY <2>4 DEF Time, Due, Stale, KeyAges
  <2> QED
    BY <2>1, <2>2, <2>3, <2>4 DEF Around
<1> QED
  BY <1>1 DEF Forget, TypeResend, resend

LEMMA AroundWrites ==
  ASSUME TypeOK, Around
  PROVE  row' \in [Emails -> EmailRow] /\ Writes
<1>1. CASE row' = row
  BY <1>1 DEF TypeOK, TypeRows, Writes
<1>2. CASE People \/ \E e \in Emails : Forget(e)
  BY <1>1, <1>2 DEF People, Switch, TakeOver, GiveBack, Book, Stop, Spoil, HoursOpen, HoursClose, Forget
<1> QED
  BY <1>2, OutsideWrites DEF Around, Events, Time

LEMMA AroundWorld ==
  ASSUME TypeOK, Around
  PROVE  TypeWorld'
<1> USE DEF TypeOK
<1>1. practice' = practice
  BY AroundTicks
<1>2. CASE UNCHANGED world /\ faults' \in Nat
  BY <1>1, <1>2 DEF world, TypeWorld
<1>3. CASE \/ \E e \in Emails : \E p \in Purposes : Queue(e, p)
           \/ \E e \in Emails : Due(e) \/ KeyAges(e) \/ Forget(e) \/ Delivered(e)
  <2>1. UNCHANGED world /\ UNCHANGED faults
    BY <1>3 DEF Queue, Due, KeyAges, Forget, Delivered, Outside
  <2> QED
    BY <1>2, <2>1 DEF TypeWorld
<1>4. CASE \E e \in Emails : Stale(e)
  <2>1. UNCHANGED world /\ (faults' = faults \/ \E f : Fault(f))
    BY <1>4 DEF Stale
  <2> QED
    BY <1>2, <2>1, FaultType DEF TypeWorld
<1>5. CASE \/ People
           \/ \E e \in Emails : Undelivered(e) \/ Bounced(e) \/ Complained(e)
  <2>1. faults' = faults /\ changes' \in Nat
    <3>1. faults' = faults
      BY <1>5 DEF People, Switch, TakeOver, GiveBack, Book, Stop, Spoil, HoursOpen, HoursClose, Undelivered,
         Bounced, Complained, Outside
    <3>2. changes' = changes \/ Change
      BY <1>5 DEF People, Switch, TakeOver, GiveBack, Book, Stop, Spoil, HoursOpen, HoursClose, Undelivered,
         Bounced, Complained
    <3> QED
      BY <3>1, <3>2 DEF Change, TypeWorld
  <2>2. tenant' \in [enabled : BOOLEAN, paused : BOOLEAN]
    <3>1. tenant' = tenant \/ Switch \/ \E e \in Emails : Complained(e)
      BY <1>5 DEF People, TakeOver, GiveBack, Book, Stop, Spoil, HoursOpen, HoursClose, Undelivered, Bounced
    <3>2. tenant \in [enabled : BOOLEAN, paused : BOOLEAN]
      BY DEF TypeWorld
    <3>3. CASE Switch
      BY <3>2, <3>3 DEF Switch
    <3>4. CASE \E e \in Emails : Complained(e)
      BY <3>4 DEF Complained
    <3> QED
      BY <3>1, <3>2, <3>3, <3>4
  <2>3. helped' \in BOOLEAN
    BY <1>5 DEF People, Switch, TakeOver, GiveBack, Book, Stop, Spoil, HoursOpen, HoursClose, Undelivered, Bounced,
       Complained, TypeWorld
  <2>4. seller' \in Seller
    <3>1. seller \in Seller /\ practice \in BOOLEAN
      BY DEF TypeWorld
    <3>2. \A b \in BOOLEAN : StoppedBy(b) \in Seller
      BY <3>1 DEF StoppedBy, Seller
    <3>3. CASE Stop
      BY <3>2, <3>3 DEF Stop
    <3>4. CASE Spoil
      BY <3>1, <3>4 DEF Spoil, Seller
    <3>5. CASE Switch \/ TakeOver \/ GiveBack \/ Book \/ HoursOpen \/ HoursClose
      BY <3>1, <3>5 DEF Switch, TakeOver, GiveBack, Book, HoursOpen, HoursClose, Seller
    <3>6. CASE \E e \in Emails : Undelivered(e) \/ Bounced(e)
      BY <3>1, <3>6 DEF Undelivered, Bounced, Seller
    <3>7. CASE \E e \in Emails : Complained(e)
      BY <3>2, <3>7 DEF Complained
    <3> QED
      BY <1>5, <3>3, <3>4, <3>5, <3>6, <3>7 DEF People
  <2> QED
    BY <1>1, <2>1, <2>2, <2>3, <2>4 DEF TypeWorld
<1> QED
  BY <1>3, <1>4, <1>5 DEF Around, Events, Time

LEMMA NextSplit == Next => Around \/ \E w \in Workers : Tick(w) \/ Work(w) \/ Failure(w)
BY DEF Next, Around

LEMMA InitTypes == Init => TypeOK
<1> SUFFICES ASSUME Init PROVE TypeOK
  OBVIOUS
<1>1. TypeWorld
  BY OutboxAssumption DEF Init, TypeWorld, Seller
<1>2. TypeRows
  BY NoRowType DEF Init, TypeRows, NoRow
<1>3. TypeResend
  BY DEF Init, TypeResend
<1>4. TypeTicks
  BY NoMemType DEF Init, TypeTicks, Steps
<1> QED
  BY <1>1, <1>2, <1>3, <1>4 DEF TypeOK

LEMMA TypeStep == TypeOK /\ [Next]_vars => TypeOK'
<1> SUFFICES ASSUME TypeOK, [Next]_vars PROVE TypeOK'
  OBVIOUS
<1>1. CASE UNCHANGED vars
  BY <1>1 DEF vars, TypeOK, TypeWorld, TypeRows, TypeResend, TypeTicks
<1>2. CASE Around
  BY <1>2, AroundTicks, AroundResend, AroundWrites, AroundWorld, WritesType DEF TypeOK
<1>3. ASSUME NEW w \in Workers, Tick(w) \/ Work(w) \/ Failure(w) PROVE TypeOK'
  BY <1>3, TickTypes, ResendTypes, TickWrites, TickWorld, WritesType DEF TypeOK
<1> QED
  BY <1>1, <1>2, <1>3, NextSplit

\* Every variable keeps its type, and every email being sent is claimed by a
\* tick (send.ts:136-146): claimed_at is never empty under `sending`.
THEOREM TypeCorrect == Spec => []TypeOK
BY InitTypes, TypeStep, PTL DEF Spec

\* send.ts:4-7: a late answer or event never brings a row back.
THEOREM RowForwardHolds == Spec => RowForward
<1>1. TypeOK /\ [Next]_vars => [\A e \in Emails : Rank(row'[e].st) >= Rank(row[e].st)]_vars
  <2> SUFFICES ASSUME TypeOK, Next PROVE \A e \in Emails : Rank(row'[e].st) >= Rank(row[e].st)
    BY DEF vars
  <2>1. row' \in [Emails -> EmailRow] /\ Writes
    BY AroundWrites, TickWrites, NextSplit
  <2> SUFFICES ASSUME NEW e \in Emails PROVE Rank(row'[e].st) >= Rank(row[e].st)
    OBVIOUS
  <2>2. row[e].st \in RowStatus /\ row'[e].st \in RowStatus
    BY <2>1 DEF TypeOK, TypeRows, EmailRow
  <2>3. Onward(row[e].st, row'[e].st)
    BY <2>1 DEF Writes, Written, Onward
  <2> QED
    BY <2>2, <2>3, OnwardRanks
<1> QED
  BY <1>1, TypeCorrect, PTL DEF RowForward, Spec

-----------------------------------------------------------------------------
(* One copy of every email: the key dates itself before Resend forgets it. *)

\* The emails a tick may still send under a key past its window are the ones it
\* knows about: late was read with the rows, and Resend outlives the window.
KeyInv ==
  /\ \A e \in Emails :
       /\ copies[e] = IF known[e] = "no" THEN 0 ELSE 1
       /\ row[e].st = "none" => ~row[e].first /\ ~row[e].old
       /\ known[e] # "no" => row[e].first
       /\ known[e] = "forgotten" => row[e].old
       /\ known[e] = "forgotten" => \A w \in Workers : pc[w] = "idle" \/ e \in late[w]
  /\ \A w \in Workers :
       /\ \A e \in late[w] : row[e].first /\ row[e].old
       /\ pc[w] \in PastFacts \cup {"facts"} /\ mem[w].row \in late[w] => mem[w].first
       /\ pc[w] = "send" => row[mem[w].row].first /\ mem[w].row \notin late[w]

\* What one step of a tick does to where it is, and to Resend.
Reaping(w) == pc'[w] = "list" /\ late'[w] = {e \in Emails : row[e].first /\ row[e].old}
Ending(w) == pc'[w] = "idle" /\ late'[w] = {}
Scanning(w) == pc[w] # "idle" /\ pc'[w] = "scan" /\ late'[w] = late[w]
Claiming(w) ==
  /\ pc[w] # "idle" /\ pc'[w] = "facts" /\ late'[w] = late[w]
  /\ mem'[w].row \in Emails /\ mem'[w].first = row[mem'[w].row].first
Working(w) ==
  /\ pc[w] \in PastFacts \cup {"facts"} /\ pc'[w] \in PastFacts /\ late'[w] = late[w]
  /\ mem'[w].row = mem[w].row /\ mem'[w].first = mem[w].first
  /\ pc'[w] = "send" => ~KeyExpired(w) /\ row'[mem[w].row].first
Asking(w) == pc[w] = "send" /\ Accept(mem[w].row)
Moves(w) ==
  /\ \A v \in Workers \ {w} : pc'[v] = pc[v] /\ mem'[v] = mem[v] /\ late'[v] = late[v]
  /\ Reaping(w) \/ Ending(w) \/ Scanning(w) \/ Claiming(w) \/ Working(w)
  /\ UNCHANGED <<known, copies>> \/ Asking(w)

LEMMA TickMoves ==
  ASSUME TypeOK, NEW w \in Workers, Tick(w) \/ Work(w) \/ Failure(w)
  PROVE  Moves(w)
<1> USE DEF TypeOK
<1>1. mem[w] \in Mem /\ mem[w].row \in Emails /\ NoMem \in Mem /\ pc[w] \in Steps
  BY NoMemType DEF TypeTicks, Mem
<1>2. ASSUME NEW s \in Steps, NEW m \in Mem, Goto(w, s, m)
      PROVE  /\ \A v \in Workers \ {w} : pc'[v] = pc[v] /\ mem'[v] = mem[v]
             /\ pc'[w] = s /\ mem'[w] = m
  BY <1>2, GotoType
<1>3. CASE Reap(w)
  <2>1. Goto(w, "list", NoMem) /\ UNCHANGED <<known, copies>>
    BY <1>3 DEF Reap, resend
  <2>2. late' = [late EXCEPT ![w] = {e \in Emails : row[e].first /\ row[e].old}]
    BY <1>3 DEF Reap
  <2> QED
    BY <1>1, <1>2, <2>1, <2>2 DEF Moves, Reaping, TypeTicks, Steps
<1>4. CASE EndTick(w) \/ Crash(w)
  <2>1. Goto(w, "idle", NoMem) /\ UNCHANGED <<known, copies>> /\ late' = [late EXCEPT ![w] = {}]
    BY <1>4 DEF EndTick, Crash, resend
  <2> QED
    BY <1>1, <1>2, <2>1 DEF Moves, Ending, TypeTicks, Steps
<1>5. ASSUME Goto(w, "scan", NoMem), late' = late, UNCHANGED <<known, copies>>, pc[w] # "idle"
      PROVE  Moves(w)
  BY <1>1, <1>2, <1>5 DEF Moves, Scanning, TypeTicks, Steps
<1>6. CASE List(w)
  BY <1>5, <1>6 DEF List, resend, At
<1>7. CASE Claim(w)
  <2>1. PICK e \in due[w] : \/ Goto(w, "scan", NoMem)
                            \/ Goto(w, "facts", [NoMem EXCEPT !.row = e, !.tries = row[e].tries + 1,
                                                              !.first = row[e].first])
    BY <1>7 DEF Claim
  <2>2. late' = late /\ UNCHANGED <<known, copies>> /\ pc[w] # "idle"
    BY <1>7 DEF Claim, resend, At
  <2>3. e \in Emails /\ row[e].tries + 1 \in Nat /\ row[e].first \in BOOLEAN
    BY DEF TypeTicks, TypeRows, EmailRow
  <2>4. [NoMem EXCEPT !.row = e, !.tries = row[e].tries + 1, !.first = row[e].first] \in Mem
    BY <1>1, <2>3 DEF Mem
  <2>5. CASE Goto(w, "facts", [NoMem EXCEPT !.row = e, !.tries = row[e].tries + 1, !.first = row[e].first])
    <3>1. mem'[w].row = e /\ mem'[w].first = row[e].first /\ pc'[w] = "facts"
      <4>1. mem'[w] = [NoMem EXCEPT !.row = e, !.tries = row[e].tries + 1, !.first = row[e].first]
            /\ pc'[w] = "facts"
        BY <1>2, <2>4, <2>5 DEF Steps
      <4> QED
        BY <1>1, <4>1 DEF Mem
    <3> QED
      BY <1>2, <2>2, <2>3, <2>4, <2>5, <3>1 DEF Moves, Claiming, Steps
  <2> QED
    BY <1>5, <2>1, <2>2, <2>5
<1>8. CASE Wait(w) \/ Cancel(w) \/ FailBeforeSend(w) \/ Retry(w) \/ Throw(w) \/ MarkSent(w)
  <2>1. Goto(w, "scan", NoMem)
    BY <1>8 DEF Wait, Cancel, FailBeforeSend, Retry, Throw, MarkSent, NextRow
  <2>2. late' = late /\ UNCHANGED <<known, copies>>
    BY <1>8 DEF Wait, Cancel, FailBeforeSend, Retry, Throw, MarkSent, tick, resend
  <2>3. pc[w] # "idle"
    BY <1>8 DEF Wait, Cancel, FailBeforeSend, Retry, Throw, MarkSent, At, PastFacts
  <2> QED
    BY <1>5, <2>1, <2>2, <2>3
<1>9. ASSUME NEW s \in PastFacts, NEW m \in Mem, Goto(w, s, m), m.row = mem[w].row, m.first = mem[w].first,
             late' = late, pc[w] \in PastFacts \cup {"facts"}, UNCHANGED <<known, copies>> \/ Asking(w),
             s = "send" => ~KeyExpired(w) /\ row'[mem[w].row].first
      PROVE  Moves(w)
  <2>1. s \in Steps
    BY <1>9 DEF PastFacts, Steps
  <2>2. pc'[w] = s /\ mem'[w] = m /\ \A v \in Workers \ {w} : pc'[v] = pc[v] /\ mem'[v] = mem[v]
    BY <1>2, <1>9, <2>1
  <2>3. Working(w)
    BY <1>9, <2>2 DEF Working
  <2> QED
    BY <1>9, <2>2, <2>3 DEF Moves
<1>10. CASE ReadFacts(w)
  <2> DEFINE m == [mem[w] EXCEPT !.block = SwitchBlock, !.held = ~practice /\ ConversationHolds(Row(w).purpose)]
  <2>1. SwitchBlock \in Blocks
    BY DEF SwitchBlock, Blocks, TenantBlocks
  <2>2. m \in Mem /\ m.row = mem[w].row /\ m.first = mem[w].first
    BY <1>1, <2>1 DEF Mem
  <2>3. Goto(w, "address", m) /\ late' = late /\ UNCHANGED <<known, copies>> /\ pc[w] = "facts"
    BY <1>10 DEF ReadFacts, tick, resend, At
  <2> HIDE DEF m
  <2> QED
    BY <1>9, <2>2, <2>3 DEF PastFacts
<1>11. CASE ReadAddress(w)
  <2> DEFINE held == mem[w].held \/ (~practice /\ (seller.barred \/ (Row(w).purpose = "first" /\ ~seller.warm)))
             block == IF mem[w].block # "ok" THEN mem[w].block ELSE IF held THEN "seller" ELSE "ok"
             m == [mem[w] EXCEPT !.held = held, !.block = block]
  <2>1. held \in BOOLEAN /\ block \in Blocks
    BY <1>1 DEF Mem, Blocks, TenantBlocks
  <2>2. m \in Mem /\ m.row = mem[w].row /\ m.first = mem[w].first
    <3> HIDE DEF held, block
    <3> QED  BY <1>1, <2>1 DEF Mem
  <2>3. Goto(w, IF block = "ok" THEN "count" ELSE "act", m)
    BY <1>11 DEF ReadAddress
  <2>4. late' = late /\ UNCHANGED <<known, copies>> /\ pc[w] = "address"
    BY <1>11 DEF ReadAddress, tick, resend, At
  <2> HIDE DEF held, block, m
  <2> QED
    BY <1>9, <2>2, <2>3, <2>4 DEF PastFacts
<1>12. CASE ReadCount(w)
  <2> DEFINE block == IF Cardinality(Out \ {mem[w].row}) >= Cap THEN "daily_cap"
                      ELSE IF ~practice /\ ~seller.hours THEN "outside_window" ELSE "ok"
             m == [mem[w] EXCEPT !.block = block]
  <2>1. block \in Blocks
    BY DEF Blocks
  <2>2. m \in Mem /\ m.row = mem[w].row /\ m.first = mem[w].first
    <3> HIDE DEF block
    <3> QED  BY <1>1, <2>1 DEF Mem
  <2>3. Goto(w, "act", m)
    BY <1>12 DEF ReadCount
  <2>4. late' = late /\ UNCHANGED <<known, copies>> /\ pc[w] = "count"
    BY <1>12 DEF ReadCount, tick, resend, At
  <2> HIDE DEF block, m
  <2> QED
    BY <1>9, <2>2, <2>3, <2>4 DEF PastFacts
<1>13. CASE Commit(w)
  <2>1. late' = late /\ UNCHANGED <<known, copies>> /\ pc[w] = "act" /\ ~KeyExpired(w)
    BY <1>13 DEF Commit, tick, resend, At
  <2>2. Holds(w) => row'[mem[w].row].first
    BY <1>1, <1>13 DEF Commit, Settle, Row, TypeRows, EmailRow
  <2>3. IF Holds(w) THEN Goto(w, "send", mem[w]) ELSE Goto(w, "scan", NoMem)
    BY <1>13 DEF Commit, NextRow
  <2> QED
    BY <1>1, <1>5, <1>9, <2>1, <2>2, <2>3 DEF PastFacts
<1>14. CASE Send(w) \/ SendUnanswered(w) \/ SendRefused(w)
  <2>1. PICK s \in {"sent", "retry", "rejected"} : Goto(w, s, mem[w])
    BY <1>14 DEF Send, SendUnanswered, SendRefused
  <2>2. late' = late /\ pc[w] = "send" /\ (UNCHANGED <<known, copies>> \/ Asking(w))
    BY <1>14 DEF Send, SendUnanswered, SendRefused, tick, resend, At, Asking
  <2> QED
    BY <1>1, <1>9, <2>1, <2>2 DEF PastFacts
<1> QED
  BY <1>3, <1>4, <1>6, <1>7, <1>8, <1>10, <1>11, <1>12, <1>13, <1>14 DEF Tick, Work, Failure

LEMMA KeyStepTick ==
  ASSUME TypeOK, KeyInv, NEW w \in Workers, Tick(w) \/ Work(w) \/ Failure(w)
  PROVE  KeyInv'
<1>1. Moves(w) /\ TypeOK'
  BY TickMoves, TypeStep DEF Next
<1>2. \A e \in Emails : /\ row[e].first => row'[e].first
                        /\ row[e].old => row'[e].old
                        /\ row'[e].st = "none" => ~row'[e].first /\ ~row'[e].old
  BY TickWrites DEF Writes, Written, Dated, KeyInv
<1>3. mem[w].row \in Emails /\ late[w] \subseteq Emails
  BY DEF TypeOK, TypeTicks, Mem
<1>4. known \in [Emails -> {"no", "yes", "forgotten"}] /\ copies \in [Emails -> Nat]
  BY DEF TypeOK, TypeResend
<1>5. Asking(w) => known[mem[w].row] # "forgotten"
  BY <1>3 DEF Asking, KeyInv
<1>6. ASSUME NEW e \in Emails
      PROVE  /\ copies'[e] = IF known'[e] = "no" THEN 0 ELSE 1
             /\ known'[e] # "no" => row'[e].first
             /\ known'[e] = "forgotten" => known[e] = "forgotten"
  <2>1. CASE UNCHANGED <<known, copies>>
    BY <1>2, <2>1 DEF KeyInv
  <2>2. CASE Asking(w)
    <3>1. row[mem[w].row].first
      BY <2>2 DEF Asking, KeyInv
    <3>2. known' = [known EXCEPT ![mem[w].row] = "yes"]
      BY <2>2 DEF Asking, Accept
    <3>3. copies' = IF known[mem[w].row] = "yes" THEN copies ELSE [copies EXCEPT ![mem[w].row] = @ + 1]
      BY <2>2 DEF Asking, Accept
    <3>4. copies[e] = (IF known[e] = "no" THEN 0 ELSE 1) /\ (known[e] # "no" => row[e].first)
      BY DEF KeyInv
    <3> QED
      BY <1>2, <1>3, <1>4, <1>5, <2>2, <3>1, <3>2, <3>3, <3>4
  <2> QED
    BY <1>1, <2>1, <2>2 DEF Moves
<1>7. ASSUME NEW e \in Emails, known'[e] = "forgotten"
      PROVE  row'[e].old /\ \A v \in Workers : pc'[v] = "idle" \/ e \in late'[v]
  <2>1. known[e] = "forgotten" /\ row[e].first /\ row[e].old
    BY <1>6, <1>7 DEF KeyInv
  <2>2. \A v \in Workers : pc[v] = "idle" \/ e \in late[v]
    BY <2>1 DEF KeyInv
  <2>3. pc'[w] = "idle" \/ e \in late'[w]
    BY <1>1, <2>1, <2>2 DEF Moves, Reaping, Ending, Scanning, Claiming, Working, PastFacts
  <2> QED
    BY <1>1, <1>2, <2>1, <2>2, <2>3 DEF Moves
<1>8. ASSUME NEW v \in Workers
      PROVE  /\ \A e \in late'[v] : row'[e].first /\ row'[e].old
             /\ pc'[v] \in PastFacts \cup {"facts"} /\ mem'[v].row \in late'[v] => mem'[v].first
             /\ pc'[v] = "send" => row'[mem'[v].row].first /\ mem'[v].row \notin late'[v]
  <2>1. /\ \A e \in late[v] : row[e].first /\ row[e].old
        /\ pc[v] \in PastFacts \cup {"facts"} /\ mem[v].row \in late[v] => mem[v].first
        /\ pc[v] = "send" => row[mem[v].row].first /\ mem[v].row \notin late[v]
        /\ mem[v].row \in Emails /\ late[v] \subseteq Emails
    BY DEF KeyInv, TypeOK, TypeTicks, Mem
  <2>2. CASE v # w
    BY <1>1, <1>2, <2>1, <2>2 DEF Moves
  <2>3. CASE v = w /\ Reaping(w)
    BY <1>2, <2>3 DEF Reaping, PastFacts
  <2>4. CASE v = w /\ (Ending(w) \/ Scanning(w))
    BY <1>2, <2>1, <2>4 DEF Ending, Scanning, PastFacts
  <2>5. CASE v = w /\ Claiming(w)
    BY <1>2, <2>1, <2>5 DEF Claiming, PastFacts
  <2>6. CASE v = w /\ Working(w)
    BY <1>2, <2>1, <2>6 DEF Working, KeyExpired
  <2> QED
    BY <1>1, <2>2, <2>3, <2>4, <2>5, <2>6 DEF Moves
<1> QED
  BY <1>2, <1>6, <1>7, <1>8 DEF KeyInv

LEMMA KeyStepAround ==
  ASSUME TypeOK, KeyInv, Around
  PROVE  KeyInv'
<1>1. \A e \in Emails : /\ row[e].first => row'[e].first
                        /\ row[e].old => row'[e].old
                        /\ row'[e].st = "none" => ~row'[e].first /\ ~row'[e].old
  BY AroundWrites DEF Writes, Written, Dated, KeyInv
<1>2. pc' = pc /\ late' = late /\ \A w \in Workers : mem'[w].row = mem[w].row /\ mem'[w].first = mem[w].first
  <2>1. pc' = pc /\ late' = late /\ (UNCHANGED mem \/ Stopping)
    BY AroundTicks DEF tick
  <2>2. \A w \in Workers : mem[w] \in Mem
    BY DEF TypeOK, TypeTicks
  <2> QED
    BY <2>1, <2>2 DEF Stopping, Mem
<1>3. \A w \in Workers : mem[w].row \in Emails /\ late[w] \subseteq Emails
  BY DEF TypeOK, TypeTicks, Mem
<1>4. copies' = copies /\ (known' = known \/ \E e \in Emails : Forget(e))
  <2>1. copies' = copies
    BY AroundResend
  <2>2. UNCHANGED resend \/ \E e \in Emails : Forget(e)
    BY DEF Around, Queue, Events, Delivered, Undelivered, Bounced, Complained, People, Switch, TakeOver,
       GiveBack, Book, Stop, Spoil, HoursOpen, HoursClose, Time, Due, Stale, KeyAges
  <2> QED
    BY <2>1, <2>2 DEF resend
<1>5. ASSUME NEW e \in Emails
      PROVE  /\ copies'[e] = IF known'[e] = "no" THEN 0 ELSE 1
             /\ known'[e] # "no" => row[e].first
             /\ known'[e] = "forgotten" => row[e].old
             /\ known'[e] = "forgotten" => \A w \in Workers : pc[w] = "idle" \/ e \in late[w]
  <2>1. /\ copies[e] = IF known[e] = "no" THEN 0 ELSE 1
        /\ known[e] # "no" => row[e].first
        /\ known[e] = "forgotten" => row[e].old
        /\ known[e] = "forgotten" => \A w \in Workers : pc[w] = "idle" \/ e \in late[w]
    BY DEF KeyInv
  <2>2. CASE known' = known
    BY <1>4, <2>1, <2>2
  <2>3. ASSUME NEW f \in Emails, Forget(f)
        PROVE  /\ known[f] = "yes" /\ (row[f].first => row[f].old)
               /\ \A w \in Workers : pc[w] = "idle" \/ f \in late[w]
               /\ known' = [known EXCEPT ![f] = "forgotten"]
    BY <2>3 DEF Forget, At
  <2>4. ASSUME NEW f \in Emails, Forget(f), f = e
        PROVE  known'[e] = "forgotten" /\ known[e] = "yes" /\ row[e].old
               /\ \A w \in Workers : pc[w] = "idle" \/ e \in late[w]
    BY <2>1, <2>3, <2>4 DEF TypeOK, TypeResend
  <2>5. ASSUME NEW f \in Emails, Forget(f), f # e PROVE known'[e] = known[e]
    BY <2>3, <2>5 DEF TypeOK, TypeResend
  <2> QED
    BY <1>4, <2>1, <2>2, <2>4, <2>5
<1>6. ASSUME NEW w \in Workers
      PROVE  /\ \A e \in late'[w] : row'[e].first /\ row'[e].old
             /\ pc'[w] \in PastFacts \cup {"facts"} /\ mem'[w].row \in late'[w] => mem'[w].first
             /\ pc'[w] = "send" => row'[mem'[w].row].first /\ mem'[w].row \notin late'[w]
  BY <1>1, <1>2, <1>3 DEF KeyInv
<1> QED
  BY <1>1, <1>2, <1>5, <1>6 DEF KeyInv

LEMMA KeyInvHolds == Spec => []KeyInv
<1>1. Init => KeyInv
  BY DEF Init, KeyInv, NoRow, PastFacts
<1>2. TypeOK /\ KeyInv /\ [Next]_vars => KeyInv'
  <2> SUFFICES ASSUME TypeOK, KeyInv, [Next]_vars PROVE KeyInv'
    OBVIOUS
  <2>1. CASE UNCHANGED vars
    BY <2>1 DEF vars, KeyInv, KeyExpired
  <2> QED
    BY <2>1, KeyStepTick, KeyStepAround, NextSplit
<1> QED
  BY <1>1, <1>2, TypeCorrect, PTL DEF Spec

\* send.ts:14-23: whatever is lost, dies or overlaps, one copy of an email
\* reaches the seller: an attempt under a key Resend no longer knows is never made.
THEOREM SentOnceHolds == Spec => []SentOnce
<1>1. KeyInv => SentOnce
  BY DEF KeyInv, SentOnce
<1> QED
  BY <1>1, KeyInvHolds, PTL

-----------------------------------------------------------------------------
(* After the seller stops, only what had passed its gates goes out.        *)

\* A tick at work for a stopped seller read its facts before the stop, or
\* has seen the stop and will cancel.
Spared(w) ==
  pc[w] \in PastFacts =>
    mem[w].escaped \/ (pc[w] = "address" /\ mem[w].held) \/ (pc[w] = "act" /\ mem[w].block # "ok")
StopInv == ~practice /\ seller.status = "stopped" => \A w \in Workers : Spared(w)

LEMMA StopStepTick ==
  ASSUME TypeOK, NEW w \in Workers, Tick(w) \/ Work(w) \/ Failure(w)
  PROVE  /\ StopInv => StopInv'
         /\ seller'.status = seller.status
<1>1. Moves(w) /\ practice' = practice
  BY TickMoves, TickTypes
<1>2. seller'.status = seller.status
  <2>1. seller \in Seller
    BY DEF TypeOK, TypeWorld
  <2>2. CASE Cancel(w)
    BY <2>1, <2>2 DEF Cancel, Seller
  <2>3. CASE ~Cancel(w)
    BY <2>3, Zenon DEF Tick, Work, Failure, Reap, List, Claim, EndTick, ReadFacts, ReadAddress, ReadCount, Wait,
       FailBeforeSend, Commit, Send, MarkSent, Retry, SendUnanswered, SendRefused, Throw, Crash, world
  <2> QED
    BY <2>2, <2>3
<1> SUFFICES ASSUME StopInv, ~practice, seller.status = "stopped" PROVE \A v \in Workers : Spared(v)'
  BY <1>1, <1>2 DEF StopInv
<1>3. \A v \in Workers : Spared(v)
  BY DEF StopInv
<1>4. \A v \in Workers \ {w} : Spared(v)'
  BY <1>1, <1>3 DEF Moves, Spared
<1>5. CASE Reaping(w) \/ Ending(w) \/ Scanning(w) \/ Claiming(w)
  BY <1>4, <1>5 DEF Spared, PastFacts, Reaping, Ending, Scanning, Claiming
<1>6. CASE Working(w)
  <2> USE DEF TypeOK
  <2>1. mem[w] \in Mem /\ NoMem \in Mem
    BY NoMemType DEF TypeTicks
  <2>2. ASSUME NEW s \in Steps, NEW m \in Mem, Goto(w, s, m)
        PROVE  pc'[w] = s /\ mem'[w] = m
    BY <2>2, GotoType
  <2>3. pc'[w] \in PastFacts
    BY <1>6 DEF Working
  <2>4. CASE ReadFacts(w)
    <3> DEFINE held == ~practice /\ ConversationHolds(Row(w).purpose)
               m == [mem[w] EXCEPT !.block = SwitchBlock, !.held = held]
    <3>1. SwitchBlock \in Blocks /\ held = TRUE
      BY DEF SwitchBlock, Blocks, TenantBlocks, ConversationHolds
    <3>2. m \in Mem /\ m.held = TRUE
      <4> HIDE DEF held
      <4> QED  BY <2>1, <3>1 DEF Mem
    <3>3. Goto(w, "address", m)
      BY <2>4 DEF ReadFacts
    <3> HIDE DEF held, m
    <3>4. pc'[w] = "address" /\ mem'[w].held
      BY <2>2, <3>2, <3>3 DEF Steps
    <3> QED
      BY <1>4, <3>4 DEF Spared
  <2>5. CASE ReadAddress(w)
    <3> DEFINE held == mem[w].held \/ (~practice /\ (seller.barred \/ (Row(w).purpose = "first" /\ ~seller.warm)))
               block == IF mem[w].block # "ok" THEN mem[w].block ELSE IF held THEN "seller" ELSE "ok"
               m == [mem[w] EXCEPT !.held = held, !.block = block]
    <3>1. Goto(w, IF block = "ok" THEN "count" ELSE "act", m) /\ pc[w] = "address"
      BY <2>5 DEF ReadAddress, At
    <3>2. held \in BOOLEAN /\ block \in Blocks /\ (mem[w].held => block # "ok")
      BY <2>1 DEF Mem, Blocks, TenantBlocks
    <3> HIDE DEF held, block
    <3>3. m \in Mem /\ m.block = block /\ m.escaped = mem[w].escaped
      BY <2>1, <3>2 DEF Mem
    <3> HIDE DEF m
    <3>4. pc'[w] = (IF block = "ok" THEN "count" ELSE "act") /\ mem'[w] = m
      BY <2>2, <3>1, <3>3 DEF Steps
    <3>5. mem[w].escaped \/ mem[w].held
      BY <1>3, <3>1 DEF Spared, PastFacts
    <3> QED
      BY <1>4, <3>2, <3>3, <3>4, <3>5 DEF Spared
  <2>6. CASE ReadCount(w)
    <3> DEFINE block == IF Cardinality(Out \ {mem[w].row}) >= Cap THEN "daily_cap"
                        ELSE IF ~practice /\ ~seller.hours THEN "outside_window" ELSE "ok"
               m == [mem[w] EXCEPT !.block = block]
    <3>1. Goto(w, "act", m) /\ pc[w] = "count"
      BY <2>6 DEF ReadCount, At
    <3>2. block \in Blocks
      BY DEF Blocks
    <3> HIDE DEF block
    <3>3. m \in Mem /\ m.escaped = mem[w].escaped
      BY <2>1, <3>2 DEF Mem
    <3> HIDE DEF m
    <3>4. pc'[w] = "act" /\ mem'[w] = m
      BY <2>2, <3>1, <3>3 DEF Steps
    <3>5. mem[w].escaped
      BY <1>3, <3>1 DEF Spared, PastFacts
    <3> QED
      BY <1>4, <3>3, <3>4, <3>5 DEF Spared
  <2>7. CASE Commit(w)
    <3>1. mem[w].block = "ok" /\ pc[w] = "act" /\ (Goto(w, "send", mem[w]) \/ Goto(w, "scan", NoMem))
      BY <2>7 DEF Commit, At, NextRow
    <3>2. Goto(w, "scan", NoMem) => pc'[w] = "scan"
      BY <2>1, <2>2 DEF Steps
    <3>3. Goto(w, "send", mem[w]) => mem'[w] = mem[w]
      BY <2>1, <2>2 DEF Steps
    <3>4. mem[w].escaped
      BY <1>3, <3>1 DEF Spared, PastFacts
    <3> QED
      BY <1>4, <2>3, <3>1, <3>2, <3>3, <3>4 DEF Spared, PastFacts
  <2>8. CASE Send(w) \/ SendUnanswered(w) \/ SendRefused(w)
    <3>1. pc[w] = "send" /\ \E s \in {"sent", "retry", "rejected"} : Goto(w, s, mem[w])
      BY <2>8 DEF Send, SendUnanswered, SendRefused, At
    <3>2. mem'[w] = mem[w]
      BY <2>1, <2>2, <3>1 DEF Steps
    <3>3. mem[w].escaped
      BY <1>3, <3>1 DEF Spared, PastFacts
    <3> QED
      BY <1>4, <3>2, <3>3 DEF Spared
  <2>9. CASE Wait(w) \/ Cancel(w) \/ FailBeforeSend(w) \/ Retry(w) \/ Throw(w) \/ MarkSent(w)
    <3>1. Goto(w, "scan", NoMem)
      BY <2>9 DEF Wait, Cancel, FailBeforeSend, Retry, Throw, MarkSent, NextRow
    <3> QED
      BY <2>1, <2>2, <2>3, <3>1 DEF Steps, PastFacts
  <2>10. CASE Reap(w) \/ List(w) \/ Claim(w) \/ EndTick(w) \/ Crash(w)
    BY <1>6, <2>10 DEF Working, Reap, List, Claim, EndTick, Crash, At, PastFacts, Goto, TypeTicks
  <2> QED
    BY <2>4, <2>5, <2>6, <2>7, <2>8, <2>9, <2>10 DEF Tick, Work, Failure
<1> QED
  BY <1>1, <1>5, <1>6 DEF Moves

LEMMA StopStepAround ==
  ASSUME TypeOK, StopInv, Around
  PROVE  StopInv'
<1> SUFFICES ASSUME ~practice', seller'.status = "stopped", NEW w \in Workers PROVE Spared(w)'
  BY DEF StopInv
<1>1. practice' = practice /\ pc' = pc /\ (UNCHANGED mem \/ Stopping)
  BY AroundTicks
<1>2. mem[w] \in Mem /\ seller \in Seller
  BY DEF TypeOK, TypeTicks, TypeWorld
<1>3. CASE Stopping
  BY <1>1, <1>2, <1>3 DEF Stopping, Spared, Mem
<1>4. CASE UNCHANGED mem /\ seller.status = "stopped"
  BY <1>1, <1>4 DEF StopInv, Spared
<1>5. seller'.status = seller.status \/ Stopping \/ seller'.status = "booked"
  <2>1. CASE \E e \in Emails : \E p \in Purposes : Queue(e, p)
    BY <2>1 DEF Queue, world
  <2>2. CASE Time
    BY <2>2 DEF Time, Due, Stale, KeyAges, Forget, world
  <2>3. CASE Events
    BY <1>2, <2>3 DEF Events, Delivered, Undelivered, Bounced, Complained, world, Seller
  <2>4. CASE Switch \/ Stop
    BY <2>4 DEF Switch, Stop
  <2>5. CASE TakeOver \/ GiveBack \/ Book \/ HoursOpen \/ HoursClose
    BY <1>2, <2>5 DEF TakeOver, GiveBack, Book, HoursOpen, HoursClose, Seller
  <2>6. CASE Spoil
    BY <1>2, <2>6 DEF Spoil, Seller
  <2> QED
    BY <2>1, <2>2, <2>3, <2>4, <2>5, <2>6 DEF Around, People
<1> QED
  BY <1>1, <1>3, <1>4, <1>5

\* outbox.ts:7-10, send.ts:11: a copy goes out after the seller stopped only
\* if its gates had been passed before.
THEOREM StopHoldsAlways == Spec => StopHolds
<1>1. Init => StopInv
  BY DEF Init, StopInv, Spared, PastFacts
<1>2. TypeOK /\ StopInv /\ [Next]_vars => StopInv'
  <2> SUFFICES ASSUME TypeOK, StopInv, [Next]_vars PROVE StopInv'
    OBVIOUS
  <2>1. CASE UNCHANGED vars
    BY <2>1 DEF vars, StopInv, Spared
  <2> QED
    BY <2>1, StopStepTick, StopStepAround, NextSplit
<1>3. TypeOK /\ StopInv /\ [Next]_vars
        => [\A e \in Emails : copies'[e] > copies[e] /\ seller.status = "stopped" /\ ~practice
              => \E w \in Workers : mem[w].row = e /\ mem[w].escaped]_vars
  <2> SUFFICES ASSUME TypeOK, StopInv, Next, NEW e \in Emails,
                      copies'[e] > copies[e], seller.status = "stopped", ~practice
               PROVE  \E w \in Workers : mem[w].row = e /\ mem[w].escaped
    BY DEF vars
  <2>1. copies[e] \in Nat
    BY DEF TypeOK, TypeResend
  <2>2. ~Around
    BY <2>1, AroundResend
  <2>3. PICK w \in Workers : Tick(w) \/ Work(w) \/ Failure(w)
    BY <2>2, NextSplit
  <2>4. Asking(w)
    BY <2>1, <2>3, TickMoves DEF Moves
  <2>5. mem[w].row = e
    BY <2>1, <2>4 DEF Asking, Accept, TypeOK, TypeResend
  <2>6. mem[w].escaped
    BY <2>4 DEF Asking, StopInv, Spared, PastFacts
  <2> QED
    BY <2>5, <2>6
<1> QED
  BY <1>1, <1>2, <1>3, TypeCorrect, PTL DEF StopHolds, Spec

-----------------------------------------------------------------------------
(* What a step does to the rows out, on their way, or canceled.            *)

InSeller == {"sent", "delivered"}
\* From one row to the next: only the claim of worker v makes it sending, only
\* the answer v waited for makes it sent, and nothing touches a canceled row.
RowStep(r, s, claims, marks, cancels) ==
  /\ s.st = "sending" => (r.st = "sending" /\ s.by = r.by) \/ claims
  /\ s.st \in InSeller => r.st \in InSeller \/ (r.id /\ r.st = "sending") \/ marks
  /\ s.id => r.id \/ s.st = "sent"
  /\ r.st \notin {"none", "queued", "sending"} => s.st \notin {"none", "queued", "sending"}
  /\ s.st = "canceled" => s = r \/ cancels

Claims(w, e) == pc'[w] = "facts" /\ mem'[w].row = e /\ row'[e].by = w
Marks(w, e) == pc[w] = "sent" /\ Holds(w) /\ mem[w].row = e
TickRows(w) ==
  \A e \in Emails : RowStep(row[e], row'[e], Claims(w, e), Marks(w, e), Cancel(w))
AroundRows ==
  \A e \in Emails : RowStep(row[e], row'[e], FALSE, FALSE, FALSE)

\* A row as written, when only its status and marks change.
LEMMA RowStepSame ==
  ASSUME NEW r, NEW a, NEW b, NEW c
  PROVE  RowStep(r, r, a, b, c)
BY DEF RowStep

LEMMA SettleRows ==
  ASSUME TypeOK, NEW w \in Workers, NEW r \in EmailRow, Settle(w, r),
         Holds(w) => RowStep(Row(w), r, Claims(w, mem[w].row), Marks(w, mem[w].row), Cancel(w))
  PROVE  TickRows(w)
<1>1. mem[w].row \in Emails
  BY DEF TypeOK, TypeTicks, Mem
<1>2. CASE Holds(w)
  <2>1. row' = [row EXCEPT ![mem[w].row] = r]
    BY <1>2 DEF Settle
  <2>2. \A e \in Emails : row'[e] = IF e = mem[w].row THEN r ELSE row[e]
    BY <1>1, <2>1 DEF TypeOK, TypeRows
  <2>3. RowStep(row[mem[w].row], r, Claims(w, mem[w].row), Marks(w, mem[w].row), Cancel(w))
    BY <1>2 DEF Row
  <2> QED
    BY <2>2, <2>3, RowStepSame DEF TickRows
<1>3. CASE ~Holds(w)
  BY <1>3, RowStepSame DEF Settle, TickRows
<1> QED
  BY <1>2, <1>3

LEMMA SettlingRows ==
  ASSUME TypeOK, NEW w \in Workers,
         Wait(w) \/ Cancel(w) \/ FailBeforeSend(w) \/ Commit(w) \/ MarkSent(w) \/ Retry(w)
  PROVE  TickRows(w)
<1> DEFINE A == Claims(w, mem[w].row)
           B == Marks(w, mem[w].row)
<1>1. Row(w) \in EmailRow /\ (Holds(w) => Row(w).st = "sending")
  BY DEF TypeOK, TypeTicks, TypeRows, Mem, Row, Holds
<1>2. mem[w] \in Mem
  BY DEF TypeOK, TypeTicks
<1>3. ASSUME NEW r \in EmailRow, Settle(w, r), r.id = Row(w).id, r.st \in {"queued", "failed"}
      PROVE  TickRows(w)
  <2>1. Holds(w) => RowStep(Row(w), r, A, B, Cancel(w))
    BY <1>1, <1>3 DEF RowStep, InSeller
  <2> QED
    BY <1>3, <2>1, SettleRows
<1>4. /\ Requeued(Row(w)) \in EmailRow /\ Requeued(Row(w)).id = Row(w).id /\ Requeued(Row(w)).st = "queued"
      /\ Failed(Row(w)) \in EmailRow /\ Failed(Row(w)).id = Row(w).id /\ Failed(Row(w)).st = "failed"
  BY <1>1 DEF Requeued, Failed, EmailRow, RowStatus
<1>5. CASE Wait(w)
  <2> DEFINE q == [Requeued(Row(w)) EXCEPT !.tries = IF @ = 0 THEN 0 ELSE @ - 1]
  <2>1. Settle(w, Failed(Row(w))) \/ Settle(w, q)
    BY <1>5 DEF Wait
  <2>2. q \in EmailRow /\ q.id = Row(w).id /\ q.st = "queued"
    BY <1>4 DEF EmailRow
  <2> QED
    BY <1>3, <1>4, <2>1, <2>2
<1>6. CASE FailBeforeSend(w) \/ Retry(w)
  BY <1>3, <1>4, <1>6 DEF FailBeforeSend, Retry
<1>7. CASE Commit(w)
  <2> DEFINE r == [Row(w) EXCEPT !.first = TRUE]
  <2>1. Settle(w, r) /\ r \in EmailRow /\ r.st = Row(w).st /\ r.by = Row(w).by /\ r.id = Row(w).id
    BY <1>1, <1>7 DEF Commit, EmailRow
  <2>2. Holds(w) => RowStep(Row(w), r, A, B, Cancel(w))
    <3> HIDE DEF r
    <3> QED  BY <1>1, <2>1 DEF RowStep, InSeller
  <2> QED
    BY <2>1, <2>2, SettleRows
<1>8. CASE MarkSent(w)
  <2> DEFINE r == [Row(w) EXCEPT !.st = "sent", !.id = TRUE, !.stale = FALSE]
  <2>1. Settle(w, r) /\ r \in EmailRow /\ r.st = "sent"
    BY <1>1, <1>8 DEF MarkSent, EmailRow, RowStatus
  <2>2. Holds(w) => B
    BY <1>8 DEF MarkSent, At, Marks
  <2>3. Holds(w) => RowStep(Row(w), r, A, B, Cancel(w))
    <3> HIDE DEF r
    <3> QED  BY <1>1, <2>1, <2>2 DEF RowStep, InSeller
  <2> QED
    BY <2>1, <2>3, SettleRows
<1>9. CASE Cancel(w)
  <2> DEFINE r == [Row(w) EXCEPT !.st = "canceled", !.why = mem[w].block, !.stale = FALSE]
  <2>1. Settle(w, r) /\ r \in EmailRow /\ r.st = "canceled" /\ r.id = Row(w).id
    BY <1>1, <1>2, <1>9 DEF Cancel, EmailRow, RowStatus, Mem
  <2>2. Holds(w) => RowStep(Row(w), r, A, B, Cancel(w))
    <3> HIDE DEF r
    <3> QED  BY <1>1, <1>9, <2>1 DEF RowStep, InSeller
  <2> QED
    BY <2>1, <2>2, SettleRows
<1> QED
  BY <1>5, <1>6, <1>7, <1>8, <1>9

LEMMA TickRowsHold ==
  ASSUME TypeOK, NEW w \in Workers, Tick(w) \/ Work(w) \/ Failure(w)
  PROVE  TickRows(w)
<1>1. row \in [Emails -> EmailRow]
  BY DEF TypeOK, TypeRows
<1>2. CASE Reap(w)
  <2>1. ASSUME NEW e \in Emails
        PROVE  RowStep(row[e], Reaped(row[e]), Claims(w, e), Marks(w, e), Cancel(w))
    <3>1. row[e] \in EmailRow
      BY <1>1
    <3>2. CASE row[e].st = "sending"
      BY <3>1, <3>2 DEF Reaped, RowStep, InSeller, EmailRow
    <3>3. CASE row[e].st # "sending"
      BY <3>3, RowStepSame DEF Reaped
    <3> QED
      BY <3>2, <3>3
  <2> QED
    BY <1>2, <2>1 DEF Reap, TickRows
<1>3. CASE Claim(w)
  <2>1. PICK e \in due[w] :
          \/ row' = row
          \/ /\ row[e].st = "queued"
             /\ row' = [row EXCEPT ![e].st = "sending", ![e].tries = @ + 1, ![e].by = w, ![e].stale = FALSE]
             /\ Goto(w, "facts", [NoMem EXCEPT !.row = e, !.tries = row[e].tries + 1, !.first = row[e].first])
    BY <1>3 DEF Claim
  <2>2. CASE row' = row
    BY <2>2, RowStepSame DEF TickRows
  <2>3. CASE row' # row
    <3> DEFINE m == [NoMem EXCEPT !.row = e, !.tries = row[e].tries + 1, !.first = row[e].first]
    <3>0. m.row = e /\ Goto(w, "facts", m)
      BY <2>1, <2>3 DEF NoMem
    <3> HIDE DEF m
    <3>1. e \in Emails /\ row[e] \in EmailRow /\ pc'[w] = "facts" /\ mem'[w].row = e
      BY <1>1, <3>0 DEF TypeOK, TypeTicks, Goto
    <3>2. row'[e].by = w /\ row'[e].st = "sending" /\ row'[e].id = row[e].id /\ row[e].st = "queued"
      BY <1>1, <2>1, <2>3, <3>1 DEF EmailRow
    <3>3. \A f \in Emails : f # e => row'[f] = row[f]
      BY <1>1, <2>1, <2>3, <3>1
    <3>4. RowStep(row[e], row'[e], Claims(w, e), Marks(w, e), Cancel(w))
      BY <3>1, <3>2 DEF RowStep, Claims, InSeller
    <3> QED
      BY <3>3, <3>4, RowStepSame DEF TickRows
  <2> QED
    BY <2>2, <2>3
<1>4. CASE List(w) \/ EndTick(w) \/ ReadFacts(w) \/ ReadAddress(w) \/ ReadCount(w) \/ Send(w)
           \/ SendUnanswered(w) \/ SendRefused(w) \/ Throw(w) \/ Crash(w)
  <2>1. row' = row
    BY <1>4, Zenon DEF List, EndTick, ReadFacts, ReadAddress, ReadCount, Send, SendUnanswered, SendRefused, Throw, Crash
  <2> QED
    BY <2>1, RowStepSame DEF TickRows
<1>5. CASE Wait(w) \/ Cancel(w) \/ FailBeforeSend(w) \/ Commit(w) \/ MarkSent(w) \/ Retry(w)
  BY <1>5, SettlingRows
<1> QED
  BY <1>2, <1>3, <1>4, <1>5 DEF Tick, Work, Failure

LEMMA AroundRowsHold ==
  ASSUME TypeOK, Around
  PROVE  AroundRows
<1>1. row \in [Emails -> EmailRow]
  BY DEF TypeOK, TypeRows
<1>2. CASE row' = row
  BY <1>2, RowStepSame DEF AroundRows
<1>3. ASSUME NEW e \in Emails, NEW r, row' = [row EXCEPT ![e] = r], RowStep(row[e], r, FALSE, FALSE, FALSE)
      PROVE  AroundRows
  BY <1>1, <1>3, RowStepSame DEF AroundRows
<1>4. ASSUME NEW e \in Emails, NEW p \in Purposes, Queue(e, p) PROVE AroundRows
  <2> DEFINE r == [NoRow EXCEPT !.st = "queued", !.purpose = p, !.due = practice \/ seller.hours]
  <2>1. row' = [row EXCEPT ![e] = r] /\ row[e].st = "none"
    BY <1>4 DEF Queue
  <2>2. r.st = "queued" /\ r.id = FALSE
    BY DEF NoRow
  <2> HIDE DEF r
  <2>3. RowStep(row[e], r, FALSE, FALSE, FALSE)
    BY <2>1, <2>2 DEF RowStep, InSeller
  <2> QED
    BY <1>3, <2>1, <2>3
<1>5. ASSUME NEW e \in Emails, Due(e) \/ Stale(e) \/ KeyAges(e) PROVE AroundRows
  <2>1. row[e] \in EmailRow
    BY <1>1
  <2>2. CASE Due(e)
    BY <1>1, <2>1, <2>2, RowStepSame DEF Due, AroundRows, RowStep, InSeller, EmailRow
  <2>3. CASE Stale(e)
    BY <1>1, <2>1, <2>3, RowStepSame DEF Stale, AroundRows, RowStep, InSeller, EmailRow
  <2>4. CASE KeyAges(e)
    BY <1>1, <2>1, <2>4, RowStepSame DEF KeyAges, AroundRows, RowStep, InSeller, EmailRow
  <2> QED
    BY <1>5, <2>2, <2>3, <2>4
<1>6. ASSUME NEW e \in Emails, Delivered(e) \/ Undelivered(e) \/ Bounced(e) \/ Complained(e)
      PROVE  AroundRows
  <2>1. PICK s \in {"delivered", "failed", "bounced", "complained"} :
          /\ row[e].id /\ row' = [row EXCEPT ![e].st = s]
          /\ s = "delivered" => row[e].st \in {"sending", "sent"}
    BY <1>6 DEF Delivered, Undelivered, Bounced, Complained, Move
  <2>2. row[e] \in EmailRow
    BY <1>1
  <2> QED
    BY <1>1, <2>1, <2>2, RowStepSame DEF AroundRows, RowStep, InSeller, EmailRow
<1>7. CASE People \/ \E e \in Emails : Forget(e)
  BY <1>2, <1>7 DEF People, Switch, TakeOver, GiveBack, Book, Stop, Spoil, HoursOpen, HoursClose, Forget
<1> QED
  BY <1>4, <1>5, <1>6, <1>7 DEF Around, Events, Time

-----------------------------------------------------------------------------
(* The cap: emails out, and those a tick holding its row may still put out. *)

\* The tick has counted, and the cap let its email through.
Ready(w) == (pc[w] = "act" /\ mem[w].block = "ok") \/ pc[w] \in {"send", "sent"}
OnCap == {e \in Emails : \/ row[e].st \in InSeller
                         \/ \E w \in Workers : Ready(w) /\ Holds(w) /\ mem[w].row = e}
CapInv ==
  /\ IsFiniteSet(Out)
  /\ Cardinality(OnCap) <= Cap
  /\ \A e \in Emails : row[e].id => row[e].st \notin {"none", "queued", "sending"}

\* A tick becomes ready only by counting.
Counts(w) ==
  /\ row' = row /\ mem'[w].row = mem[w].row
  /\ ~(Cardinality(Out \ {mem[w].row}) >= Cap)

LEMMA ReadyFrom ==
  ASSUME TypeOK, NEW w \in Workers, Tick(w) \/ Work(w) \/ Failure(w), Ready(w)'
  PROVE  (Ready(w) /\ mem'[w] = mem[w]) \/ Counts(w)
<1> USE DEF TypeOK
<1>1. mem[w] \in Mem /\ NoMem \in Mem
  BY NoMemType DEF TypeTicks
<1>2. ASSUME NEW s \in Steps, NEW m \in Mem, Goto(w, s, m)
      PROVE  pc'[w] = s /\ mem'[w] = m
  BY <1>2, GotoType
<1>3. CASE ReadFacts(w)
  <2>1. PICK m : Goto(w, "address", m)
    BY <1>3 DEF ReadFacts
  <2> QED
    BY <2>1 DEF Goto, TypeTicks, Ready
<1>4. CASE ReadAddress(w)
  <2> DEFINE held == mem[w].held \/ (~practice /\ (seller.barred \/ (Row(w).purpose = "first" /\ ~seller.warm)))
             block == IF mem[w].block # "ok" THEN mem[w].block ELSE IF held THEN "seller" ELSE "ok"
             m == [mem[w] EXCEPT !.held = held, !.block = block]
  <2>1. Goto(w, IF block = "ok" THEN "count" ELSE "act", m)
    BY <1>4 DEF ReadAddress
  <2>2. held \in BOOLEAN /\ block \in Blocks
    BY <1>1 DEF Mem, Blocks, TenantBlocks
  <2> HIDE DEF held, block
  <2>3. m \in Mem /\ m.block = block
    BY <1>1, <2>2 DEF Mem
  <2> HIDE DEF m
  <2> QED
    BY <1>2, <2>1, <2>3 DEF Ready, Steps
<1>5. CASE ReadCount(w)
  <2> DEFINE full == Cardinality(Out \ {mem[w].row}) >= Cap
             block == IF full THEN "daily_cap"
                      ELSE IF ~practice /\ ~seller.hours THEN "outside_window" ELSE "ok"
             m == [mem[w] EXCEPT !.block = block]
  <2>1. Goto(w, "act", m) /\ row' = row
    BY <1>5 DEF ReadCount
  <2>2. block \in Blocks /\ (block = "ok" => ~full)
    BY DEF Blocks
  <2> HIDE DEF block
  <2>3. m \in Mem /\ m.block = block /\ m.row = mem[w].row
    BY <1>1, <2>2 DEF Mem
  <2> HIDE DEF m
  <2>4. pc'[w] = "act" /\ mem'[w] = m
    BY <1>2, <2>1, <2>3 DEF Steps
  <2>5. ~full /\ mem'[w].row = mem[w].row
    BY <2>2, <2>3, <2>4 DEF Ready
  <2> QED
    BY <2>1, <2>5 DEF Counts
<1>6. CASE Commit(w)
  <2>1. Ready(w) /\ (Goto(w, "send", mem[w]) \/ Goto(w, "scan", NoMem))
    BY <1>6 DEF Commit, NextRow, Ready, At
  <2> QED
    BY <1>1, <1>2, <2>1 DEF Ready, Steps
<1>7. CASE Send(w) \/ SendUnanswered(w) \/ SendRefused(w)
  <2>1. Ready(w) /\ \E s \in {"sent", "retry", "rejected"} : Goto(w, s, mem[w])
    BY <1>7 DEF Send, SendUnanswered, SendRefused, At, Ready
  <2> QED
    BY <1>1, <1>2, <2>1 DEF Steps
<1>8. CASE Reap(w) \/ List(w) \/ EndTick(w) \/ Wait(w) \/ Cancel(w) \/ FailBeforeSend(w) \/ MarkSent(w)
           \/ Retry(w) \/ Throw(w) \/ Crash(w)
  <2>1. \E s \in {"list", "scan", "idle"} : Goto(w, s, NoMem)
    BY <1>8, Zenon DEF Reap, List, EndTick, Wait, Cancel, FailBeforeSend, MarkSent, Retry, Throw, Crash, NextRow
  <2> QED
    BY <1>1, <1>2, <2>1 DEF Ready, Steps
<1>9. CASE Claim(w)
  <2>1. \E s \in {"facts", "scan"} : \E m : Goto(w, s, m)
    BY <1>9 DEF Claim
  <2> QED
    BY <2>1 DEF Goto, TypeTicks, Ready
<1> QED
  BY <1>3, <1>4, <1>5, <1>6, <1>7, <1>8, <1>9 DEF Tick, Work, Failure

\* Emails on their way, or out, are few: one at a time is claimed.
LEMMA CapStepTick ==
  ASSUME TypeOK, CapInv, NEW w \in Workers, Tick(w) \/ Work(w) \/ Failure(w)
  PROVE  CapInv'
<1>1. TickRows(w) /\ Moves(w)
  BY TickRowsHold, TickMoves
<1>2. mem[w].row \in Emails /\ \A e \in Emails : row[e].st \in RowStatus
  BY DEF TypeOK, TypeTicks, TypeRows, Mem, EmailRow
<1>3. \A e \in Emails : row'[e].id => row'[e].st \notin {"none", "queued", "sending"}
  BY <1>1 DEF CapInv, TickRows, RowStep
<1>4. OnCap \subseteq Out /\ OnCap' \subseteq Out'
  BY DEF OnCap, Out, InSeller, Holds, Row
<1>5. IsFiniteSet(Out')
  <2>1. Out' \subseteq Out \cup {mem'[w].row}
    BY <1>1 DEF Out, TickRows, RowStep, Claims, Marks, Holds, Row, InSeller
  <2>2. IsFiniteSet(Out \cup {mem'[w].row})
    BY FS_AddElement DEF CapInv
  <2> QED
    BY <2>1, <2>2, FS_Subset
<1>6. \A v \in Workers : Holds(v)' /\ mem'[v] = mem[v] /\ pc'[v] # "facts" =>
        Holds(v) \/ (v # w /\ row'[mem[v].row].by = w)
  BY <1>1 DEF TickRows, RowStep, Claims, Holds, Row, TypeOK, TypeTicks, Mem
<1>7. \A v \in Workers : Holds(v)' => row'[mem'[v].row].by = v
  BY DEF Holds, Row
<1>8. ASSUME NEW v \in Workers, v # w, Ready(v)', Holds(v)'
      PROVE  Ready(v) /\ Holds(v) /\ mem'[v] = mem[v]
  <2>1. mem'[v] = mem[v] /\ pc'[v] = pc[v]
    BY <1>1, <1>8 DEF Moves
  <2>2. pc'[v] # "facts" /\ Ready(v)
    BY <1>8, <2>1 DEF Ready
  <2> QED
    BY <1>6, <1>7, <1>8, <2>1, <2>2
<1>9. CASE Counts(w) /\ Ready(w)' /\ Holds(w)'
  <2>1. OnCap' \subseteq OnCap \cup {mem[w].row}
    BY <1>8, <1>9 DEF Counts, OnCap
  <2>2. OnCap' \ {mem[w].row} \subseteq Out \ {mem[w].row}
    BY <1>4, <2>1
  <2>3. IsFiniteSet(Out \ {mem[w].row}) /\ Cardinality(Out \ {mem[w].row}) \in Nat
    BY FS_RemoveElement, FS_CardinalityType DEF CapInv
  <2>4. IsFiniteSet(OnCap') /\ IsFiniteSet(OnCap' \ {mem[w].row})
    BY <1>4, <1>5, <2>2, <2>3, FS_Subset
  <2>5. Cardinality(OnCap' \ {mem[w].row}) <= Cardinality(Out \ {mem[w].row})
    BY <2>2, <2>3, FS_Subset
  <2>6. Cardinality(OnCap') <= Cardinality(OnCap' \ {mem[w].row}) + 1
    <3>1. Cardinality(OnCap') \in Nat
      BY <2>4, FS_CardinalityType
    <3>2. Cardinality(OnCap' \ {mem[w].row}) = IF mem[w].row \in OnCap' THEN Cardinality(OnCap') - 1
                                               ELSE Cardinality(OnCap')
      BY <2>4, FS_RemoveElement
    <3> QED
      BY <3>1, <3>2
  <2>7. Cardinality(OnCap') \in Nat /\ Cardinality(OnCap' \ {mem[w].row}) \in Nat
    BY <2>4, FS_CardinalityType
  <2>8. Cardinality(Out \ {mem[w].row}) < Cap
    BY <1>9, <2>3, OutboxAssumption DEF Counts
  <2>9. Cardinality(OnCap') <= Cap
    BY <2>3, <2>5, <2>6, <2>7, <2>8, OutboxAssumption
  <2> QED
    BY <1>3, <1>5, <2>9 DEF CapInv
<1>10. CASE ~(Counts(w) /\ Ready(w)' /\ Holds(w)')
  <2>1. ASSUME Ready(w)', Holds(w)'
        PROVE  Ready(w) /\ Holds(w) /\ mem'[w] = mem[w]
    <3>1. Ready(w) /\ mem'[w] = mem[w]
      BY <1>10, <2>1, ReadyFrom
    <3>2. pc'[w] # "facts"
      BY <2>1 DEF Ready
    <3> QED
      BY <1>6, <2>1, <3>1, <3>2
  <2>2. \A e \in Emails : row'[e].st \in InSeller => e \in OnCap
    BY <1>1 DEF TickRows, RowStep, CapInv, Marks, OnCap, Ready
  <2>3. OnCap' \subseteq OnCap
    BY <1>8, <2>1, <2>2 DEF OnCap
  <2>4. IsFiniteSet(OnCap)
    BY <1>4, FS_Subset DEF CapInv
  <2>5. Cardinality(OnCap') <= Cardinality(OnCap) /\ Cardinality(OnCap') \in Nat /\ Cardinality(OnCap) \in Nat
    BY <2>3, <2>4, FS_Subset, FS_CardinalityType
  <2>6. Cardinality(OnCap') <= Cap
    BY <2>5, OutboxAssumption DEF CapInv
  <2> QED
    BY <1>3, <1>5, <2>6 DEF CapInv
<1> QED
  BY <1>9, <1>10

LEMMA CapStepAround ==
  ASSUME TypeOK, CapInv, Around
  PROVE  CapInv'
<1>1. AroundRows /\ pc' = pc
  BY AroundRowsHold, AroundTicks
<1>2. \A v \in Workers : mem'[v].row = mem[v].row /\ mem'[v].block = mem[v].block
  <2>1. UNCHANGED mem \/ Stopping
    BY AroundTicks
  <2>2. \A v \in Workers : mem[v] \in Mem
    BY DEF TypeOK, TypeTicks
  <2> QED
    BY <2>1, <2>2 DEF Stopping, Mem
<1>3. \A e \in Emails : row'[e].id => row'[e].st \notin {"none", "queued", "sending"}
  BY <1>1 DEF CapInv, AroundRows, RowStep
<1>4. Out' \subseteq Out /\ OnCap \subseteq Out
  BY <1>1 DEF Out, OnCap, AroundRows, RowStep, InSeller, Holds, Row
<1>5. \A v \in Workers : Ready(v)' /\ Holds(v)' => Ready(v) /\ Holds(v)
  BY <1>1, <1>2 DEF Ready, Holds, Row, AroundRows, RowStep, TypeOK, TypeTicks, Mem
<1>6. OnCap' \subseteq OnCap
  BY <1>1, <1>2, <1>5 DEF OnCap, AroundRows, RowStep, CapInv
<1>7. IsFiniteSet(Out') /\ IsFiniteSet(OnCap)
  BY <1>4, FS_Subset DEF CapInv
<1>8. Cardinality(OnCap') <= Cardinality(OnCap) /\ Cardinality(OnCap') \in Nat /\ Cardinality(OnCap) \in Nat
  BY <1>6, <1>7, FS_Subset, FS_CardinalityType
<1>9. Cardinality(OnCap') <= Cap
  BY <1>8, OutboxAssumption DEF CapInv
<1> QED
  BY <1>3, <1>7, <1>9 DEF CapInv

\* send.ts:11-13: whatever order two ticks claim and count in, the emails the
\* outbox knows to be out never pass the cap: a claim counts against it.
THEOREM CapHoldsAlways == Spec => []CapHolds
<1>1. Init => CapInv
  <2> SUFFICES ASSUME Init PROVE CapInv
    OBVIOUS
  <2>1. Out = {} /\ OnCap = {}
    BY DEF Init, Out, OnCap, NoRow, InSeller, Ready
  <2> QED
    BY <2>1, FS_EmptySet, OutboxAssumption DEF CapInv, Init, NoRow
<1>2. TypeOK /\ CapInv /\ [Next]_vars => CapInv'
  <2> SUFFICES ASSUME TypeOK, CapInv, [Next]_vars PROVE CapInv'
    OBVIOUS
  <2>1. CASE UNCHANGED vars
    BY <2>1 DEF vars, CapInv, Out, OnCap, Ready, Holds, Row
  <2> QED
    BY <2>1, CapStepTick, CapStepAround, NextSplit
<1>3. TypeOK /\ CapInv => CapHolds
  <2> SUFFICES ASSUME CapInv PROVE CapHolds
    OBVIOUS
  <2> DEFINE S == {e \in Emails : row[e].st \in {"sent", "delivered"}}
  <2>1. S \subseteq OnCap /\ OnCap \subseteq Out
    BY DEF OnCap, InSeller, Out, Holds, Row
  <2>2. IsFiniteSet(OnCap)
    BY <2>1, FS_Subset DEF CapInv
  <2>3. Cardinality(S) <= Cardinality(OnCap) /\ Cardinality(S) \in Nat /\ Cardinality(OnCap) \in Nat
    BY <2>1, <2>2, FS_Subset, FS_CardinalityType
  <2> QED
    BY <2>3, OutboxAssumption DEF CapHolds, CapInv
<1> QED
  BY <1>1, <1>2, <1>3, TypeCorrect, PTL DEF Spec

-----------------------------------------------------------------------------
(* An answer canceled for a tenant rule or the cap has a person on it.     *)

LEMMA HeldStepTick ==
  ASSUME TypeOK, AnswerHeld, NEW w \in Workers, Tick(w) \/ Work(w) \/ Failure(w)
  PROVE  AnswerHeld'
<1>1. TickRows(w) /\ practice' = practice
  BY TickRowsHold, TickTypes
<1>2. CASE ~Cancel(w)
  <2>1. UNCHANGED world /\ excused' = excused
    BY <1>2, Zenon DEF Tick, Work, Failure, Reap, List, Claim, EndTick, ReadFacts, ReadAddress, ReadCount, Wait,
       FailBeforeSend, Commit, Send, MarkSent, Retry, SendUnanswered, SendRefused, Throw, Crash
  <2>2. \A e \in Emails : row'[e].st = "canceled" => row'[e] = row[e]
    BY <1>1, <1>2 DEF TickRows, RowStep
  <2> QED
    BY <1>1, <2>1, <2>2 DEF AnswerHeld, world
<1>3. CASE Cancel(w)
  <2> DEFINE r == [Row(w) EXCEPT !.st = "canceled", !.why = mem[w].block, !.stale = FALSE]
  <2>1. /\ Settle(w, r)
        /\ seller' = [seller EXCEPT !.flag = @ \/ (Holds(w) /\ NeedsPerson(w))]
        /\ excused' = IF mem[w].held THEN excused \cup {mem[w].row} ELSE excused
        /\ mem[w].block \in TenantBlocks \cup {"seller", "daily_cap"}
        /\ helped' = helped
    BY <1>3 DEF Cancel
  <2>2. Row(w) \in EmailRow /\ mem[w].row \in Emails /\ seller \in Seller /\ mem[w] \in Mem
    BY DEF TypeOK, TypeTicks, TypeRows, TypeWorld, Mem, Row
  <2>3. r.purpose = Row(w).purpose /\ r.why = mem[w].block
    BY <2>2 DEF EmailRow
  <2>4. excused \subseteq excused' /\ (seller.flag => seller'.flag) /\ (Holds(w) /\ NeedsPerson(w) => seller'.flag)
    BY <2>1, <2>2 DEF Seller
  <2> HIDE DEF r
  <2>5. ASSUME NEW e \in Emails, row'[e] = row[e]
        PROVE  row'[e].st = "canceled" /\ row'[e].purpose \in Answers /\ row'[e].why # "seller" /\ ~practice'
                 => e \in excused' \/ seller'.flag \/ helped'
    BY <1>1, <2>1, <2>4, <2>5 DEF AnswerHeld
  <2>6. ASSUME Holds(w), r.purpose \in Answers, r.why # "seller", ~practice
        PROVE  mem[w].row \in excused' \/ seller'.flag
    <3>1. mem[w].held \/ NeedsPerson(w)
      BY <2>1, <2>3, <2>6 DEF NeedsPerson
    <3> QED
      BY <2>1, <2>4, <2>6, <3>1
  <2>7. \A e \in Emails : row'[e] = row[e] \/ (Holds(w) /\ e = mem[w].row /\ row'[e] = r)
    BY <2>1, <2>2 DEF Settle, TypeOK, TypeRows
  <2> QED
    BY <1>1, <2>5, <2>6, <2>7 DEF AnswerHeld
<1> QED
  BY <1>2, <1>3

LEMMA HeldStepAround ==
  ASSUME TypeOK, AnswerHeld, Around
  PROVE  AnswerHeld'
<1>1. AroundRows /\ practice' = practice /\ excused' = excused
  BY AroundRowsHold, AroundTicks
<1>2. \A e \in Emails : row'[e].st = "canceled" => row'[e] = row[e]
  BY <1>1 DEF AroundRows, RowStep
<1>3. seller.flag \/ helped => seller'.flag \/ helped'
  <2>1. seller \in Seller
    BY DEF TypeOK, TypeWorld
  <2>2. CASE \E e \in Emails : \E p \in Purposes : Queue(e, p)
    BY <2>2 DEF Queue, world
  <2>3. CASE Time
    BY <2>3 DEF Time, Due, Stale, KeyAges, Forget, world
  <2>4. CASE Events
    BY <2>1, <2>4 DEF Events, Delivered, Undelivered, Bounced, Complained, world, Seller, StoppedBy
  <2>5. CASE Switch \/ TakeOver \/ GiveBack \/ Book \/ HoursOpen \/ HoursClose
    BY <2>1, <2>5 DEF Switch, TakeOver, GiveBack, Book, HoursOpen, HoursClose, Seller
  <2>6. CASE Stop
    BY <2>1, <2>6 DEF Stop, StoppedBy, Seller
  <2>7. CASE Spoil
    BY <2>1, <2>7 DEF Spoil, Seller
  <2> QED
    BY <2>2, <2>3, <2>4, <2>5, <2>6, <2>7 DEF Around, People
<1> QED
  BY <1>1, <1>2, <1>3 DEF AnswerHeld

\* send.ts:25-33: an answer canceled for the switch, the pause or the cap has a
\* person on it, unless the seller was held back anyway.
THEOREM AnswerHeldAlways == Spec => []AnswerHeld
<1>1. Init => AnswerHeld
  BY DEF Init, AnswerHeld, NoRow
<1>2. TypeOK /\ AnswerHeld /\ [Next]_vars => AnswerHeld'
  <2> SUFFICES ASSUME TypeOK, AnswerHeld, [Next]_vars PROVE AnswerHeld'
    OBVIOUS
  <2>1. CASE UNCHANGED vars
    BY <2>1 DEF vars, AnswerHeld
  <2> QED
    BY <2>1, HeldStepTick, HeldStepAround, NextSplit
<1> QED
  BY <1>1, <1>2, TypeCorrect, PTL DEF Spec
=============================================================================
