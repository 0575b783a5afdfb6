--------------------------- MODULE Outreach_proofs ---------------------------
(***************************************************************************)
(* What handling a seller's replies promises whatever the ticks, events,   *)
(* replies and bounds.  The argument is the row lock's: the transaction    *)
(* that holds a reply found it unhandled, nobody else holds it, and it is  *)
(* given up exactly when the transaction ends.  Beside the AI calls the    *)
(* replies keep their promises, and the calls theirs (AiTrigger_proofs).   *)
(***************************************************************************)
EXTENDS Outreach, TLAPS

StopKinds == {"mailbox", "stop"}

\* Tick v and the reply it is about.
TickInv(v) ==
  /\ pc[v] \in InTransaction => lock[R(v)] = v /\ ~reply[R(v)].handled
  /\ pc[v] \in {"alert", "settleDone"} => reply[R(v)].handled
  /\ pc[v] \in {"act", "ask"} /\ reply[R(v)].kind \in StopKinds
       => pc[v] = "act" /\ mem[v].decision = "opt_out"
\* A lock is held in a transaction about its own reply.
LockInv(r) == lock[r] # "nobody" => pc[lock[r]] \in InTransaction /\ R(lock[r]) = r
TicksInv == (\A v \in Ticks : TickInv(v)) /\ (\A r \in Replies : LockInv(r))

\* What a reply has left behind.
ReplyInv(r) ==
  /\ timeline[r] = IF reply[r].stored THEN 1 ELSE 0
  /\ acted[r] = IF reply[r].handled THEN 1 ELSE 0
  /\ queued[r] <= acted[r]
  /\ reply[r].handled /\ reply[r].kind \in StopKinds => seller.status = "stopped" /\ queued[r] = 0
RepliesInv == \A r \in Replies : ReplyInv(r)

Types == TypeRows /\ TypeWorld /\ TypeTicks
Inv == Types /\ TicksInv /\ RepliesInv /\ DoneMeansHandled

-----------------------------------------------------------------------------
(* The pieces steps are made of.                                           *)

LEMMA NoMemType == NoMem \in Mem
<1>1. AnyEvent \in Events
  BY RepliesAssumption DEF AnyEvent
<1> QED
  BY <1>1 DEF NoMem, Mem, Decisions

LEMMA GotoFacts ==
  ASSUME TypeTicks, NEW k \in Ticks, NEW s \in Steps, NEW m \in Mem, Goto(k, s, m)
  PROVE  /\ pc' \in [Ticks -> Steps] /\ mem' \in [Ticks -> Mem]
         /\ \A v \in Ticks : /\ pc'[v] = IF v = k THEN s ELSE pc[v]
                             /\ mem'[v] = IF v = k THEN m ELSE mem[v]
BY DEF TypeTicks, Goto

\* Step(k, s) moves to s with the memory kept, or none.
LEMMA StepGoes ==
  ASSUME TypeTicks, NEW k \in Ticks, NEW s \in Steps, Step(k, s)
  PROVE  \E m \in Mem : /\ Goto(k, s, m)
                        /\ s \notin {"idle", "scan"} => m = mem[k]
<1>1. mem[k] \in Mem
  BY DEF TypeTicks
<1> QED
  BY <1>1, NoMemType DEF Step

LEMMA TicksTypes ==
  ASSUME TypeTicks, NEW k \in Ticks
  PROVE  /\ pc[k] \in Steps /\ mem[k] \in Mem /\ mem[k].ev \in Events /\ R(k) \in Replies
         /\ todo[k] \in SUBSET Events
BY RepliesAssumption DEF TypeTicks, Mem, R

LEMMA PlusFacts ==
  ASSUME NEW f, NEW g, f \in [Replies -> Nat], NEW q \in Replies, g = [f EXCEPT ![q] = @ + 1]
  PROVE  /\ g \in [Replies -> Nat]
         /\ \A r \in Replies : g[r] = IF r = q THEN f[r] + 1 ELSE f[r]
<1>1. f[q] + 1 \in Nat
  OBVIOUS
<1> QED
  BY <1>1

LEMMA FaultType ==
  ASSUME TypeWorld, NEW f, Fault(f)
  PROVE  faults' \in Nat
BY DEF TypeWorld, Fault

LEMMA UnlockType ==
  ASSUME TypeTicks, NEW k \in Ticks, Unlock(k)
  PROVE  /\ lock' \in [Replies -> Ticks \cup {"nobody"}]
         /\ \A r \in Replies : lock'[r] = IF lock[r] = k THEN "nobody" ELSE lock[r]
BY DEF TypeTicks, Unlock

-----------------------------------------------------------------------------
(* The transactions and their locks.                                       *)

\* A reply keeps what it says; only the transaction about it marks it handled.
Handled(k) ==
  \A r \in Replies :
    /\ reply'[r].kind = reply[r].kind
    /\ \/ reply'[r].handled = reply[r].handled
       \/ pc[k] \in InTransaction /\ r = R(k) /\ reply'[r].handled

\* A step that leaves tick k outside a transaction, and no lock with it.
LEMMA LeavesInv ==
  ASSUME Types, TicksInv, NEW k \in Ticks, NEW s \in Steps \ InTransaction, NEW m \in Mem,
         Goto(k, s, m), Handled(k), TypeRows',
         \A r \in Replies : lock'[r] = IF lock[r] = k THEN "nobody" ELSE lock[r],
         s \in {"alert", "settleDone"} => reply'[Names[m.ev]].handled
  PROVE  TicksInv'
<1>0. TypeTicks /\ "nobody" \notin Ticks
  BY RepliesAssumption DEF Types
<1>1. \A v \in Ticks : /\ pc'[v] = IF v = k THEN s ELSE pc[v]
                       /\ mem'[v] = IF v = k THEN m ELSE mem[v]
  BY <1>0, GotoFacts
<1>2. \A v \in Ticks : R(v) \in Replies
  BY <1>0, TicksTypes
<1>3. ASSUME NEW v \in Ticks PROVE TickInv(v)'
  <2>1. CASE v = k
    <3>1. pc'[v] = s /\ R(v)' = Names[m.ev]
      BY <1>1, <2>1 DEF R
    <3> QED
      BY <3>1 DEF TickInv, InTransaction
  <2>2. CASE v # k
    <3>1. pc'[v] = pc[v] /\ mem'[v] = mem[v] /\ R(v)' = R(v)
      BY <1>1, <2>2 DEF R
    <3>2. TickInv(v) /\ TickInv(k)
      BY DEF TicksInv
    <3>3. reply'[R(v)].kind = reply[R(v)].kind
      BY <1>2 DEF Handled
    <3>4. CASE pc[v] \in InTransaction
      <4>1. lock[R(v)] = v /\ ~reply[R(v)].handled
        BY <3>2, <3>4 DEF TickInv
      <4>2. ~(pc[k] \in InTransaction /\ R(v) = R(k))
        BY <3>2, <4>1, <2>2 DEF TickInv
      <4>3. reply'[R(v)].handled = reply[R(v)].handled /\ lock'[R(v)] = v
        BY <4>1, <4>2, <1>2, <2>2 DEF Handled
      <4> QED
        BY <3>1, <3>2, <3>3, <4>1, <4>3 DEF TickInv
    <3>5. CASE pc[v] \notin InTransaction
      <4>1. reply[R(v)].handled => reply'[R(v)].handled
        BY <1>2 DEF Handled
      <4> QED
        BY <3>1, <3>2, <3>3, <3>5, <4>1 DEF TickInv, InTransaction
    <3> QED
      BY <3>4, <3>5
  <2> QED
    BY <2>1, <2>2
<1>4. ASSUME NEW r \in Replies PROVE LockInv(r)'
  <2>1. SUFFICES ASSUME lock'[r] # "nobody" PROVE pc'[lock'[r]] \in InTransaction /\ R(lock[r])' = r /\ lock'[r] = lock[r]
    BY DEF LockInv, R
  <2>2. lock'[r] = lock[r] /\ lock[r] # k /\ lock[r] \in Ticks
    BY <1>0, <2>1 DEF TypeTicks
  <2>3. pc[lock[r]] \in InTransaction /\ R(lock[r]) = r
    BY <2>1, <2>2 DEF TicksInv, LockInv
  <2> QED
    BY <1>1, <2>2, <2>3 DEF R
<1> QED
  BY <1>3, <1>4 DEF TicksInv

\* The same where the tick was in no transaction: it had no lock.
LEMMA OutsideInv ==
  ASSUME Types, TicksInv, NEW k \in Ticks, pc[k] \notin InTransaction,
         NEW s \in Steps \ InTransaction, NEW m \in Mem,
         Goto(k, s, m), Handled(k), TypeRows', lock' = lock,
         s \in {"alert", "settleDone"} => reply'[Names[m.ev]].handled
  PROVE  TicksInv'
<1>1. ASSUME NEW r \in Replies PROVE lock[r] # k
  BY RepliesAssumption DEF TicksInv, LockInv
<1>2. \A r \in Replies : lock'[r] = IF lock[r] = k THEN "nobody" ELSE lock[r]
  BY <1>1
<1> QED
  BY <1>2, LeavesInv

LEMMA LockTaken ==
  ASSUME Inv, NEW k \in Ticks, Lock(k)
  PROVE  TicksInv' /\ TypeTicks'
<1>0. TypeTicks /\ TypeWorld /\ TypeRows /\ TicksInv /\ "nobody" \notin Ticks /\ Types
  BY RepliesAssumption DEF Inv, Types
<1>1. pc[k] = "lock" /\ reply' = reply /\ todo' = todo
  BY DEF Lock, At
<1>2. R(k) \in Replies /\ mem[k] \in Mem
  BY <1>0, TicksTypes
<1>3. CASE Lockable(R(k))
  <2> DEFINE m == [mem[k] EXCEPT !.st = seller.status, !.person = seller.person,
                                 !.flag = seller.flag, !.on = emailOn]
  <2>1. Goto(k, "decide", m) /\ lock' = [lock EXCEPT ![R(k)] = k]
    BY <1>3 DEF Lock
  <2>2. seller.status \in {"open", "booked", "stopped"} /\ seller.person \in BOOLEAN
        /\ seller.flag \in BOOLEAN /\ emailOn \in BOOLEAN
    BY <1>0 DEF TypeWorld, Seller
  <2>3. m \in Mem /\ m.ev = mem[k].ev
    BY <1>2, <2>2 DEF Mem
  <2> HIDE DEF m
  <2>4. "decide" \in Steps
    BY DEF Steps
  <2>5. /\ pc' \in [Ticks -> Steps] /\ mem' \in [Ticks -> Mem]
        /\ \A v \in Ticks : /\ pc'[v] = IF v = k THEN "decide" ELSE pc[v]
                            /\ mem'[v] = IF v = k THEN m ELSE mem[v]
    BY <1>0, <2>1, <2>3, <2>4, GotoFacts
  <2>6. \A v \in Ticks : R(v)' = R(v)
    BY <2>3, <2>5 DEF R
  <2>7. /\ lock' \in [Replies -> Ticks \cup {"nobody"}]
        /\ \A r \in Replies : lock'[r] = IF r = R(k) THEN k ELSE lock[r]
    BY <1>0, <2>1 DEF TypeTicks
  <2>8. lock[R(k)] = "nobody" /\ ~reply[R(k)].handled
    BY <1>3 DEF Lockable
  <2>9. ASSUME NEW v \in Ticks PROVE TickInv(v)'
    <3>1. CASE v = k
      BY <1>1, <1>2, <2>5, <2>6, <2>7, <2>8, <3>1 DEF TickInv
    <3>2. CASE v # k
      <4>1. TickInv(v) /\ pc'[v] = pc[v] /\ mem'[v] = mem[v] /\ R(v)' = R(v) /\ R(v) \in Replies
        BY <1>0, <2>5, <2>6, <3>2, TicksTypes DEF TicksInv
      <4>2. pc[v] \in InTransaction => lock'[R(v)] = v
        BY <1>0, <4>1, <2>7, <2>8 DEF TickInv
      <4> QED
        BY <1>1, <4>1, <4>2 DEF TickInv
    <3> QED
      BY <3>1, <3>2
  <2>10. ASSUME NEW r \in Replies PROVE LockInv(r)'
    <3>1. CASE r = R(k)
      BY <2>5, <2>6, <2>7, <3>1 DEF LockInv, InTransaction, R
    <3>2. CASE r # R(k)
      <4>1. lock'[r] = lock[r]
        BY <2>7, <3>2
      <4>2. CASE lock[r] = "nobody"
        BY <4>1, <4>2 DEF LockInv
      <4>3. CASE lock[r] # "nobody"
        <5>1. lock[r] \in Ticks /\ pc[lock[r]] \in InTransaction /\ R(lock[r]) = r
          BY <1>0, <4>3 DEF TypeTicks, TicksInv, LockInv
        <5>2. lock[r] # k
          BY <1>1, <5>1 DEF InTransaction
        <5> QED
          BY <4>1, <5>1, <5>2, <2>5 DEF LockInv, R
      <4> QED
        BY <4>2, <4>3
    <3> QED
      BY <3>1, <3>2
  <2> QED
    BY <1>0, <1>1, <2>5, <2>7, <2>9, <2>10 DEF TicksInv, TypeTicks
<1>4. CASE ~Lockable(R(k))
  <2>1. Step(k, "peek") /\ lock' = lock
    BY <1>4 DEF Lock
  <2>2. PICK m \in Mem : Goto(k, "peek", m)
    BY <1>0, <2>1, StepGoes DEF Steps
  <2>3. TypeRows'
    BY <1>0 DEF Lock, TypeRows, effects
  <2>4. TicksInv'
    BY <1>0, <1>1, <2>1, <2>2, <2>3, OutsideInv DEF Steps, InTransaction, Handled
  <2>5. pc' \in [Ticks -> Steps] /\ mem' \in [Ticks -> Mem]
    BY <1>0, <2>2, GotoFacts DEF Steps
  <2> QED
    BY <1>0, <1>1, <2>1, <2>4, <2>5 DEF TypeTicks
<1> QED
  BY <1>3, <1>4

LEMMA DecidedInv ==
  ASSUME Inv, NEW k \in Ticks, Decide(k)
  PROVE  TicksInv' /\ TypeTicks'
<1>0. TypeTicks /\ TypeWorld /\ TypeRows /\ TicksInv
  BY DEF Inv, Types
<1>1. pc[k] = "decide" /\ reply' = reply /\ todo' = todo /\ lock' = lock
  BY DEF Decide, At, Unchanged
<1>2. R(k) \in Replies /\ mem[k] \in Mem /\ mem[k].ev \in Events
  BY <1>0, TicksTypes
<1>3. Decision(k) \in Decisions
  BY DEF Decision, Decisions
<1>4. reply[R(k)].kind \in StopKinds => Decision(k) = "opt_out"
  BY DEF Decision, StopKinds
<1> DEFINE d == Decision(k)
           s == IF d = "ask_sam" THEN "ask" ELSE "act"
           m == [NoMem EXCEPT !.ev = mem[k].ev, !.decision = d]
<1>5. Goto(k, s, m)
  BY DEF Decide
<1>6. d \in Decisions /\ (reply[R(k)].kind \in StopKinds => d = "opt_out")
  BY <1>3, <1>4
<1> HIDE DEF d
<1>7. s \in Steps /\ s \in InTransaction
  BY DEF Steps, InTransaction
<1>8. m \in Mem /\ m.ev = mem[k].ev /\ m.decision = d
  BY <1>2, <1>6, NoMemType DEF Mem
<1>9. reply[R(k)].kind \in StopKinds => s = "act" /\ m.decision = "opt_out"
  BY <1>6, <1>8
<1> HIDE DEF s, m
<1>10. /\ pc' \in [Ticks -> Steps] /\ mem' \in [Ticks -> Mem]
       /\ \A v \in Ticks : /\ pc'[v] = IF v = k THEN s ELSE pc[v]
                           /\ mem'[v] = IF v = k THEN m ELSE mem[v]
  BY <1>0, <1>5, <1>7, <1>8, GotoFacts
<1>11. \A v \in Ticks : R(v)' = R(v)
  BY <1>8, <1>10 DEF R
<1>12. ASSUME NEW v \in Ticks PROVE TickInv(v)'
  <2>1. TickInv(v)
    BY <1>0 DEF TicksInv
  <2>2. CASE v = k
    <3>1. pc'[v] = s /\ mem'[v] = m /\ R(v)' = R(k)
      BY <1>10, <1>11, <2>2
    <3>2. lock[R(k)] = k /\ ~reply[R(k)].handled
      BY <1>1, <2>1, <2>2 DEF TickInv, InTransaction
    <3> QED
      BY <1>1, <1>7, <1>9, <2>2, <3>1, <3>2 DEF TickInv, InTransaction
  <2>3. CASE v # k
    BY <1>1, <1>10, <1>11, <2>1, <2>3 DEF TickInv
  <2> QED
    BY <2>2, <2>3
<1>13. ASSUME NEW r \in Replies PROVE LockInv(r)'
  <2>1. CASE lock[r] = "nobody"
    BY <1>1, <2>1 DEF LockInv
  <2>2. CASE lock[r] # "nobody"
    <3>1. lock[r] \in Ticks /\ pc[lock[r]] \in InTransaction /\ R(lock[r]) = r
      BY <1>0, <2>2 DEF TypeTicks, TicksInv, LockInv
    <3> QED
      BY <1>1, <1>7, <1>10, <1>11, <3>1 DEF LockInv, R
  <2> QED
    BY <2>1, <2>2
<1> QED
  BY <1>0, <1>1, <1>10, <1>12, <1>13 DEF TicksInv, TypeTicks

-----------------------------------------------------------------------------
(* Each step of a tick.                                                    *)

\* A step that does nothing to the replies, their effects or the seller.
Still == reply' = reply /\ timeline' = timeline /\ acted' = acted /\ queued' = queued /\ seller' = seller

LEMMA StillReplies ==
  ASSUME RepliesInv, Still
  PROVE  RepliesInv'
BY DEF RepliesInv, ReplyInv, Still

\* Events that become done had their reply handled.
LEMMA DoneKept ==
  ASSUME DoneMeansHandled,
         \A e \in Events : reply[Names[e]].handled => reply'[Names[e]].handled,
         \A e \in Events : event'[e].st = "done" => event[e].st = "done" \/ reply'[Names[e]].handled
  PROVE  DoneMeansHandled'
BY DEF DoneMeansHandled

\* A step of a tick outside a transaction that touches no reply: what is left
\* to show is the step's own tick and its events.
LEMMA StillStep ==
  ASSUME Inv, NEW k \in Ticks, pc[k] \notin InTransaction, NEW s \in Steps \ InTransaction, NEW m \in Mem,
         Goto(k, s, m), lock' = lock, Still, emailOn' = emailOn, crowded' = crowded, changes' = changes,
         faults' = faults \/ \E f \in {"unreadable", "gone"} : Fault(f),
         event' \in [Events -> EventRow], todo' \in [Ticks -> SUBSET Events],
         s \in {"alert", "settleDone"} => reply[Names[m.ev]].handled,
         \A e \in Events : event'[e].st = "done" => event[e].st = "done" \/ reply[Names[e]].handled
  PROVE  Inv'
<1>0. TypeRows /\ TypeWorld /\ TypeTicks /\ TicksInv /\ RepliesInv /\ DoneMeansHandled /\ Types
  BY DEF Inv, Types
<1>1. TypeRows'
  BY <1>0 DEF TypeRows, Still
<1>2. faults' \in Nat
  BY <1>0, FaultType DEF TypeWorld
<1>3. TypeWorld'
  BY <1>0, <1>2 DEF TypeWorld, Still
<1>4. TypeTicks'
  BY <1>0, GotoFacts DEF TypeTicks
<1>5. TicksInv'
  BY <1>0, <1>1, OutsideInv DEF Handled, Still
<1>6. RepliesInv'
  BY <1>0, StillReplies
<1>7. DoneMeansHandled'
  BY <1>0, DoneKept DEF Still
<1> QED
  BY <1>1, <1>3, <1>4, <1>5, <1>6, <1>7 DEF Inv, Types

LEMMA EventFields ==
  ASSUME NEW r \in EventRow
  PROVE  /\ \A b \in BOOLEAN : [r EXCEPT !.due = b] \in EventRow
         /\ \A s \in Ended : [r EXCEPT !.st = s] \in EventRow
         /\ r.tries + 1 \in Nat
BY DEF EventRow

LEMMA ClaimInv == ASSUME Inv, NEW k \in Ticks, ClaimDue(k) PROVE Inv'
<1>1. PICK S \in SUBSET {e \in Events : event[e].st = "pending" /\ event[e].due} :
        /\ event' = [e \in Events |-> IF e \in S THEN Leased(event[e]) ELSE event[e]]
        /\ todo' = [todo EXCEPT ![k] = S]
  BY DEF ClaimDue
<1>2. \A e \in Events : event[e] \in EventRow
  BY DEF Inv, Types, TypeRows
<1>3. \A e \in Events : Leased(event[e]) \in EventRow /\ Leased(event[e]).st = event[e].st
  BY <1>2, EventFields DEF Leased, EventRow
<1>4. event' \in [Events -> EventRow] /\ \A e \in Events : event'[e].st = event[e].st
  BY <1>1, <1>2, <1>3
<1>5. S \in SUBSET Events
  OBVIOUS
<1>6. todo' \in [Ticks -> SUBSET Events]
  BY <1>1, <1>5 DEF Inv, Types, TypeTicks
<1>7. /\ pc[k] \notin InTransaction /\ Goto(k, "scan", NoMem) /\ lock' = lock /\ Still
      /\ emailOn' = emailOn /\ crowded' = crowded /\ changes' = changes /\ faults' = faults
  BY DEF ClaimDue, At, InTransaction, Still, effects, world
<1>8. "scan" \in Steps \ InTransaction
  BY DEF Steps, InTransaction
<1> QED
  BY <1>4, <1>6, <1>7, <1>8, NoMemType, StillStep

LEMMA NextEventInv == ASSUME Inv, NEW k \in Ticks, NextEvent(k) PROVE Inv'
<1>1. PICK e \in todo[k] : todo' = [todo EXCEPT ![k] = @ \ {e}] /\ Goto(k, "fetch", [NoMem EXCEPT !.ev = e])
  BY DEF NextEvent
<1>2. TypeTicks /\ todo[k] \in SUBSET Events /\ e \in Events
  BY <1>1, TicksTypes DEF Inv, Types
<1>3. [NoMem EXCEPT !.ev = e] \in Mem
  BY <1>2, NoMemType DEF Mem
<1>4. todo[k] \ {e} \in SUBSET Events
  BY <1>2
<1>5. todo' \in [Ticks -> SUBSET Events]
  BY <1>1, <1>2, <1>4 DEF TypeTicks
<1>6. /\ pc[k] \notin InTransaction /\ lock' = lock /\ Still /\ event' = event
      /\ emailOn' = emailOn /\ crowded' = crowded /\ changes' = changes /\ faults' = faults
  BY DEF NextEvent, At, InTransaction, Still, effects, world
<1>7. "fetch" \in Steps \ InTransaction
  BY DEF Steps, InTransaction
<1>8. event' \in [Events -> EventRow]
  BY <1>6 DEF Inv, Types, TypeRows
<1> QED
  BY <1>1, <1>3, <1>5, <1>6, <1>7, <1>8, StillStep

\* The steps that only move the tick: what they move to.
LEMMA MoveInv ==
  ASSUME Inv, NEW k \in Ticks, pc[k] \notin InTransaction, NEW s \in Steps \ InTransaction,
         Step(k, s), lock' = lock, Still, emailOn' = emailOn, crowded' = crowded, changes' = changes,
         faults' = faults \/ \E f \in {"unreadable", "gone"} : Fault(f),
         event' \in [Events -> EventRow], todo' = todo,
         s \in {"alert", "settleDone"} => reply[R(k)].handled,
         \A e \in Events : event'[e].st = "done" => event[e].st = "done" \/ reply[Names[e]].handled
  PROVE  Inv'
<1>1. TypeTicks
  BY DEF Inv, Types
<1>2. PICK m \in Mem : Goto(k, s, m) /\ (s \notin {"idle", "scan"} => m = mem[k])
  BY <1>1, StepGoes
<1>3. s \in {"alert", "settleDone"} => reply[Names[m.ev]].handled
  BY <1>2 DEF R
<1>4. todo' \in [Ticks -> SUBSET Events]
  BY <1>1 DEF TypeTicks
<1> QED
  BY <1>2, <1>3, <1>4, StillStep

LEMMA QuietTicksInv ==
  ASSUME Inv, NEW k \in Ticks, EndTick(k) \/ Fetch(k) \/ Lookup(k) \/ Peek(k) \/ Alert(k)
  PROVE  Inv'
<1>1. event \in [Events -> EventRow] /\ TicksInv /\ TickInv(k)
  BY DEF Inv, Types, TypeRows, TicksInv
<1>2. /\ lock' = lock /\ Still /\ emailOn' = emailOn /\ crowded' = crowded
      /\ changes' = changes /\ event' = event /\ todo' = todo
  BY DEF EndTick, Fetch, Lookup, Peek, Alert, Unchanged, effects, world, Still
<1>3. CASE EndTick(k)
  <2>1. pc[k] \notin InTransaction /\ "idle" \in Steps \ InTransaction /\ Step(k, "idle") /\ faults' = faults
    BY <1>3 DEF EndTick, At, InTransaction, Steps
  <2> QED
    BY <1>1, <1>2, <2>1, MoveInv
<1>4. CASE Fetch(k)
  <2>1. PICK s \in {"lookup", "retry", "settleIgnored"} : Step(k, s)
    BY <1>4 DEF Fetch
  <2>2. pc[k] \notin InTransaction /\ (faults' = faults \/ \E f \in {"unreadable", "gone"} : Fault(f))
    BY <1>4 DEF Fetch, At, InTransaction
  <2>3. s \in Steps \ InTransaction /\ s \notin {"alert", "settleDone"}
    BY DEF InTransaction, Steps
  <2> QED
    BY <1>1, <1>2, <2>1, <2>2, <2>3, MoveInv
<1>5. CASE Lookup(k)
  <2>1. PICK s \in {"lock", "insert"} : Step(k, s)
    BY <1>5 DEF Lookup
  <2>2. pc[k] \notin InTransaction /\ faults' = faults
    BY <1>5 DEF Lookup, At, InTransaction
  <2>3. s \in Steps \ InTransaction /\ s \notin {"alert", "settleDone"}
    BY DEF InTransaction, Steps
  <2> QED
    BY <1>1, <1>2, <2>1, <2>2, <2>3, MoveInv
<1>6. CASE Peek(k)
  <2>1. PICK s \in {"settleDone", "retry"} : Step(k, s) /\ (s = "settleDone" => reply[R(k)].handled)
    BY <1>6 DEF Peek
  <2>2. pc[k] \notin InTransaction /\ faults' = faults
    BY <1>6 DEF Peek, At, InTransaction
  <2>3. s \in Steps \ InTransaction /\ s # "alert"
    BY DEF InTransaction, Steps
  <2> QED
    BY <1>1, <1>2, <2>1, <2>2, <2>3, MoveInv
<1>7. CASE Alert(k)
  <2>1. PICK s \in {"settleDone", "scan"} : Step(k, s) /\ (s = "settleDone" => pc[k] = "alert")
    BY <1>7 DEF Alert, At
  <2>2. pc[k] \notin InTransaction /\ faults' = faults
    BY <1>7 DEF Alert, At, InTransaction
  <2>3. s \in Steps \ InTransaction /\ s # "alert"
    BY DEF InTransaction, Steps
  <2>4. s = "settleDone" => reply[R(k)].handled
    BY <1>1, <2>1 DEF TickInv
  <2> QED
    BY <1>1, <1>2, <2>1, <2>2, <2>3, <2>4, MoveInv
<1> QED
  BY <1>3, <1>4, <1>5, <1>6, <1>7

LEMMA InsertInv == ASSUME Inv, NEW k \in Ticks, Insert(k) PROVE Inv'
<1>0. TypeRows /\ TypeWorld /\ TypeTicks /\ TicksInv /\ RepliesInv /\ DoneMeansHandled /\ Types
  BY DEF Inv, Types
<1>1. R(k) \in Replies
  BY <1>0, TicksTypes
<1>2. [reply[R(k)] EXCEPT !.stored = TRUE] \in [kind : Kinds, stored : BOOLEAN, handled : BOOLEAN]
  BY <1>0, <1>1 DEF TypeRows
<1>3. reply' = [reply EXCEPT ![R(k)] = [reply[R(k)] EXCEPT !.stored = TRUE]]
  BY DEF Insert
<1>4. /\ reply' \in [Replies -> [kind : Kinds, stored : BOOLEAN, handled : BOOLEAN]]
      /\ \A r \in Replies : /\ reply'[r].kind = reply[r].kind /\ reply'[r].handled = reply[r].handled
                            /\ reply'[r].stored = (reply[r].stored \/ r = R(k))
  BY <1>0, <1>1, <1>2, <1>3 DEF TypeRows
<1>5. /\ timeline' \in [Replies -> Nat]
      /\ \A r \in Replies : timeline'[r] = IF r = R(k) /\ ~reply[r].stored THEN timeline[r] + 1 ELSE timeline[r]
  <2>1. CASE reply[R(k)].stored
    BY <2>1, <1>0 DEF Insert, TypeRows
  <2>2. CASE ~reply[R(k)].stored
    <3>1. timeline' = [timeline EXCEPT ![R(k)] = @ + 1] /\ timeline \in [Replies -> Nat]
      BY <1>0, <2>2 DEF Insert, Plus, TypeRows
    <3> QED
      BY <1>1, <2>2, <3>1, PlusFacts
  <2> QED
    BY <2>1, <2>2
<1>6. /\ event' = event /\ lock' = lock /\ acted' = acted /\ queued' = queued /\ seller' = seller
      /\ emailOn' = emailOn /\ crowded' = crowded /\ changes' = changes /\ todo' = todo /\ faults' = faults
  BY DEF Insert, world
<1>7. TypeRows'
  BY <1>0, <1>4, <1>5, <1>6 DEF TypeRows
<1>8. TypeWorld'
  BY <1>0, <1>6 DEF TypeWorld
<1>9. PICK m \in Mem : Goto(k, "lock", m)
  BY <1>0, StepGoes DEF Insert, Steps
<1>10. pc[k] \notin InTransaction /\ "lock" \in Steps \ InTransaction /\ "lock" \notin {"alert", "settleDone"}
  BY DEF Insert, At, Steps, InTransaction
<1>11. TypeTicks'
  BY <1>0, <1>6, <1>9, <1>10, GotoFacts DEF TypeTicks
<1>12. TicksInv'
  BY <1>0, <1>4, <1>6, <1>7, <1>9, <1>10, OutsideInv DEF Handled
<1>13. RepliesInv'
  BY <1>0, <1>4, <1>5, <1>6 DEF RepliesInv, ReplyInv, TypeRows
<1>14. DoneMeansHandled'
  BY <1>0, <1>4, <1>6, RepliesAssumption DEF DoneMeansHandled
<1> QED
  BY <1>7, <1>8, <1>11, <1>12, <1>13, <1>14 DEF Inv, Types

\* A commit: the reply handled, its lock given up, the action taken.
LEMMA CommitInv ==
  ASSUME Inv, NEW k \in Ticks, pc[k] \in {"act", "ask"}, NEW new \in Seller, NEW answer \in BOOLEAN,
         Commit(k, new, answer), seller.status = "stopped" => new.status = "stopped",
         reply[R(k)].kind \in StopKinds => new.status = "stopped" /\ ~answer
  PROVE  Inv'
<1>0. TypeRows /\ TypeWorld /\ TypeTicks /\ TicksInv /\ RepliesInv /\ DoneMeansHandled /\ Types
  BY DEF Inv, Types
<1>1. R(k) \in Replies
  BY <1>0, TicksTypes
<1>2. pc[k] \in InTransaction /\ lock[R(k)] = k /\ ~reply[R(k)].handled
  BY <1>0 DEF InTransaction, TicksInv, TickInv
<1>3. [reply[R(k)] EXCEPT !.handled = TRUE] \in [kind : Kinds, stored : BOOLEAN, handled : BOOLEAN]
  BY <1>0, <1>1 DEF TypeRows
<1>4. reply' = [reply EXCEPT ![R(k)] = [reply[R(k)] EXCEPT !.handled = TRUE]]
  BY DEF Commit
<1>5. /\ reply' \in [Replies -> [kind : Kinds, stored : BOOLEAN, handled : BOOLEAN]]
      /\ \A r \in Replies : /\ reply'[r].kind = reply[r].kind /\ reply'[r].stored = reply[r].stored
                            /\ reply'[r].handled = (reply[r].handled \/ r = R(k))
  BY <1>0, <1>1, <1>3, <1>4 DEF TypeRows
<1>6. /\ acted' \in [Replies -> Nat]
      /\ \A r \in Replies : acted'[r] = IF r = R(k) THEN acted[r] + 1 ELSE acted[r]
  <2>1. acted' = [acted EXCEPT ![R(k)] = @ + 1] /\ acted \in [Replies -> Nat]
    BY <1>0 DEF Commit, Plus, TypeRows
  <2> QED
    BY <1>1, <2>1, PlusFacts
<1>7. /\ queued' \in [Replies -> Nat]
      /\ \A r \in Replies : queued'[r] = IF r = R(k) /\ answer THEN queued[r] + 1 ELSE queued[r]
  <2>1. CASE ~answer
    BY <2>1, <1>0 DEF Commit, TypeRows
  <2>2. CASE answer
    <3>1. queued' = [queued EXCEPT ![R(k)] = @ + 1] /\ queued \in [Replies -> Nat]
      BY <1>0, <2>2 DEF Commit, Plus, TypeRows
    <3> QED
      BY <1>1, <2>2, <3>1, PlusFacts
  <2> QED
    BY <2>1, <2>2
<1>8. /\ event' = event /\ timeline' = timeline /\ seller' = new /\ todo' = todo /\ faults' = faults
      /\ emailOn' = emailOn /\ crowded' = crowded /\ changes' = changes
  BY DEF Commit
<1>9. TypeRows'
  BY <1>0, <1>5, <1>6, <1>7, <1>8 DEF TypeRows
<1>10. TypeWorld'
  BY <1>0, <1>8 DEF TypeWorld
<1>11. \A r \in Replies : lock'[r] = IF lock[r] = k THEN "nobody" ELSE lock[r]
  <2>1. lock' = [lock EXCEPT ![R(k)] = "nobody"]
    BY DEF Commit
  <2>2. ASSUME NEW r \in Replies, lock[r] = k PROVE r = R(k)
    BY <1>0, <2>2, RepliesAssumption DEF TicksInv, LockInv
  <2> QED
    BY <1>0, <1>1, <1>2, <2>1, <2>2 DEF TypeTicks
<1>12. lock' \in [Replies -> Ticks \cup {"nobody"}]
  BY <1>0, <1>1 DEF Commit, TypeTicks
<1>13. PICK s \in {"alert", "settleDone"} : Step(k, s)
  BY DEF Commit
<1>14. s \in Steps \ InTransaction /\ s \notin {"idle", "scan"}
  BY DEF Steps, InTransaction
<1>15. PICK m \in Mem : Goto(k, s, m) /\ m = mem[k]
  BY <1>0, <1>13, <1>14, StepGoes
<1>16. TypeTicks'
  BY <1>0, <1>8, <1>12, <1>14, <1>15, GotoFacts DEF TypeTicks
<1>17. Names[m.ev] = R(k) /\ reply'[Names[m.ev]].handled
  BY <1>1, <1>5, <1>15 DEF R
<1>18. TicksInv'
  <2>1. ASSUME NEW r \in Replies, r # R(k) PROVE reply'[r].handled = reply[r].handled
    BY <1>0, <1>1, <1>4, <2>1 DEF TypeRows
  <2>2. Handled(k)
    BY <1>2, <1>5, <1>17, <2>1 DEF Handled
  <2> QED
    BY <1>0, <1>9, <1>11, <1>14, <1>15, <1>17, <2>2, LeavesInv
<1>19. ASSUME NEW r \in Replies PROVE ReplyInv(r)'
  <2>1. ReplyInv(r) /\ queued[r] \in Nat /\ acted[r] \in Nat
    BY <1>0 DEF RepliesInv, TypeRows
  <2>2. CASE r = R(k)
    <3>1. acted[r] = 0 /\ queued[r] = 0
      BY <1>2, <2>1, <2>2 DEF ReplyInv
    <3> QED
      BY <1>5, <1>6, <1>7, <1>8, <2>1, <2>2, <3>1 DEF ReplyInv
  <2>3. CASE r # R(k)
    BY <1>5, <1>6, <1>7, <1>8, <2>1, <2>3 DEF ReplyInv
  <2> QED
    BY <2>2, <2>3
<1>20. DoneMeansHandled'
  BY <1>0, <1>5, <1>8, RepliesAssumption DEF DoneMeansHandled
<1> QED
  BY <1>9, <1>10, <1>16, <1>18, <1>19, <1>20 DEF Inv, Types, RepliesInv

LEMMA CommitsInv ==
  ASSUME Inv, NEW k \in Ticks, Act(k) \/ Ask(k)
  PROVE  Inv'
<1>1. seller \in Seller /\ TickInv(k)
  BY DEF Inv, Types, TypeWorld, TicksInv
<1>2. /\ Stopped \in Seller /\ Stopped.status = "stopped"
      /\ Flagged \in Seller /\ Flagged.status = seller.status
  BY <1>1 DEF Seller, Stopped, Flagged
<1>3. CASE Act(k)
  <2> DEFINE new == CASE mem[k].decision = "opt_out" -> Stopped [] mem[k].decision = "flag" -> Flagged
                      [] OTHER -> seller
  <2>1. pc[k] = "act" /\ Commit(k, new, FALSE)
    BY <1>3 DEF Act, At
  <2>2. new \in Seller /\ (seller.status = "stopped" => new.status = "stopped")
    BY <1>1, <1>2
  <2>3. reply[R(k)].kind \in StopKinds => new.status = "stopped"
    BY <1>1, <1>2, <2>1 DEF TickInv
  <2> HIDE DEF new
  <2> QED
    BY <2>1, <2>2, <2>3, CommitInv
<1>4. CASE Ask(k)
  <2>1. PICK said \in Writer :
          Commit(k, CASE said \in {"draft_rejected", "flag", "failed"} -> Flagged
                      [] said = "opt_out" -> Stopped
                      [] OTHER -> seller, said \in {"send", "flag"})
    BY <1>4 DEF Ask
  <2> DEFINE new == CASE said \in {"draft_rejected", "flag", "failed"} -> Flagged
                      [] said = "opt_out" -> Stopped
                      [] OTHER -> seller
             answer == said \in {"send", "flag"}
  <2>2. pc[k] = "ask" /\ Commit(k, new, answer) /\ answer \in BOOLEAN
    BY <1>4, <2>1 DEF Ask, At
  <2>3. new \in Seller /\ (seller.status = "stopped" => new.status = "stopped")
    BY <1>1, <1>2
  <2>4. reply[R(k)].kind \notin StopKinds
    BY <1>1, <2>2 DEF TickInv
  <2> HIDE DEF new, answer
  <2> QED
    BY <2>2, <2>3, <2>4, CommitInv
<1> QED
  BY <1>3, <1>4

LEMMA SettleInv ==
  ASSUME Inv, NEW k \in Ticks, Settle(k) \/ Reschedule(k)
  PROVE  Inv'
<1>0. TypeTicks /\ TypeRows /\ TickInv(k) /\ mem[k].ev \in Events
  BY TicksTypes DEF Inv, Types, TicksInv
<1>1. event[mem[k].ev] \in EventRow /\ Ev(k) = event[mem[k].ev]
  BY <1>0 DEF TypeRows, Ev
<1>2. /\ lock' = lock /\ Still /\ emailOn' = emailOn /\ crowded' = crowded /\ changes' = changes
      /\ todo' = todo /\ faults' = faults
  BY DEF Settle, Reschedule, effects, world, Still
<1>3. CASE Settle(k)
  <2> DEFINE s == IF At(k, "settleDone") THEN "done" ELSE "ignored"
             row == [event[mem[k].ev] EXCEPT !.st = s]
  <2>1. event' = IF Ev(k).st # "pending" THEN event ELSE [event EXCEPT ![mem[k].ev] = row]
    BY <1>3 DEF Settle
  <2>2. s \in Ended /\ row \in EventRow /\ row.st = s
    BY <1>1 DEF EventRow, Ended
  <2>3. s = "done" => reply[R(k)].handled
    BY <1>0 DEF TickInv, At
  <2> HIDE DEF s, row
  <2>4. event' \in [Events -> EventRow]
    BY <1>0, <2>1, <2>2 DEF TypeRows
  <2>5. \A e \in Events : event'[e].st = "done" => event[e].st = "done" \/ reply[Names[e]].handled
    BY <1>0, <2>1, <2>2, <2>3 DEF TypeRows, R
  <2>6. pc[k] \notin InTransaction /\ Step(k, "scan") /\ "scan" \in Steps \ InTransaction
    BY <1>3 DEF Settle, At, InTransaction, Steps
  <2> QED
    BY <1>2, <2>4, <2>5, <2>6, MoveInv
<1>4. CASE Reschedule(k)
  <2> DEFINE last == Ev(k).tries + 1 >= MaxAttempts
             row == [st |-> IF last THEN "failed" ELSE "pending", tries |-> Ev(k).tries + 1, due |-> FALSE]
  <2>1. event' = IF Ev(k).st # "pending" THEN event ELSE [event EXCEPT ![mem[k].ev] = row]
    BY <1>4 DEF Reschedule
  <2>2. Ev(k).tries + 1 \in Nat
    BY <1>1, EventFields
  <2>3. row \in EventRow /\ row.st # "done"
    BY <2>2 DEF EventRow, Ended
  <2>4. PICK to \in {"dead", "scan"} : Step(k, to)
    BY <1>4 DEF Reschedule
  <2> HIDE DEF row
  <2>5. event' \in [Events -> EventRow]
    BY <1>0, <2>1, <2>3 DEF TypeRows
  <2>6. \A e \in Events : event'[e].st = "done" => event[e].st = "done"
    BY <1>0, <2>1, <2>3 DEF TypeRows
  <2>7. pc[k] \notin InTransaction /\ to \in Steps \ InTransaction /\ to \notin {"alert", "settleDone"}
    BY <1>4 DEF Reschedule, At, InTransaction, Steps
  <2> QED
    BY <1>2, <2>4, <2>5, <2>6, <2>7, MoveInv
<1> QED
  BY <1>3, <1>4

LEMMA LostInv ==
  ASSUME Inv, NEW k \in Ticks, Throw(k) \/ Crash(k)
  PROVE  Inv'
<1>0. TypeRows /\ TypeWorld /\ TypeTicks /\ TicksInv /\ RepliesInv /\ DoneMeansHandled /\ Types
  BY DEF Inv, Types
<1>1. /\ Still /\ event' = event /\ emailOn' = emailOn /\ crowded' = crowded /\ changes' = changes /\ Unlock(k)
  BY DEF Throw, Crash, effects, world, Still
<1>2. faults' \in Nat
  BY <1>0, FaultType DEF Throw, Crash
<1>3. todo' = todo \/ todo' = [todo EXCEPT ![k] = {}]
  BY DEF Throw, Crash
<1>4. todo' \in [Ticks -> SUBSET Events]
  BY <1>0, <1>3 DEF TypeTicks
<1>5. PICK s \in {"retry", "idle"} : Step(k, s)
  BY DEF Throw, Crash
<1>6. s \in Steps \ InTransaction /\ s \notin {"alert", "settleDone"}
  BY DEF Steps, InTransaction
<1>7. PICK m \in Mem : Goto(k, s, m)
  BY <1>0, <1>5, <1>6, StepGoes
<1>8. /\ lock' \in [Replies -> Ticks \cup {"nobody"}]
      /\ \A r \in Replies : lock'[r] = IF lock[r] = k THEN "nobody" ELSE lock[r]
  BY <1>0, <1>1, UnlockType
<1>9. TypeRows' /\ TypeWorld'
  BY <1>0, <1>1, <1>2 DEF TypeRows, TypeWorld, Still
<1>10. TypeTicks'
  BY <1>0, <1>4, <1>6, <1>7, <1>8, GotoFacts DEF TypeTicks
<1>11. TicksInv'
  BY <1>0, <1>1, <1>6, <1>7, <1>8, <1>9, LeavesInv DEF Handled, Still
<1>12. RepliesInv'
  BY <1>0, <1>1, StillReplies
<1>13. DoneMeansHandled'
  BY <1>0, <1>1, DoneKept DEF Still
<1> QED
  BY <1>9, <1>10, <1>11, <1>12, <1>13 DEF Inv, Types

-----------------------------------------------------------------------------
(* The rest of the world, and the theorems.                                *)

LEMMA OutsideWorldInv ==
  ASSUME Inv, (\E e \in Events : DueAgain(e)) \/ SellerMoves \/ GiveBack \/ TenantMoves
  PROVE  Inv'
<1>0. TypeRows /\ TypeWorld /\ TypeTicks /\ TicksInv /\ RepliesInv /\ DoneMeansHandled /\ Types
  BY DEF Inv, Types
<1>1. UNCHANGED <<reply, lock, timeline, acted, queued, pc, mem, todo>>
  BY DEF DueAgain, SellerMoves, GiveBack, TenantMoves, Outside, effects
<1>2. TypeTicks' /\ TicksInv'
  <2>1. TypeTicks'
    BY <1>0, <1>1 DEF TypeTicks
  <2>2. \A v \in Ticks : TickInv(v)'
    BY <1>0, <1>1 DEF TicksInv, TickInv, R
  <2>3. \A r \in Replies : LockInv(r)'
    BY <1>0, <1>1 DEF TicksInv, LockInv, R
  <2> QED
    BY <2>1, <2>2, <2>3 DEF TicksInv
<1>3. CASE \E e \in Events : DueAgain(e)
  <2>1. PICK e \in Events : DueAgain(e)
    BY <1>3
  <2>2. event' = [event EXCEPT ![e] = [event[e] EXCEPT !.due = TRUE]] /\ event[e] \in EventRow
    BY <1>0, <2>1 DEF DueAgain, TypeRows
  <2>3. [event[e] EXCEPT !.due = TRUE] \in EventRow /\ [event[e] EXCEPT !.due = TRUE].st = event[e].st
    BY <2>2 DEF EventRow
  <2>4. event' \in [Events -> EventRow] /\ \A d \in Events : event'[d].st = event[d].st
    BY <1>0, <2>2, <2>3 DEF TypeRows
  <2>5. seller' = seller /\ emailOn' = emailOn /\ crowded' = crowded /\ changes' = changes
    BY <2>1 DEF DueAgain, world
  <2>6. faults' \in Nat
    BY <1>0, <2>1, FaultType DEF DueAgain, TypeWorld
  <2>7. TypeRows' /\ TypeWorld'
    BY <1>0, <1>1, <2>4, <2>5, <2>6 DEF TypeRows, TypeWorld
  <2>8. RepliesInv' /\ DoneMeansHandled'
    BY <1>0, <1>1, <2>4, <2>5, StillReplies, DoneKept DEF Still
  <2> QED
    BY <1>2, <2>7, <2>8 DEF Inv, Types
<1>4. CASE SellerMoves \/ GiveBack \/ TenantMoves
  <2>1. event' = event /\ faults' = faults /\ changes' = changes + 1
    BY <1>4 DEF SellerMoves, GiveBack, TenantMoves, Outside, Change
  <2>2. seller \in Seller /\ changes \in Nat
    BY <1>0 DEF TypeWorld
  <2>3. changes' \in Nat
    BY <2>1, <2>2
  <2>4. seller' \in Seller /\ (seller.status = "stopped" => seller'.status = "stopped")
    <3>1. CASE SellerMoves
      BY <2>2, <3>1 DEF SellerMoves, Seller
    <3>2. CASE GiveBack
      BY <2>2, <3>2 DEF GiveBack, Seller
    <3>3. CASE TenantMoves
      BY <2>2, <3>3 DEF TenantMoves
    <3> QED
      BY <1>4, <3>1, <3>2, <3>3
  <2>5. emailOn' \in BOOLEAN /\ crowded' \in BOOLEAN
    BY <1>0, <1>4 DEF SellerMoves, GiveBack, TenantMoves, TypeWorld
  <2>6. TypeRows' /\ TypeWorld'
    BY <1>0, <1>1, <2>1, <2>3, <2>4, <2>5 DEF TypeRows, TypeWorld
  <2>7. RepliesInv'
    BY <1>0, <1>1, <2>4 DEF RepliesInv, ReplyInv
  <2>8. DoneMeansHandled'
    BY <1>0, <1>1, <2>1 DEF DoneMeansHandled
  <2> QED
    BY <1>2, <2>6, <2>7, <2>8 DEF Inv, Types
<1> QED
  BY <1>3, <1>4

LEMMA InitInv == Init => Inv
<1> SUFFICES ASSUME Init PROVE Inv
  OBVIOUS
<1>1. TypeRows
  BY DEF Init, TypeRows, EventRow
<1>2. TypeWorld
  BY DEF Init, TypeWorld, Seller
<1>3. TypeTicks
  BY NoMemType DEF Init, TypeTicks, Steps
<1>4. TicksInv
  BY DEF Init, TicksInv, TickInv, LockInv, InTransaction
<1>5. RepliesInv
  <2>1. \A r \in Replies : ~reply[r].stored /\ ~reply[r].handled
    BY DEF Init
  <2> QED
    BY <2>1 DEF Init, RepliesInv, ReplyInv
<1>6. DoneMeansHandled
  BY DEF Init, DoneMeansHandled
<1> QED
  BY <1>1, <1>2, <1>3, <1>4, <1>5, <1>6 DEF Inv, Types

LEMMA NextInv == ASSUME Inv, [Next]_vars PROVE Inv'
<1>1. CASE Next
  <2>1. ASSUME NEW k \in Ticks, Tick(k) PROVE Inv'
    <3>1. CASE Lock(k)
      <4>1. TicksInv' /\ TypeTicks'
        BY <3>1, LockTaken
      <4>2. UNCHANGED <<event, reply, timeline, acted, queued, seller, emailOn, crowded, changes, faults>>
        BY <3>1 DEF Lock, effects, world
      <4>3. (TypeRows /\ TypeWorld /\ RepliesInv /\ DoneMeansHandled)'
        BY <4>2 DEF Inv, Types, TypeRows, TypeWorld, RepliesInv, ReplyInv, DoneMeansHandled
      <4> QED
        BY <4>1, <4>3 DEF Inv, Types
    <3>2. CASE Decide(k)
      <4>1. TicksInv' /\ TypeTicks'
        BY <3>2, DecidedInv
      <4>2. UNCHANGED <<event, reply, timeline, acted, queued, seller, emailOn, crowded, changes, faults>>
        BY <3>2 DEF Decide, Unchanged, effects, world
      <4>3. (TypeRows /\ TypeWorld /\ RepliesInv /\ DoneMeansHandled)'
        BY <4>2 DEF Inv, Types, TypeRows, TypeWorld, RepliesInv, ReplyInv, DoneMeansHandled
      <4> QED
        BY <4>1, <4>3 DEF Inv, Types
    <3> QED
      BY <2>1, <3>1, <3>2, ClaimInv, NextEventInv, QuietTicksInv, InsertInv, CommitsInv, SettleInv DEF Tick
  <2> QED
    BY <1>1, <2>1, LostInv, OutsideWorldInv DEF Next
<1>2. CASE UNCHANGED vars
  <2>1. UNCHANGED <<event, reply, lock, seller, emailOn, crowded, timeline, acted, queued,
                    pc, mem, todo, changes, faults>>
    BY <1>2 DEF vars
  <2>2. \A v \in Ticks : TickInv(v)'
    BY <2>1 DEF Inv, TicksInv, TickInv, R
  <2>3. \A r \in Replies : LockInv(r)'
    BY <2>1 DEF Inv, TicksInv, LockInv, R
  <2>4. (Types /\ RepliesInv /\ DoneMeansHandled)'
    BY <2>1 DEF Inv, Types, TypeRows, TypeWorld, TypeTicks, RepliesInv, ReplyInv, DoneMeansHandled
  <2> QED
    BY <2>2, <2>3, <2>4 DEF Inv, TicksInv
<1> QED
  BY <1>1, <1>2

THEOREM InvHolds == Spec => []Inv
<1>1. Init => Inv
  BY InitInv
<1>2. Inv /\ [Next]_vars => Inv'
  BY NextInv
<1> QED
  BY <1>1, <1>2, PTL DEF Spec

\* Every variable has its type, and a lock on a reply (lockUnhandled) is only
\* ever held by a tick inside the transaction that took it.
THEOREM TypeCorrect == Spec => []TypeOK
<1>1. Inv => TypeOK
  BY DEF Inv, Types, TicksInv, LockInv, TypeOK
<1> QED
  BY <1>1, InvHolds, PTL

\* Whatever is delivered twice, overlaps, throws or dies, a reply is on the
\* timeline once, acted on once and answered at most once (storeReply,
\* lockUnhandled, act).
THEOREM HandledOnceHolds == Spec => []HandledOnce
<1>1. Inv => HandledOnce
  <2>1. SUFFICES ASSUME Inv, NEW r \in Replies PROVE timeline[r] <= 1 /\ acted[r] <= 1 /\ queued[r] <= 1
    BY DEF HandledOnce
  <2>2. ReplyInv(r) /\ queued[r] \in Nat
    BY <2>1 DEF Inv, Types, TypeRows, RepliesInv
  <2> QED
    BY <2>2 DEF ReplyInv
<1> QED
  BY <1>1, InvHolds, PTL

\* decideInbound's first rules: a handled reply that asked to stop leaves its
\* seller stopped for good, with no answer of Sam's.
THEOREM OptOutHonouredHolds == Spec => []OptOutHonoured
<1>1. Inv => OptOutHonoured
  BY DEF Inv, RepliesInv, ReplyInv, OptOutHonoured, StopKinds
<1> QED
  BY <1>1, InvHolds, PTL

\* processReceived and settle: an event is done only when its reply's handling
\* has been committed, by this tick or by another.
THEOREM DoneMeansHandledHolds == Spec => []DoneMeansHandled
<1>1. Inv => DoneMeansHandled
  BY DEF Inv
<1> QED
  BY <1>1, InvHolds, PTL

-----------------------------------------------------------------------------
(* The calls with their theorems.                                          *)

PeopleP == INSTANCE AiTrigger_proofs WITH
  MaxAttempts <- CallAttempts, Faults <- CallFaults, MaxFaults <- MaxCallFaults,
  May <- FewRefusals, MaxChanges <- ManyDecisions,
  pc <- tickPc, mem <- tickMem, hpc <- callPc, hmem <- callMem, changes <- decided, faults <- callFaults
OutcomesP == INSTANCE AiTrigger_proofs WITH
  MaxAttempts <- CallAttempts, Faults <- CallFaults, MaxFaults <- MaxCallFaults,
  May <- ManyRefusals, MaxChanges <- FewDecisions,
  pc <- tickPc, mem <- tickMem, hpc <- callPc, hmem <- callMem, changes <- decided, faults <- callFaults

LEMMA PeopleStarts == PeopleP!Init <=> People!Init
BY DEF
  PeopleP!KeyIds, PeopleP!NoTouch, PeopleP!Released, PeopleP!NoRequest, PeopleP!AnyTouch,
  PeopleP!AnyHandler, PeopleP!NoMem, PeopleP!NoTrigger, PeopleP!Init, People!KeyIds,
  People!NoTouch, People!Released, People!NoRequest, People!AnyTouch, People!AnyHandler,
  People!NoMem, People!NoTrigger, People!Init

LEMMA PeopleSteps == PeopleP!Next <=> People!Next
BY DEF
  PeopleP!pacer, PeopleP!handler, PeopleP!store, PeopleP!board, PeopleP!KeyIds,
  PeopleP!Refusals, PeopleP!Owning, PeopleP!NoTouch, PeopleP!Released, PeopleP!Row,
  PeopleP!NoRequest, PeopleP!AnyTouch, PeopleP!AnyHandler, PeopleP!NoMem, PeopleP!NoTrigger,
  PeopleP!Fault, PeopleP!Goto, PeopleP!Go, PeopleP!T, PeopleP!Set, PeopleP!Called,
  PeopleP!PlanApproved, PeopleP!OnItsWay, PeopleP!Dropped, PeopleP!CallsSince,
  PeopleP!Found, PeopleP!Rebuilt, PeopleP!Resolved, PeopleP!ResolvedCall, PeopleP!Pending,
  PeopleP!Placed, PeopleP!Free, PeopleP!Sent, PeopleP!LinkPlaced, PeopleP!Later,
  PeopleP!Skipped, PeopleP!SkipUnlessPlaced, PeopleP!NoFault, PeopleP!Pick,
  PeopleP!SettleKey, PeopleP!Finished, PeopleP!ToBoard, PeopleP!Parked, PeopleP!Researched,
  PeopleP!NotNow, PeopleP!Gate, PeopleP!Claimable, PeopleP!Claim, PeopleP!Reopened,
  PeopleP!Refused, PeopleP!IdleHandlers, PeopleP!Send, PeopleP!GiveUp, PeopleP!Resolve,
  PeopleP!KeepsKey, PeopleP!Refunded, PeopleP!GaveUp, PeopleP!Settled, PeopleP!Apply,
  PeopleP!Finish, PeopleP!PacerCrash, PeopleP!Reap, PeopleP!Decision, PeopleP!HeldTouch,
  PeopleP!Hold, PeopleP!Dismiss, PeopleP!Edit, PeopleP!Approve, PeopleP!Blocks,
  PeopleP!Release, PeopleP!Exit, PeopleP!Decide, PeopleP!Key, PeopleP!Req, PeopleP!Then,
  PeopleP!Reply, PeopleP!SetRequest, PeopleP!SetCall, PeopleP!Handle, PeopleP!NoLoss,
  PeopleP!Reserve, PeopleP!Arrive, PeopleP!TakeOver, PeopleP!Find, PeopleP!Refuse,
  PeopleP!Insert, PeopleP!Busy, PeopleP!Check, PeopleP!InsertCall, PeopleP!Link,
  PeopleP!Place, PeopleP!Written, PeopleP!RecordPlaced, PeopleP!RecordFailed,
  PeopleP!Complete, PeopleP!Crash, PeopleP!Working, PeopleP!Old, PeopleP!TouchTime,
  PeopleP!Aged, PeopleP!Due, PeopleP!CallEnds, PeopleP!Sweep, PeopleP!Pace, PeopleP!Answer,
  PeopleP!Next, People!pacer, People!handler, People!store, People!board, People!KeyIds,
  People!Refusals, People!Owning, People!NoTouch, People!Released, People!Row,
  People!NoRequest, People!AnyTouch, People!AnyHandler, People!NoMem, People!NoTrigger,
  People!Fault, People!Goto, People!Go, People!T, People!Set, People!Called,
  People!PlanApproved, People!OnItsWay, People!Dropped, People!CallsSince, People!Found,
  People!Rebuilt, People!Resolved, People!ResolvedCall, People!Pending, People!Placed,
  People!Free, People!Sent, People!LinkPlaced, People!Later, People!Skipped,
  People!SkipUnlessPlaced, People!NoFault, People!Pick, People!SettleKey, People!Finished,
  People!ToBoard, People!Parked, People!Researched, People!NotNow, People!Gate,
  People!Claimable, People!Claim, People!Reopened, People!Refused, People!IdleHandlers,
  People!Send, People!GiveUp, People!Resolve, People!KeepsKey, People!Refunded,
  People!GaveUp, People!Settled, People!Apply, People!Finish, People!PacerCrash,
  People!Reap, People!Decision, People!HeldTouch, People!Hold, People!Dismiss, People!Edit,
  People!Approve, People!Blocks, People!Release, People!Exit, People!Decide, People!Key,
  People!Req, People!Then, People!Reply, People!SetRequest, People!SetCall, People!Handle,
  People!NoLoss, People!Reserve, People!Arrive, People!TakeOver, People!Find, People!Refuse,
  People!Insert, People!Busy, People!Check, People!InsertCall, People!Link, People!Place,
  People!Written, People!RecordPlaced, People!RecordFailed, People!Complete, People!Crash,
  People!Working, People!Old, People!TouchTime, People!Aged, People!Due, People!CallEnds,
  People!Sweep, People!Pace, People!Answer, People!Next

LEMMA PeoplePromises ==
  /\ PeopleP!TypeOK <=> People!TypeOK
  /\ PeopleP!OneCallPerKey <=> People!OneCallPerKey
BY DEF
  PeopleP!KeyIds, PeopleP!TouchStatus, PeopleP!Refusals, PeopleP!Stored, PeopleP!Answers,
  PeopleP!PacerSteps, PeopleP!Owning, PeopleP!HandlerSteps, PeopleP!Touch, PeopleP!Lead,
  PeopleP!Request, PeopleP!Call, PeopleP!PacerMem, PeopleP!Trigger, PeopleP!TypeBoard,
  PeopleP!TypeStore, PeopleP!TypePacers, PeopleP!TypeHandlers, PeopleP!TypeOK,
  PeopleP!OneCallPerKey, People!KeyIds, People!TouchStatus, People!Refusals, People!Stored,
  People!Answers, People!PacerSteps, People!Owning, People!HandlerSteps, People!Touch,
  People!Lead, People!Request, People!Call, People!PacerMem, People!Trigger,
  People!TypeBoard, People!TypeStore, People!TypePacers, People!TypeHandlers, People!TypeOK,
  People!OneCallPerKey

LEMMA OutcomesStarts == OutcomesP!Init <=> Outcomes!Init
BY DEF
  OutcomesP!KeyIds, OutcomesP!NoTouch, OutcomesP!Released, OutcomesP!NoRequest,
  OutcomesP!AnyTouch, OutcomesP!AnyHandler, OutcomesP!NoMem, OutcomesP!NoTrigger,
  OutcomesP!Init, Outcomes!KeyIds, Outcomes!NoTouch, Outcomes!Released, Outcomes!NoRequest,
  Outcomes!AnyTouch, Outcomes!AnyHandler, Outcomes!NoMem, Outcomes!NoTrigger, Outcomes!Init

LEMMA OutcomesSteps == OutcomesP!Next <=> Outcomes!Next
BY DEF
  OutcomesP!pacer, OutcomesP!handler, OutcomesP!store, OutcomesP!board, OutcomesP!KeyIds,
  OutcomesP!Refusals, OutcomesP!Owning, OutcomesP!NoTouch, OutcomesP!Released,
  OutcomesP!Row, OutcomesP!NoRequest, OutcomesP!AnyTouch, OutcomesP!AnyHandler,
  OutcomesP!NoMem, OutcomesP!NoTrigger, OutcomesP!Fault, OutcomesP!Goto, OutcomesP!Go,
  OutcomesP!T, OutcomesP!Set, OutcomesP!Called, OutcomesP!PlanApproved, OutcomesP!OnItsWay,
  OutcomesP!Dropped, OutcomesP!CallsSince, OutcomesP!Found, OutcomesP!Rebuilt,
  OutcomesP!Resolved, OutcomesP!ResolvedCall, OutcomesP!Pending, OutcomesP!Placed,
  OutcomesP!Free, OutcomesP!Sent, OutcomesP!LinkPlaced, OutcomesP!Later, OutcomesP!Skipped,
  OutcomesP!SkipUnlessPlaced, OutcomesP!NoFault, OutcomesP!Pick, OutcomesP!SettleKey,
  OutcomesP!Finished, OutcomesP!ToBoard, OutcomesP!Parked, OutcomesP!Researched,
  OutcomesP!NotNow, OutcomesP!Gate, OutcomesP!Claimable, OutcomesP!Claim,
  OutcomesP!Reopened, OutcomesP!Refused, OutcomesP!IdleHandlers, OutcomesP!Send,
  OutcomesP!GiveUp, OutcomesP!Resolve, OutcomesP!KeepsKey, OutcomesP!Refunded,
  OutcomesP!GaveUp, OutcomesP!Settled, OutcomesP!Apply, OutcomesP!Finish,
  OutcomesP!PacerCrash, OutcomesP!Reap, OutcomesP!Decision, OutcomesP!HeldTouch,
  OutcomesP!Hold, OutcomesP!Dismiss, OutcomesP!Edit, OutcomesP!Approve, OutcomesP!Blocks,
  OutcomesP!Release, OutcomesP!Exit, OutcomesP!Decide, OutcomesP!Key, OutcomesP!Req,
  OutcomesP!Then, OutcomesP!Reply, OutcomesP!SetRequest, OutcomesP!SetCall,
  OutcomesP!Handle, OutcomesP!NoLoss, OutcomesP!Reserve, OutcomesP!Arrive,
  OutcomesP!TakeOver, OutcomesP!Find, OutcomesP!Refuse, OutcomesP!Insert, OutcomesP!Busy,
  OutcomesP!Check, OutcomesP!InsertCall, OutcomesP!Link, OutcomesP!Place, OutcomesP!Written,
  OutcomesP!RecordPlaced, OutcomesP!RecordFailed, OutcomesP!Complete, OutcomesP!Crash,
  OutcomesP!Working, OutcomesP!Old, OutcomesP!TouchTime, OutcomesP!Aged, OutcomesP!Due,
  OutcomesP!CallEnds, OutcomesP!Sweep, OutcomesP!Pace, OutcomesP!Answer, OutcomesP!Next,
  Outcomes!pacer, Outcomes!handler, Outcomes!store, Outcomes!board, Outcomes!KeyIds,
  Outcomes!Refusals, Outcomes!Owning, Outcomes!NoTouch, Outcomes!Released, Outcomes!Row,
  Outcomes!NoRequest, Outcomes!AnyTouch, Outcomes!AnyHandler, Outcomes!NoMem,
  Outcomes!NoTrigger, Outcomes!Fault, Outcomes!Goto, Outcomes!Go, Outcomes!T, Outcomes!Set,
  Outcomes!Called, Outcomes!PlanApproved, Outcomes!OnItsWay, Outcomes!Dropped,
  Outcomes!CallsSince, Outcomes!Found, Outcomes!Rebuilt, Outcomes!Resolved,
  Outcomes!ResolvedCall, Outcomes!Pending, Outcomes!Placed, Outcomes!Free, Outcomes!Sent,
  Outcomes!LinkPlaced, Outcomes!Later, Outcomes!Skipped, Outcomes!SkipUnlessPlaced,
  Outcomes!NoFault, Outcomes!Pick, Outcomes!SettleKey, Outcomes!Finished, Outcomes!ToBoard,
  Outcomes!Parked, Outcomes!Researched, Outcomes!NotNow, Outcomes!Gate, Outcomes!Claimable,
  Outcomes!Claim, Outcomes!Reopened, Outcomes!Refused, Outcomes!IdleHandlers, Outcomes!Send,
  Outcomes!GiveUp, Outcomes!Resolve, Outcomes!KeepsKey, Outcomes!Refunded, Outcomes!GaveUp,
  Outcomes!Settled, Outcomes!Apply, Outcomes!Finish, Outcomes!PacerCrash, Outcomes!Reap,
  Outcomes!Decision, Outcomes!HeldTouch, Outcomes!Hold, Outcomes!Dismiss, Outcomes!Edit,
  Outcomes!Approve, Outcomes!Blocks, Outcomes!Release, Outcomes!Exit, Outcomes!Decide,
  Outcomes!Key, Outcomes!Req, Outcomes!Then, Outcomes!Reply, Outcomes!SetRequest,
  Outcomes!SetCall, Outcomes!Handle, Outcomes!NoLoss, Outcomes!Reserve, Outcomes!Arrive,
  Outcomes!TakeOver, Outcomes!Find, Outcomes!Refuse, Outcomes!Insert, Outcomes!Busy,
  Outcomes!Check, Outcomes!InsertCall, Outcomes!Link, Outcomes!Place, Outcomes!Written,
  Outcomes!RecordPlaced, Outcomes!RecordFailed, Outcomes!Complete, Outcomes!Crash,
  Outcomes!Working, Outcomes!Old, Outcomes!TouchTime, Outcomes!Aged, Outcomes!Due,
  Outcomes!CallEnds, Outcomes!Sweep, Outcomes!Pace, Outcomes!Answer, Outcomes!Next

LEMMA OutcomesPromises ==
  /\ OutcomesP!TypeOK <=> Outcomes!TypeOK
  /\ OutcomesP!OneCallPerKey <=> Outcomes!OneCallPerKey
BY DEF
  OutcomesP!KeyIds, OutcomesP!TouchStatus, OutcomesP!Refusals, OutcomesP!Stored,
  OutcomesP!Answers, OutcomesP!PacerSteps, OutcomesP!Owning, OutcomesP!HandlerSteps,
  OutcomesP!Touch, OutcomesP!Lead, OutcomesP!Request, OutcomesP!Call, OutcomesP!PacerMem,
  OutcomesP!Trigger, OutcomesP!TypeBoard, OutcomesP!TypeStore, OutcomesP!TypePacers,
  OutcomesP!TypeHandlers, OutcomesP!TypeOK, OutcomesP!OneCallPerKey, Outcomes!KeyIds,
  Outcomes!TouchStatus, Outcomes!Refusals, Outcomes!Stored, Outcomes!Answers,
  Outcomes!PacerSteps, Outcomes!Owning, Outcomes!HandlerSteps, Outcomes!Touch,
  Outcomes!Lead, Outcomes!Request, Outcomes!Call, Outcomes!PacerMem, Outcomes!Trigger,
  Outcomes!TypeBoard, Outcomes!TypeStore, Outcomes!TypePacers, Outcomes!TypeHandlers,
  Outcomes!TypeOK, Outcomes!OneCallPerKey

LEMMA BothWays == People!OneCallPerKey <=> Outcomes!OneCallPerKey
BY DEF People!OneCallPerKey, Outcomes!OneCallPerKey

LEMMA Assumed == PeopleP!TriggerAssumption /\ OutcomesP!TriggerAssumption
BY CallsAssumption DEF People!TriggerAssumption, PeopleP!TriggerAssumption, Outcomes!TriggerAssumption,
   OutcomesP!TriggerAssumption

LEMMA OneStart == Outcomes!Init => People!Init
BY DEF
  People!KeyIds, People!NoTouch, People!Released, People!NoRequest, People!AnyTouch,
  People!AnyHandler, People!NoMem, People!NoTrigger, People!Init, Outcomes!KeyIds,
  Outcomes!NoTouch, Outcomes!Released, Outcomes!NoRequest, Outcomes!AnyTouch,
  Outcomes!AnyHandler, Outcomes!NoMem, Outcomes!NoTrigger, Outcomes!Init

-----------------------------------------------------------------------------
(* A behaviour of the service is one of each worker.                       *)

LEMMA RepliesRun == OutreachSpec => Spec
<1>1. OutreachInit => Init
  BY DEF OutreachInit
<1>2. [OutreachNext]_allVars => [Next]_vars
  BY DEF OutreachNext, allVars
<1> QED
  BY <1>1, <1>2, PTL DEF OutreachSpec, Spec

LEMMA PeopleRun == OutreachSpec /\ "people" \in on => PeopleP!Spec /\ []("people" \in on)
<1>1. OutreachInit /\ "people" \in on => PeopleP!Init
  BY PeopleStarts, OneStart DEF OutreachInit
<1>2. OutreachSpec => []("people" \notin on \/ "outcomes" \notin on)
  <2>1. OutreachInit => "people" \notin on \/ "outcomes" \notin on
    BY CallsAssumption DEF OutreachInit
  <2>2. ("people" \notin on \/ "outcomes" \notin on) /\ [OutreachNext]_allVars
          => ("people" \notin on \/ "outcomes" \notin on)'
    BY DEF OutreachNext, allVars
  <2> QED
    BY <2>1, <2>2, PTL DEF OutreachSpec
<1>3. "people" \in on /\ ("people" \notin on \/ "outcomes" \notin on) /\ [OutreachNext]_allVars
        => [PeopleP!Next]_(PeopleP!vars) /\ ("people" \in on)'
  BY PeopleSteps DEF OutreachNext, allVars, CallVars, PeopleP!vars
<1> QED
  BY <1>1, <1>2, <1>3, PTL DEF OutreachSpec, PeopleP!Spec

LEMMA OutcomesRun == OutreachSpec /\ "people" \notin on => OutcomesP!Spec /\ []("people" \notin on)
<1>1. OutreachInit => OutcomesP!Init
  BY OutcomesStarts DEF OutreachInit
<1>2. "people" \notin on /\ [OutreachNext]_allVars
        => [OutcomesP!Next]_(OutcomesP!vars) /\ ("people" \notin on)'
  BY OutcomesSteps DEF OutreachNext, allVars, CallVars, OutcomesP!vars
<1> QED
  BY <1>1, <1>2, PTL DEF OutreachSpec, OutcomesP!Spec

-----------------------------------------------------------------------------
(* What each promises alone, the service keeps.                            *)

\* Every table and memory of the workers has its type, in whatever order ticks,
\* events, requests and people's decisions interleave (server.ts).
THEOREM OutreachTyped == OutreachSpec => []OutreachTypeOK
<1>1. OutreachSpec => []TypeOK
  BY RepliesRun, TypeCorrect, PTL
<1>2. PeopleP!Spec => []PeopleP!TypeOK
  BY Assumed, PeopleP!TypeCorrect
<1>3. OutcomesP!Spec => []OutcomesP!TypeOK
  BY Assumed, OutcomesP!TypeCorrect
<1>4. TypeOK /\ PeopleP!TypeOK /\ "people" \in on => OutreachTypeOK
  BY PeoplePromises DEF OutreachTypeOK
<1>5. TypeOK /\ OutcomesP!TypeOK /\ "people" \notin on => OutreachTypeOK
  BY OutcomesPromises DEF OutreachTypeOK
<1>6. "people" \in on \/ "people" \notin on
  OBVIOUS
<1> QED
  BY <1>1, <1>2, <1>3, <1>4, <1>5, <1>6, PeopleRun, OutcomesRun, PTL

\* Replies keep their promises beside the AI calls: each is handled once, a request to
\* stop is honoured, and an event that is done has been handled.
THEOREM RepliesKept == OutreachSpec => [](HandledOnce /\ OptOutHonoured /\ DoneMeansHandled)
BY RepliesRun, HandledOnceHolds, OptOutHonouredHolds, DoneMeansHandledHolds, PTL

\* One trigger key, one call and one ring, beside replies being handled and whichever
\* way the lead is called (request-store.ts:1-6, routes-internal.ts:242-265).
THEOREM CallsPlacedOnce == OutreachSpec => []OneCallPerKey
<1>1. PeopleP!Spec => []PeopleP!OneCallPerKey
  BY Assumed, PeopleP!OneCallPerKeyHolds
<1>2. OutcomesP!Spec => []OutcomesP!OneCallPerKey
  BY Assumed, OutcomesP!OneCallPerKeyHolds
<1>3. PeopleP!OneCallPerKey => OneCallPerKey
  BY PeoplePromises, BothWays DEF OneCallPerKey
<1>4. OutcomesP!OneCallPerKey => OneCallPerKey
  BY OutcomesPromises DEF OneCallPerKey
<1>5. "people" \in on \/ "people" \notin on
  OBVIOUS
<1> QED
  BY <1>1, <1>2, <1>3, <1>4, <1>5, PeopleRun, OutcomesRun, PTL

-----------------------------------------------------------------------------
(* One book of keyed calls, whichever way the lead is called.             *)

LEMMA PeoplesBook ==
  /\ PeopleP!Book!KInit <=> Outcomes!Book!KInit
  /\ [PeopleP!Book!KNext]_(PeopleP!Book!keyed) <=> [Outcomes!Book!KNext]_(Outcomes!Book!keyed)
<1>1. PeopleP!Book!KInit <=> Outcomes!Book!KInit
  BY DEF
  PeopleP!KeyIds, PeopleP!Refusals, PeopleP!Stored, PeopleP!Answered, PeopleP!Said,
  PeopleP!Named, PeopleP!Asked, PeopleP!Entries, PeopleP!Book!KInit, Outcomes!KeyIds,
  Outcomes!Refusals, Outcomes!Stored, Outcomes!Answered, Outcomes!Said, Outcomes!Named,
  Outcomes!Asked, Outcomes!Entries, Outcomes!Book!KInit
<1>2. PeopleP!Book!KNext <=> Outcomes!Book!KNext
  BY DEF
  PeopleP!KeyIds, PeopleP!Refusals, PeopleP!Stored, PeopleP!Answered, PeopleP!Said,
  PeopleP!Named, PeopleP!Asked, PeopleP!Entries, PeopleP!Book!Ask, PeopleP!Book!Enter,
  PeopleP!Book!Ring, PeopleP!Book!Tell, PeopleP!Book!KNext, Outcomes!KeyIds,
  Outcomes!Refusals, Outcomes!Stored, Outcomes!Answered, Outcomes!Said, Outcomes!Named,
  Outcomes!Asked, Outcomes!Entries, Outcomes!Book!Ask, Outcomes!Book!Enter,
  Outcomes!Book!Ring, Outcomes!Book!Tell, Outcomes!Book!KNext
<1>3. PeopleP!Book!keyed = Outcomes!Book!keyed /\ PeopleP!Book!keyed' = Outcomes!Book!keyed'
  BY DEF
  PeopleP!KeyIds, PeopleP!Refusals, PeopleP!Stored, PeopleP!Answered, PeopleP!Said,
  PeopleP!Named, PeopleP!Asked, PeopleP!Entries, PeopleP!Book!keyed, Outcomes!KeyIds,
  Outcomes!Refusals, Outcomes!Stored, Outcomes!Answered, Outcomes!Said, Outcomes!Named,
  Outcomes!Asked, Outcomes!Entries, Outcomes!Book!keyed
<1> QED
  BY <1>1, <1>2, <1>3

LEMMA OutcomesBook ==
  /\ OutcomesP!Book!KInit <=> Outcomes!Book!KInit
  /\ [OutcomesP!Book!KNext]_(OutcomesP!Book!keyed) <=> [Outcomes!Book!KNext]_(Outcomes!Book!keyed)
<1>1. OutcomesP!Book!KInit <=> Outcomes!Book!KInit
  BY DEF
  OutcomesP!KeyIds, OutcomesP!Refusals, OutcomesP!Stored, OutcomesP!Answered,
  OutcomesP!Said, OutcomesP!Named, OutcomesP!Asked, OutcomesP!Entries, OutcomesP!Book!KInit,
  Outcomes!KeyIds, Outcomes!Refusals, Outcomes!Stored, Outcomes!Answered, Outcomes!Said,
  Outcomes!Named, Outcomes!Asked, Outcomes!Entries, Outcomes!Book!KInit
<1>2. OutcomesP!Book!KNext <=> Outcomes!Book!KNext
  BY DEF
  OutcomesP!KeyIds, OutcomesP!Refusals, OutcomesP!Stored, OutcomesP!Answered,
  OutcomesP!Said, OutcomesP!Named, OutcomesP!Asked, OutcomesP!Entries, OutcomesP!Book!Ask,
  OutcomesP!Book!Enter, OutcomesP!Book!Ring, OutcomesP!Book!Tell, OutcomesP!Book!KNext,
  Outcomes!KeyIds, Outcomes!Refusals, Outcomes!Stored, Outcomes!Answered, Outcomes!Said,
  Outcomes!Named, Outcomes!Asked, Outcomes!Entries, Outcomes!Book!Ask, Outcomes!Book!Enter,
  Outcomes!Book!Ring, Outcomes!Book!Tell, Outcomes!Book!KNext
<1>3. OutcomesP!Book!keyed = Outcomes!Book!keyed /\ OutcomesP!Book!keyed' = Outcomes!Book!keyed'
  BY DEF
  OutcomesP!KeyIds, OutcomesP!Refusals, OutcomesP!Stored, OutcomesP!Answered,
  OutcomesP!Said, OutcomesP!Named, OutcomesP!Asked, OutcomesP!Entries, OutcomesP!Book!keyed,
  Outcomes!KeyIds, Outcomes!Refusals, Outcomes!Stored, Outcomes!Answered, Outcomes!Said,
  Outcomes!Named, Outcomes!Asked, Outcomes!Entries, Outcomes!Book!keyed
<1> QED
  BY <1>1, <1>2, <1>3

\* A key rings only while it is reserved and unanswered, and once; its answer is final
\* and, when it says placed, names a call of the record since the reservation, beside
\* replies being handled and whichever way the lead is called (request-store.ts:1-6,
\* routes-internal.ts:242-265).
THEOREM KeyedCallsKept == OutreachSpec => KeepsKeys
<1>1. PeopleP!Spec => PeopleP!Book!KSpec
  BY Assumed, PeopleP!KeepsKeysHolds DEF PeopleP!KeepsKeys
<1>2. OutcomesP!Spec => OutcomesP!Book!KSpec
  BY Assumed, OutcomesP!KeepsKeysHolds DEF OutcomesP!KeepsKeys
<1>3. PeopleP!Book!KSpec => Outcomes!Book!KSpec
  BY PeoplesBook, PTL DEF PeopleP!Book!KSpec, Outcomes!Book!KSpec
<1>4. OutcomesP!Book!KSpec => Outcomes!Book!KSpec
  BY OutcomesBook, PTL DEF OutcomesP!Book!KSpec, Outcomes!Book!KSpec
<1>5. "people" \in on \/ "people" \notin on
  OBVIOUS
<1> QED
  BY <1>1, <1>2, <1>3, <1>4, <1>5, PeopleRun, OutcomesRun, PTL DEF KeepsKeys, Outcomes!KeepsKeys

-----------------------------------------------------------------------------
(* One tick at a time.                                                     *)

LEMMA PeoplesOwn == PeopleP!OwnCall <=> Outcomes!OwnCall
BY DEF
  PeopleP!Plan, PeopleP!OwnCall, Outcomes!Plan, Outcomes!OwnCall

LEMMA OutcomesOwn == OutcomesP!OwnCall <=> Outcomes!OwnCall
BY DEF
  OutcomesP!Plan, OutcomesP!OwnCall, Outcomes!Plan, Outcomes!OwnCall

\* While the ai_call.place ticks do not overlap, the call a touch is sent with was placed
\* for it, beside replies being handled and whichever way the lead is called, however the
\* call was found and whatever was lost or decided meanwhile (key-resolution.ts:10-13).
THEOREM CallsOwn ==
  ASSUME \A p, q \in Pacers : p = q
  PROVE  OutreachSpec => []OwnCall
<1>1. PeopleP!OneTick /\ OutcomesP!OneTick
  BY DEF PeopleP!OneTick, OutcomesP!OneTick
<1>2. PeopleP!Spec => []PeopleP!OwnCall
  BY <1>1, Assumed, PeopleP!OwnCallHolds
<1>3. OutcomesP!Spec => []OutcomesP!OwnCall
  BY <1>1, Assumed, OutcomesP!OwnCallHolds
<1>4. (PeopleP!OwnCall => OwnCall) /\ (OutcomesP!OwnCall => OwnCall)
  BY PeoplesOwn, OutcomesOwn DEF OwnCall
<1>5. "people" \in on \/ "people" \notin on
  OBVIOUS
<1> QED
  BY <1>2, <1>3, <1>4, <1>5, PeopleRun, OutcomesRun, PTL
=============================================================================
