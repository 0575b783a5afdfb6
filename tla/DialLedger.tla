----------------------------- MODULE DialLedger -----------------------------
(***************************************************************************)
(* What a power-dial run promises the people on its list, with everything  *)
(* about handlers, transactions and Twilio left out.  A row of the queue   *)
(* is queued, taken live, and closed for good.  Placing a call needs the   *)
(* right to dial the row; the right is granted only for a queued row of an *)
(* active run, serves for one call, and may be handed back unused.         *)
(***************************************************************************)
EXTENDS Naturals

CONSTANT Rows

VARIABLES
  run,    \* the status of the run
  life,   \* "absent", "queued", "live" or "closed", per row
  right,  \* rows somebody holds the right to dial
  rang    \* how many calls were placed for the row

ledger == <<run, life, right, rang>>

LInit ==
  /\ run = "ready"
  /\ life \in [Rows -> {"absent", "queued", "closed"}]
  /\ right = {}
  /\ rang = [r \in Rows |-> 0]

\* The rep, the server's timers or the end of the queue change the run; a run
\* never becomes `ready` again.
ChangeRun ==
  /\ run' \in {"active", "paused", "stopped", "done"}
  /\ UNCHANGED <<life, right, rang>>

\* Start may cut the tail of the queue.
Begin(S) ==
  /\ run = "ready" /\ run' = "active"
  /\ life' = [r \in Rows |-> IF r \in S THEN "closed" ELSE life[r]]
  /\ \A r \in S : life[r] # "absent"
  /\ UNCHANGED <<right, rang>>

Grant(r) ==
  /\ run = "active" /\ life[r] = "queued" /\ r \notin right
  /\ life' = [life EXCEPT ![r] = "live"]
  /\ right' = right \cup {r}
  /\ UNCHANGED <<run, rang>>

Ring(r) ==
  /\ r \in right /\ rang[r] = 0
  /\ rang' = [rang EXCEPT ![r] = 1]
  /\ right' = right \ {r}
  /\ UNCHANGED <<run, life>>

\* The call was not placed: back to the queue, or the row is somebody else's now.
HandBack(r) ==
  /\ r \in right /\ rang[r] = 0
  /\ life' \in {life, [life EXCEPT ![r] = IF @ = "live" THEN "queued" ELSE @],
                      [life EXCEPT ![r] = "closed"]}
  /\ right' = right \ {r}
  /\ UNCHANGED <<run, rang>>

\* A row is closed; the person may be queued again, as a new row.
Close(r) ==
  /\ life[r] # "absent"
  /\ \/ life' = [life EXCEPT ![r] = "closed"]
     \/ \E q \in Rows : /\ life[q] = "absent"
                        /\ life' = [life EXCEPT ![r] = "closed", ![q] = "queued"]
  /\ run' \in {run, "paused"}
  /\ UNCHANGED <<right, rang>>

LNext ==
  \/ ChangeRun
  \/ \E S \in SUBSET Rows : Begin(S)
  \/ \E r \in Rows : Grant(r) \/ Ring(r) \/ HandBack(r) \/ Close(r)

LSpec == LInit /\ [][LNext]_ledger
=============================================================================
