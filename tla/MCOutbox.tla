-------------------------------- MODULE MCOutbox --------------------------------
(***************************************************************************)
(* Sam's outbox between two overlapping ticks.  part says which instance:  *)
(*   "one"  one email, two faults, and a change by a person, the seller,   *)
(*          Resend or Salesforce at any moment; a practice conversation    *)
(*          has one fault                                                  *)
(*   "two"  two answers at a cap of one; the only change is the seller     *)
(*          given back to Sam                                              *)
(***************************************************************************)
EXTENDS SamOutbox

CONSTANTS First, Second  \* the two emails

VARIABLE part

allVars == <<part, vars>>

MCInit ==
  /\ part \in {"one", "two"}
  /\ Init /\ (part = "two" => seller.hours /\ ~practice)

OneEmail == row'[Second].st = "none" /\ (practice => faults' <= 1)
TwoAnswers ==
  /\ faults' <= 1 /\ (changes' = 0 \/ (helped' /\ ~seller'.person))
  /\ \A e \in Emails : row'[e].st # "none" => row'[e].purpose = "reply"

\* Neither restriction ever stops a step of a tick or of time.
Restricted(A) == A /\ (IF part = "one" THEN OneEmail ELSE TwoAnswers) /\ UNCHANGED part

MCNext == Restricted(Next)

MCFairness ==
  /\ \A w \in Workers : WF_allVars(Restricted(Tick(w) \/ Work(w)))
  /\ \A e \in Emails : WF_allVars(Restricted(Due(e))) /\ WF_allVars(Restricted(Stale(e)))
  /\ WF_allVars(Restricted(HoursOpen))

MCSpec == MCInit /\ [][MCNext]_allVars /\ MCFairness
=============================================================================
