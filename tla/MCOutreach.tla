------------------------------ MODULE MCOutreach -------------------------------
(***************************************************************************)
(* The workers of outreach-api on small instances, each by itself: replies *)
(* that nobody handles stay words.  One reply is announced by two events,  *)
(* for two ticks that may overlap.  A lead is called twice over: with      *)
(* people who may hold, edit, approve and release its plan four times, and *)
(* with every refusal and outcome while they decide once.                  *)
(***************************************************************************)
EXTENDS Outreach

CONSTANT TheReply
OneReply == [e \in Events |-> TheReply]

MCInit ==
  /\ OutreachInit
  /\ "reply" \notin on => \A r \in Replies : reply[r].kind = "words"

Handling(A) == "reply" \in on /\ A /\ UNCHANGED <<on, CallVars>>
Called(A) == "people" \in on /\ A /\ UNCHANGED <<on, vars>>
Tried(A) == "outcomes" \in on /\ A /\ UNCHANGED <<on, vars>>

\* The fairness of the two modules.  Only one of them runs, so the conditions
\* of the different ones stand in one WF each.
MCFairness ==
  /\ WF_allVars(Handling(Tick("k1")) \/ Called(People!Pace("p1")) \/ Tried(Outcomes!Pace("p1")))
  /\ WF_allVars(Handling(Tick("k2")) \/ Called(People!Answer("h1")) \/ Tried(Outcomes!Answer("h1")))
  /\ WF_allVars(Called(People!Answer("h2")) \/ Tried(Outcomes!Answer("h2")))
  /\ WF_allVars(Handling(DueAgain("e1")) \/ Called(People!Old(1)) \/ Tried(Outcomes!Old(1)))
  /\ WF_allVars(Handling(DueAgain("e2")) \/ Called(People!Old(2)) \/ Tried(Outcomes!Old(2)))
  /\ WF_allVars(Called(People!Due("t1")) \/ Tried(Outcomes!Due("t1")))
  /\ WF_allVars(Called(People!Due("t2")) \/ Tried(Outcomes!Due("t2")))

MCSpec == MCInit /\ [][OutreachNext]_allVars /\ MCFairness

-----------------------------------------------------------------------------
\* SamReplies.EventEnds, AiTrigger.CallKept: every event ends done, ignored or
\* failed; a call that rang gets on its touch while the lead stays.
Settled ==
  IF "reply" \in on THEN \A e \in Events : event[e].st \in Ended
  ELSE lead.st = "active" => \A i \in DOMAIN calls : Outcomes!Told(i)
OutreachSettles == []<>Settled
=============================================================================
