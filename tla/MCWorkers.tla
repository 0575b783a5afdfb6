------------------------------- MODULE MCWorkers -------------------------------
(***************************************************************************)
(* The workers of cti-api on small instances, each by itself: what the     *)
(* others would leave open at their start is settled.  Texts run twice:    *)
(* one text handled by two replicas, and a batch of two by one.            *)
(***************************************************************************)
EXTENDS Workers

MCInit ==
  /\ WorkersInit
  /\ "r1" \in up  \* the replicas are alike
  /\ "rollover" \notin on => up = Replicas /\ \A j \in Jobs : ~job[j].bySource
  /\ "calls" \notin on => ~inbound
  /\ "text" \notin on /\ "batch" \notin on => ~backfill

\* The fairness of the three modules.  Only one of them runs, so the
\* conditions of the different ones stand in one WF each.
MCFairness ==
  /\ WF_allVars(\/ Rollover(Tick("r1") \/ Process("r1"))
                \/ Log(Calls!Tick("r1") \/ Calls!Sync("r1") \/ Calls!Push_("r1"))
                \/ Text(OneText!Tick("r1") \/ OneText!Process("r1") \/ OneText!Digest("r1"))
                \/ InBatch(TextBatch!Tick("r1") \/ TextBatch!Process("r1") \/ TextBatch!Digest("r1")))
  /\ WF_allVars(\/ Rollover(Tick("r2") \/ Process("r2"))
                \/ Log(Calls!Handle("h1") \/ Calls!Push_("h1"))
                \/ Text(OneText!Tick("r2") \/ OneText!Process("r2") \/ OneText!Digest("r2")))
  /\ WF_allVars(\/ Rollover(Due("j1")) \/ Log(Calls!Due)
                \/ Text(OneText!TextDue("t1")) \/ InBatch(TextBatch!TextDue("t1")))
  /\ WF_allVars(\/ Rollover(Stale("j1")) \/ Log(Calls!Stale)
                \/ Text(OneText!TextStale("t1")) \/ InBatch(TextBatch!TextStale("t1")))
  /\ WF_allVars(Log(Calls!Age) \/ Text(OneText!DigestDue) \/ InBatch(TextBatch!DigestDue))
  /\ WF_allVars(Log(Calls!Quiet) \/ Text(OneText!DigestStale) \/ InBatch(TextBatch!DigestStale))
  /\ WF_allVars(InBatch(TextBatch!TextDue("t2"))) /\ WF_allVars(InBatch(TextBatch!TextStale("t2")))

MCSpec == MCInit /\ [][WorkersNext]_allVars /\ MCFairness

-----------------------------------------------------------------------------
\* CallLog.LinkReaches: the recording gets to the Task of record,
\* or Salesforce has rejected it.
LinkReaches == Calls!LinkReaches

\* RolloverQueue.JobSettles, CallLog.CallLogged, TextQueue.AllTold: a rollover
\* job queued settles; a call that ends (but `failed`), and an inbound one whether
\* or not its end is reported, is logged or decided against; every text ends, and
\* a batch's digest with it.
Waiting ==
  CASE "rollover" \in on -> \E j \in Jobs : job[j].st = "pending"
    [] "calls" \in on -> Calls!ToLog
    [] OTHER -> TRUE
Finished ==
  CASE "rollover" \in on -> \A j \in Jobs : job[j].st \in SettledStatus
    [] "calls" \in on -> Calls!Logged
    [] "text" \in on -> OneText!Told
    [] "batch" \in on -> TextBatch!Told
QueuesDrain == Waiting ~> Finished
=============================================================================
