------------------------------- MODULE Workers -------------------------------
(***************************************************************************)
(* The background workers of cti-api that write to Salesforce, side by     *)
(* side in one service (server.ts): rollovers, the call log, and inbound   *)
(* texts.  Each runs on a timer of its own.  They share no table, so a     *)
(* step of one leaves the others alone.  Texts come twice: single texts,   *)
(* and a batch of them behind one digest.                                  *)
(***************************************************************************)
EXTENDS RolloverQueue, Sequences

CONSTANTS
  Together,  \* the sets of workers that run side by side in a behaviour
  LogReplicas, Handlers, RepChoices, LogAttempts, MaxRequests, LogFaults, MaxLogFaults,
  TextReplicas, Texts, BatchReplicas, Batch, MaxTries, TextFaults, MaxTextFaults

VARIABLES
  on,  \* the workers that run in this behaviour
  inbound, call, syncJob, tasks, posts, callPc, callMem, callUnheard, cut, raced, asked, callFaults,
  backfill, text, digest, tried, made, mails, delivered, textUnheard, overrun,
  textPc, textMem, todo, stuck, textFaults

CallVars == <<inbound, call, syncJob, tasks, posts, callPc, callMem, callUnheard, cut, raced,
              asked, callFaults>>
TextVars == <<backfill, text, digest, tried, made, mails, delivered, textUnheard, overrun,
              textPc, textMem, todo, stuck, textFaults>>
allVars == <<on, vars, CallVars, TextVars>>

Calls == INSTANCE CallLog WITH
  Replicas <- LogReplicas, MaxAttempts <- LogAttempts, Faults <- LogFaults, MaxFaults <- MaxLogFaults,
  job <- syncJob, pc <- callPc, mem <- callMem, unheard <- callUnheard, faults <- callFaults
OneText == INSTANCE TextQueue WITH
  Replicas <- TextReplicas, Faults <- TextFaults, MaxFaults <- MaxTextFaults,
  unheard <- textUnheard, pc <- textPc, mem <- textMem, faults <- textFaults
TextBatch == INSTANCE TextQueue WITH
  Replicas <- BatchReplicas, Texts <- Batch, Faults <- TextFaults, MaxFaults <- MaxTextFaults,
  unheard <- textUnheard, pc <- textPc, mem <- textMem, faults <- textFaults

ASSUME WorkersAssumption ==
  /\ Calls!CallAssumption /\ OneText!TextAssumption /\ TextBatch!TextAssumption
  /\ \A T \in Together : ~({"text", "batch"} \subseteq T)

WorkersInit ==
  /\ on \in Together
  /\ Init /\ Calls!Init
  /\ IF "batch" \in on THEN TextBatch!Init ELSE OneText!Init

Rollover(A) == "rollover" \in on /\ A /\ UNCHANGED <<on, CallVars, TextVars>>
Log(A) == "calls" \in on /\ A /\ UNCHANGED <<on, vars, TextVars>>
Text(A) == "text" \in on /\ A /\ UNCHANGED <<on, vars, CallVars>>
InBatch(A) == "batch" \in on /\ A /\ UNCHANGED <<on, vars, CallVars>>

WorkersNext ==
  Rollover(Next) \/ Log(Calls!Next) \/ Text(OneText!Next) \/ InBatch(TextBatch!Next)
WorkersSpec == WorkersInit /\ [][WorkersNext]_allVars

-----------------------------------------------------------------------------
\* Every worker's variables have their types.
WorkersTypeOK ==
  TypeOK /\ Calls!TypeOK /\ IF "batch" \in on THEN TextBatch!TypeOK ELSE OneText!TypeOK

\* CallLog.LoggedOnce: no second Task or post but for one whose id was lost.
LoggedOnce == Calls!LoggedOnce
\* CallLog.DispositionReaches: outside its windows the rep's disposition is on
\* the Task.
DispositionReaches == Calls!DispositionReaches

\* TextQueue.DigestOnce: the digest email goes out at most once.
DigestOnce == IF "batch" \in on THEN TextBatch!DigestOnce ELSE OneText!DigestOnce
\* TextQueue.TriesCapped, ToldOnce: at most MAX_TRIES creates, one Task and one
\* alert but for a lost answer or an overrun.
TextToldOnce ==
  IF "batch" \in on THEN TextBatch!TriesCapped /\ TextBatch!ToldOnce
  ELSE OneText!TriesCapped /\ OneText!ToldOnce
\* TextQueue.NothingSilent, DigestAfterBatch: no text is done untold, and no
\* digest is queued while one of its texts is undecided.
NothingSilent ==
  IF "batch" \in on THEN TextBatch!NothingSilent /\ TextBatch!DigestAfterBatch
  ELSE OneText!NothingSilent /\ OneText!DigestAfterBatch
=============================================================================
