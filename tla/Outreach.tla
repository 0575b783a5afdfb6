------------------------------- MODULE Outreach -------------------------------
(***************************************************************************)
(* The workers of outreach-api that are not its email outbox, side by side *)
(* in one service (server.ts): replies, and the AI calls with the handlers *)
(* of cti-api they ask.  What one does to the other (a stop exits the      *)
(* lead, a flag holds its calls, a call's result stops the seller), the    *)
(* other allows at any moment, so a transaction of both is a step of each. *)
(* A lead is called in one of two ways: with people who decide often, or   *)
(* with every refusal and outcome.                                         *)
(***************************************************************************)
EXTENDS SamReplies, Sequences

CONSTANTS
  Together,  \* the sets of workers that run side by side in a behaviour
  Pacers, Handlers, Touches, CallAttempts, MaxKeys, CallFaults, MaxCallFaults,
  FewRefusals, ManyDecisions,  \* bounds of one way a lead is called
  ManyRefusals, FewDecisions   \* bounds of the other

VARIABLES
  on,  \* the workers that run in this behaviour
  touch, lead, keys, request, calls, tickPc, tickMem, callPc, callMem, overtaken, decided, callFaults

CallVars == <<touch, lead, keys, request, calls, tickPc, tickMem, callPc, callMem, overtaken,
              decided, callFaults>>
allVars == <<on, vars, CallVars>>

People == INSTANCE AiTrigger WITH
  MaxAttempts <- CallAttempts, Faults <- CallFaults, MaxFaults <- MaxCallFaults,
  May <- FewRefusals, MaxChanges <- ManyDecisions,
  pc <- tickPc, mem <- tickMem, hpc <- callPc, hmem <- callMem, changes <- decided, faults <- callFaults
Outcomes == INSTANCE AiTrigger WITH
  MaxAttempts <- CallAttempts, Faults <- CallFaults, MaxFaults <- MaxCallFaults,
  May <- ManyRefusals, MaxChanges <- FewDecisions,
  pc <- tickPc, mem <- tickMem, hpc <- callPc, hmem <- callMem, changes <- decided, faults <- callFaults

ASSUME CallsAssumption ==
  /\ People!TriggerAssumption /\ Outcomes!TriggerAssumption
  /\ \A T \in Together : ~({"people", "outcomes"} \subseteq T)

OutreachInit ==
  /\ on \in Together
  /\ Init
  /\ Outcomes!Init  \* the bounds differ, the start does not

\* A transaction may be a step of both.
OutreachNext ==
  /\ UNCHANGED on
  /\ \/ "reply" \in on /\ Next
     \/ UNCHANGED vars
  /\ \/ "people" \in on /\ People!Next
     \/ "outcomes" \in on /\ Outcomes!Next
     \/ UNCHANGED CallVars
OutreachSpec == OutreachInit /\ [][OutreachNext]_allVars

-----------------------------------------------------------------------------
\* Every variable of the workers has its type.
OutreachTypeOK == TypeOK /\ IF "people" \in on THEN People!TypeOK ELSE Outcomes!TypeOK

\* AiTrigger.OneCallPerKey: one trigger key, one call, one ring.
OneCallPerKey == Outcomes!OneCallPerKey
\* AiTrigger.NoBlindCall: no lead is rung again while an earlier call is on no touch.
NoBlindCall == Outcomes!NoBlindCall
\* AiTrigger.OwnCall: a touch is sent with the call that was placed for it.
OwnCall == Outcomes!OwnCall
\* AiTrigger.KeepsKeys: a key rings only until it is answered, once, and its answer
\* is final.
KeepsKeys == Outcomes!KeepsKeys
=============================================================================
