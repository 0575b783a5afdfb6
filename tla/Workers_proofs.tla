---------------------------- MODULE Workers_proofs ----------------------------
(* Side by side the workers keep what each promises alone.                  *)
EXTENDS Workers, RolloverQueue_proofs

\* The components with their theorems.
CallsP == INSTANCE CallLog_proofs WITH
  Replicas <- LogReplicas, MaxAttempts <- LogAttempts, Faults <- LogFaults, MaxFaults <- MaxLogFaults,
  job <- syncJob, pc <- callPc, mem <- callMem, unheard <- callUnheard, faults <- callFaults
OneTextP == INSTANCE TextQueue_proofs WITH
  Replicas <- TextReplicas, Faults <- TextFaults, MaxFaults <- MaxTextFaults,
  unheard <- textUnheard, pc <- textPc, mem <- textMem, faults <- textFaults
TextBatchP == INSTANCE TextQueue_proofs WITH
  Replicas <- BatchReplicas, Texts <- Batch, Faults <- TextFaults, MaxFaults <- MaxTextFaults,
  unheard <- textUnheard, pc <- textPc, mem <- textMem, faults <- textFaults

LEMMA CallsStarts == CallsP!Init <=> Calls!Init
BY DEF
  CallsP!Workers, CallsP!NoCall, CallsP!NoJob, CallsP!NoMem, CallsP!Init, Calls!Workers,
  Calls!NoCall, Calls!NoJob, Calls!NoMem, Calls!Init

LEMMA CallsSteps == CallsP!Next <=> Calls!Next
BY DEF
  CallsP!ghosts, CallsP!outside, CallsP!Workers, CallsP!NoMem, CallsP!Fault, CallsP!Request,
  CallsP!Bounds, CallsP!At, CallsP!Goto, CallsP!SetCall, CallsP!Enqueued, CallsP!End,
  CallsP!Undisposed, CallsP!Age, CallsP!Unpushed, CallsP!Quiet, CallsP!Due, CallsP!Syncing, CallsP!Stale, CallsP!Dispose,
  CallsP!Window, CallsP!Disposed, CallsP!SetDispo, CallsP!Correct, CallsP!CorrectFails, CallsP!Enqueue,
  CallsP!EnsureLogged, CallsP!Recorded, CallsP!Push, CallsP!PatchLink,
  CallsP!PatchLinkFails, CallsP!StampLink, CallsP!Reap, CallsP!ReapInbound, CallsP!Rescue,
  CallsP!Sweep, CallsP!Mark, CallsP!EnqueueMarked, CallsP!List, CallsP!Claim,
  CallsP!SweepLinks, CallsP!ReadCall, CallsP!GatePasses, CallsP!NotOwner, CallsP!MakeTask,
  CallsP!Create, CallsP!CreateUnanswered, CallsP!StampTask, CallsP!Chatter,
  CallsP!StampFeed, CallsP!Fresh, CallsP!Finish, CallsP!RequestFails, CallsP!Fail,
  CallsP!Crash, CallsP!Tick, CallsP!Sync, CallsP!Push_, CallsP!Ask, CallsP!Handle,
  CallsP!Failure, CallsP!World, CallsP!Next, Calls!ghosts, Calls!outside, Calls!Workers,
  Calls!NoMem, Calls!Fault, Calls!Request, Calls!Bounds, Calls!At, Calls!Goto,
  Calls!SetCall, Calls!Enqueued, Calls!End, Calls!Undisposed, Calls!Age, Calls!Unpushed, Calls!Quiet, Calls!Due,
  Calls!Syncing, Calls!Stale, Calls!Dispose, Calls!Window, Calls!Disposed, Calls!SetDispo, Calls!Correct,
  Calls!CorrectFails, Calls!Enqueue, Calls!EnsureLogged, Calls!Recorded, Calls!Push,
  Calls!PatchLink, Calls!PatchLinkFails, Calls!StampLink, Calls!Reap, Calls!ReapInbound,
  Calls!Rescue, Calls!Sweep, Calls!Mark, Calls!EnqueueMarked, Calls!List, Calls!Claim,
  Calls!SweepLinks, Calls!ReadCall, Calls!GatePasses, Calls!NotOwner, Calls!MakeTask,
  Calls!Create, Calls!CreateUnanswered, Calls!StampTask, Calls!Chatter, Calls!StampFeed,
  Calls!Fresh, Calls!Finish, Calls!RequestFails, Calls!Fail, Calls!Crash, Calls!Tick,
  Calls!Sync, Calls!Push_, Calls!Ask, Calls!Handle, Calls!Failure, Calls!World, Calls!Next

LEMMA CallsPromises ==
  /\ CallsP!TypeOK <=> Calls!TypeOK
  /\ CallsP!LoggedOnce <=> Calls!LoggedOnce
  /\ CallsP!DispositionReaches <=> Calls!DispositionReaches
BY DEF
  CallsP!Cardinality, CallsP!Workers, CallsP!Dispositions, CallsP!LinkStates, CallsP!JobStatus, CallsP!Alone,
  CallsP!TypeOK, CallsP!LoggedOnce, CallsP!DispositionReaches, Calls!Cardinality,
  Calls!Workers, Calls!Dispositions, Calls!LinkStates, Calls!JobStatus, Calls!Alone, Calls!TypeOK,
  Calls!LoggedOnce, Calls!DispositionReaches

LEMMA OneTextStarts == OneTextP!Init <=> OneText!Init
BY DEF
  OneTextP!NewText, OneTextP!NoDigest, OneTextP!AnyText, OneTextP!NoMem, OneTextP!Init,
  OneText!NewText, OneText!NoDigest, OneText!AnyText, OneText!NoMem, OneText!Init

LEMMA OneTextSteps == OneTextP!Next <=> OneText!Next
BY DEF
  OneTextP!sent, OneTextP!post, OneTextP!lists, OneTextP!Terminal, OneTextP!RowSteps,
  OneTextP!AnyText, OneTextP!NoMem, OneTextP!Fault, OneTextP!At, OneTextP!Goto,
  OneTextP!Patch, OneTextP!Row, OneTextP!Plus, OneTextP!HeldBy, OneTextP!OwesAlert,
  OneTextP!Memory, OneTextP!TextDue, OneTextP!TextStale, OneTextP!DigestDue,
  OneTextP!DigestStale, OneTextP!Old, OneTextP!Reap, OneTextP!FinalAlert, OneTextP!Scan,
  OneTextP!Claimable, OneTextP!Claimed, OneTextP!Claim, OneTextP!GiveUp, OneTextP!Lose,
  OneTextP!EndScan, OneTextP!AfterTask, OneTextP!Match, OneTextP!Create,
  OneTextP!GiveUpTask, OneTextP!CreateRefused, OneTextP!CreateUnanswered,
  OneTextP!StampTask, OneTextP!AlertedRecently, OneTextP!GuardedAlert, OneTextP!AfterAlert,
  OneTextP!SkipAlert, OneTextP!ToEmail, OneTextP!Email, OneTextP!AlertFailed,
  OneTextP!EmailUnanswered, OneTextP!EmailRefused, OneTextP!StampEmail, OneTextP!Close,
  OneTextP!RequestFails, OneTextP!Catch, OneTextP!NextDigest, OneTextP!ReapDigest,
  OneTextP!BatchReady, OneTextP!QueueDigest, OneTextP!ScanDigest, OneTextP!ReadDigest,
  OneTextP!Backoff, OneTextP!StillPending, OneTextP!ReadDigestFails, OneTextP!ClaimDigest,
  OneTextP!Post, OneTextP!PostUnclear, OneTextP!PostRefused, OneTextP!DigestClosed,
  OneTextP!Crash, OneTextP!Tick, OneTextP!Process, OneTextP!Digest, OneTextP!Failure,
  OneTextP!Time, OneTextP!Next, OneText!sent, OneText!post, OneText!lists, OneText!Terminal,
  OneText!RowSteps, OneText!AnyText, OneText!NoMem, OneText!Fault, OneText!At, OneText!Goto,
  OneText!Patch, OneText!Row, OneText!Plus, OneText!HeldBy, OneText!OwesAlert,
  OneText!Memory, OneText!TextDue, OneText!TextStale, OneText!DigestDue,
  OneText!DigestStale, OneText!Old, OneText!Reap, OneText!FinalAlert, OneText!Scan,
  OneText!Claimable, OneText!Claimed, OneText!Claim, OneText!GiveUp, OneText!Lose,
  OneText!EndScan, OneText!AfterTask, OneText!Match, OneText!Create, OneText!GiveUpTask,
  OneText!CreateRefused, OneText!CreateUnanswered, OneText!StampTask,
  OneText!AlertedRecently, OneText!GuardedAlert, OneText!AfterAlert, OneText!SkipAlert,
  OneText!ToEmail, OneText!Email, OneText!AlertFailed, OneText!EmailUnanswered,
  OneText!EmailRefused, OneText!StampEmail, OneText!Close, OneText!RequestFails,
  OneText!Catch, OneText!NextDigest, OneText!ReapDigest, OneText!BatchReady,
  OneText!QueueDigest, OneText!ScanDigest, OneText!ReadDigest, OneText!Backoff,
  OneText!StillPending, OneText!ReadDigestFails, OneText!ClaimDigest, OneText!Post,
  OneText!PostUnclear, OneText!PostRefused, OneText!DigestClosed, OneText!Crash,
  OneText!Tick, OneText!Process, OneText!Digest, OneText!Failure, OneText!Time, OneText!Next

LEMMA OneTextPromises ==
  /\ OneTextP!TypeOK <=> OneText!TypeOK
  /\ OneTextP!DigestOnce <=> OneText!DigestOnce
  /\ OneTextP!TriesCapped <=> OneText!TriesCapped
  /\ OneTextP!ToldOnce <=> OneText!ToldOnce
  /\ OneTextP!NothingSilent <=> OneText!NothingSilent
  /\ OneTextP!DigestAfterBatch <=> OneText!DigestAfterBatch
BY DEF
  OneTextP!TextStatus, OneTextP!Terminal, OneTextP!DigestStatus, OneTextP!RowSteps,
  OneTextP!DigestSteps, OneTextP!Steps, OneTextP!OwesAlert, OneTextP!Mem, OneTextP!TypeOK,
  OneTextP!DigestOnce, OneTextP!TriesCapped, OneTextP!ToldOnce, OneTextP!NothingSilent,
  OneTextP!DigestAfterBatch, OneText!TextStatus, OneText!Terminal, OneText!DigestStatus,
  OneText!RowSteps, OneText!DigestSteps, OneText!Steps, OneText!OwesAlert, OneText!Mem,
  OneText!TypeOK, OneText!DigestOnce, OneText!TriesCapped, OneText!ToldOnce,
  OneText!NothingSilent, OneText!DigestAfterBatch

LEMMA TextBatchStarts == TextBatchP!Init <=> TextBatch!Init
BY DEF
  TextBatchP!NewText, TextBatchP!NoDigest, TextBatchP!AnyText, TextBatchP!NoMem,
  TextBatchP!Init, TextBatch!NewText, TextBatch!NoDigest, TextBatch!AnyText,
  TextBatch!NoMem, TextBatch!Init

LEMMA TextBatchSteps == TextBatchP!Next <=> TextBatch!Next
BY DEF
  TextBatchP!sent, TextBatchP!post, TextBatchP!lists, TextBatchP!Terminal,
  TextBatchP!RowSteps, TextBatchP!AnyText, TextBatchP!NoMem, TextBatchP!Fault,
  TextBatchP!At, TextBatchP!Goto, TextBatchP!Patch, TextBatchP!Row, TextBatchP!Plus,
  TextBatchP!HeldBy, TextBatchP!OwesAlert, TextBatchP!Memory, TextBatchP!TextDue,
  TextBatchP!TextStale, TextBatchP!DigestDue, TextBatchP!DigestStale, TextBatchP!Old,
  TextBatchP!Reap, TextBatchP!FinalAlert, TextBatchP!Scan, TextBatchP!Claimable,
  TextBatchP!Claimed, TextBatchP!Claim, TextBatchP!GiveUp, TextBatchP!Lose,
  TextBatchP!EndScan, TextBatchP!AfterTask, TextBatchP!Match, TextBatchP!Create,
  TextBatchP!GiveUpTask, TextBatchP!CreateRefused, TextBatchP!CreateUnanswered,
  TextBatchP!StampTask, TextBatchP!AlertedRecently, TextBatchP!GuardedAlert,
  TextBatchP!AfterAlert, TextBatchP!SkipAlert, TextBatchP!ToEmail, TextBatchP!Email,
  TextBatchP!AlertFailed, TextBatchP!EmailUnanswered, TextBatchP!EmailRefused,
  TextBatchP!StampEmail, TextBatchP!Close, TextBatchP!RequestFails, TextBatchP!Catch,
  TextBatchP!NextDigest, TextBatchP!ReapDigest, TextBatchP!BatchReady,
  TextBatchP!QueueDigest, TextBatchP!ScanDigest, TextBatchP!ReadDigest, TextBatchP!Backoff,
  TextBatchP!StillPending, TextBatchP!ReadDigestFails, TextBatchP!ClaimDigest,
  TextBatchP!Post, TextBatchP!PostUnclear, TextBatchP!PostRefused, TextBatchP!DigestClosed,
  TextBatchP!Crash, TextBatchP!Tick, TextBatchP!Process, TextBatchP!Digest,
  TextBatchP!Failure, TextBatchP!Time, TextBatchP!Next, TextBatch!sent, TextBatch!post,
  TextBatch!lists, TextBatch!Terminal, TextBatch!RowSteps, TextBatch!AnyText,
  TextBatch!NoMem, TextBatch!Fault, TextBatch!At, TextBatch!Goto, TextBatch!Patch,
  TextBatch!Row, TextBatch!Plus, TextBatch!HeldBy, TextBatch!OwesAlert, TextBatch!Memory,
  TextBatch!TextDue, TextBatch!TextStale, TextBatch!DigestDue, TextBatch!DigestStale,
  TextBatch!Old, TextBatch!Reap, TextBatch!FinalAlert, TextBatch!Scan, TextBatch!Claimable,
  TextBatch!Claimed, TextBatch!Claim, TextBatch!GiveUp, TextBatch!Lose, TextBatch!EndScan,
  TextBatch!AfterTask, TextBatch!Match, TextBatch!Create, TextBatch!GiveUpTask,
  TextBatch!CreateRefused, TextBatch!CreateUnanswered, TextBatch!StampTask,
  TextBatch!AlertedRecently, TextBatch!GuardedAlert, TextBatch!AfterAlert,
  TextBatch!SkipAlert, TextBatch!ToEmail, TextBatch!Email, TextBatch!AlertFailed,
  TextBatch!EmailUnanswered, TextBatch!EmailRefused, TextBatch!StampEmail, TextBatch!Close,
  TextBatch!RequestFails, TextBatch!Catch, TextBatch!NextDigest, TextBatch!ReapDigest,
  TextBatch!BatchReady, TextBatch!QueueDigest, TextBatch!ScanDigest, TextBatch!ReadDigest,
  TextBatch!Backoff, TextBatch!StillPending, TextBatch!ReadDigestFails,
  TextBatch!ClaimDigest, TextBatch!Post, TextBatch!PostUnclear, TextBatch!PostRefused,
  TextBatch!DigestClosed, TextBatch!Crash, TextBatch!Tick, TextBatch!Process,
  TextBatch!Digest, TextBatch!Failure, TextBatch!Time, TextBatch!Next

LEMMA TextBatchPromises ==
  /\ TextBatchP!TypeOK <=> TextBatch!TypeOK
  /\ TextBatchP!DigestOnce <=> TextBatch!DigestOnce
  /\ TextBatchP!TriesCapped <=> TextBatch!TriesCapped
  /\ TextBatchP!ToldOnce <=> TextBatch!ToldOnce
  /\ TextBatchP!NothingSilent <=> TextBatch!NothingSilent
  /\ TextBatchP!DigestAfterBatch <=> TextBatch!DigestAfterBatch
BY DEF
  TextBatchP!TextStatus, TextBatchP!Terminal, TextBatchP!DigestStatus, TextBatchP!RowSteps,
  TextBatchP!DigestSteps, TextBatchP!Steps, TextBatchP!OwesAlert, TextBatchP!Mem,
  TextBatchP!TypeOK, TextBatchP!DigestOnce, TextBatchP!TriesCapped, TextBatchP!ToldOnce,
  TextBatchP!NothingSilent, TextBatchP!DigestAfterBatch, TextBatch!TextStatus,
  TextBatch!Terminal, TextBatch!DigestStatus, TextBatch!RowSteps, TextBatch!DigestSteps,
  TextBatch!Steps, TextBatch!OwesAlert, TextBatch!Mem, TextBatch!TypeOK,
  TextBatch!DigestOnce, TextBatch!TriesCapped, TextBatch!ToldOnce, TextBatch!NothingSilent,
  TextBatch!DigestAfterBatch

LEMMA Assumed == CallsP!CallAssumption /\ OneTextP!TextAssumption /\ TextBatchP!TextAssumption
BY WorkersAssumption DEF Calls!CallAssumption, CallsP!CallAssumption, Calls!IsFiniteSet, CallsP!IsFiniteSet,
   OneText!TextAssumption, OneTextP!TextAssumption, TextBatch!TextAssumption, TextBatchP!TextAssumption

-----------------------------------------------------------------------------
(* A behaviour of the service is one of each worker.                       *)

LEMMA RolloversRun == WorkersSpec => Spec
<1>1. WorkersInit => Init
  BY DEF WorkersInit
<1>2. [WorkersNext]_allVars => [Next]_vars
  BY DEF WorkersNext, Rollover, Log, Text, InBatch, allVars
<1> QED
  BY <1>1, <1>2, PTL DEF WorkersSpec, Spec

LEMMA CallsRun == WorkersSpec => CallsP!Spec
<1>1. WorkersInit => CallsP!Init
  BY CallsStarts DEF WorkersInit
<1>2. [WorkersNext]_allVars => [CallsP!Next]_(CallsP!vars)
  BY CallsSteps DEF WorkersNext, Rollover, Log, Text, InBatch, allVars, CallVars, CallsP!vars
<1> QED
  BY <1>1, <1>2, PTL DEF WorkersSpec, CallsP!Spec

LEMMA TextsRun == WorkersSpec /\ "batch" \notin on => OneTextP!Spec /\ []("batch" \notin on)
<1>1. WorkersInit /\ "batch" \notin on => OneTextP!Init
  BY OneTextStarts DEF WorkersInit
<1>2. "batch" \notin on /\ [WorkersNext]_allVars => [OneTextP!Next]_(OneTextP!vars) /\ ("batch" \notin on)'
  BY OneTextSteps DEF WorkersNext, Rollover, Log, Text, InBatch, allVars, TextVars, OneTextP!vars
<1> QED
  BY <1>1, <1>2, PTL DEF WorkersSpec, OneTextP!Spec

LEMMA BatchRuns == WorkersSpec /\ "batch" \in on => TextBatchP!Spec /\ []("batch" \in on)
<1>1. WorkersInit /\ "batch" \in on => TextBatchP!Init
  BY TextBatchStarts DEF WorkersInit
<1>2. WorkersSpec => []("text" \notin on \/ "batch" \notin on)
  <2>1. WorkersInit => "text" \notin on \/ "batch" \notin on
    BY WorkersAssumption DEF WorkersInit
  <2>2. ("text" \notin on \/ "batch" \notin on) /\ [WorkersNext]_allVars => ("text" \notin on \/ "batch" \notin on)'
    BY DEF WorkersNext, Rollover, Log, Text, InBatch, allVars
  <2> QED
    BY <2>1, <2>2, PTL DEF WorkersSpec
<1>3. "batch" \in on /\ ("text" \notin on \/ "batch" \notin on) /\ [WorkersNext]_allVars
        => [TextBatchP!Next]_(TextBatchP!vars) /\ ("batch" \in on)'
  BY TextBatchSteps DEF WorkersNext, Rollover, Log, Text, InBatch, allVars, TextVars, TextBatchP!vars
<1> QED
  BY <1>1, <1>2, <1>3, PTL DEF WorkersSpec, TextBatchP!Spec

-----------------------------------------------------------------------------
(* What each promises alone, the service keeps.                            *)

\* Every table, memory and counter of the three workers has its type, in whatever
\* order their ticks, requests and callbacks interleave (server.ts:138-144).
THEOREM WorkersTyped == WorkersSpec => []WorkersTypeOK
<1>1. WorkersSpec => []TypeOK
  BY RolloversRun, TypeCorrect, PTL
<1>2. WorkersSpec => []Calls!TypeOK
  <2>1. CallsP!Spec => []CallsP!TypeOK
    BY Assumed, CallsP!TypeCorrect
  <2> QED
    BY <2>1, CallsRun, CallsPromises, PTL
<1>3. WorkersSpec /\ "batch" \notin on => [](OneText!TypeOK /\ "batch" \notin on)
  <2>1. OneTextP!Spec => []OneTextP!TypeOK
    BY Assumed, OneTextP!TypeCorrect
  <2> QED
    BY <2>1, TextsRun, OneTextPromises, PTL
<1>4. WorkersSpec /\ "batch" \in on => [](TextBatch!TypeOK /\ "batch" \in on)
  <2>1. TextBatchP!Spec => []TextBatchP!TypeOK
    BY Assumed, TextBatchP!TypeCorrect
  <2> QED
    BY <2>1, BatchRuns, TextBatchPromises, PTL
<1>5. TypeOK /\ Calls!TypeOK /\ OneText!TypeOK /\ "batch" \notin on => WorkersTypeOK
  BY DEF WorkersTypeOK
<1>6. TypeOK /\ Calls!TypeOK /\ TextBatch!TypeOK /\ "batch" \in on => WorkersTypeOK
  BY DEF WorkersTypeOK
<1>7. "batch" \in on \/ "batch" \notin on
  OBVIOUS
<1> QED
  BY <1>1, <1>2, <1>3, <1>4, <1>5, <1>6, <1>7, PTL

\* The rollover jobs keep their promises beside the call log and the texts: no
\* original is completed before its copy, a lone replica makes no second copy but for
\* one it never heard of, a success moved everything, and what is settled stays.
THEOREM RolloversKept ==
  WorkersSpec => []CoveredByCopy /\ []NoSecondCopyAlone /\ []MovedWhole /\ JobStaysSettled
BY RolloversRun, CoveredByCopyHolds, NoSecondCopyAloneHolds, MovedWholeHolds, JobStaysSettledHolds, PTL

\* A call is logged once beside the other workers, too: a lone replica makes a second
\* Task or post only for one whose id it never learnt.
THEOREM CallsLoggedOnce == WorkersSpec => []LoggedOnce
<1>1. CallsP!Spec => []CallsP!LoggedOnce
  BY Assumed, CallsP!LoggedOnceHolds
<1>2. CallsP!LoggedOnce => LoggedOnce
  BY CallsPromises DEF LoggedOnce
<1> QED
  BY <1>1, <1>2, CallsRun, PTL

\* A disposition written in no window, over no other, and whose PATCH happens is the
\* one on the Task.
THEOREM DispositionsReach == WorkersSpec => []DispositionReaches
<1>1. CallsP!Spec => []CallsP!DispositionReaches
  BY Assumed, CallsP!DispositionReachesHolds
<1>2. CallsP!DispositionReaches => DispositionReaches
  BY CallsPromises DEF DispositionReaches
<1> QED
  BY <1>1, <1>2, CallsRun, PTL

\* The digest email goes out at most once, for single texts and for a batch.
THEOREM DigestsOnce == WorkersSpec => []DigestOnce
<1>1. OneTextP!Spec => []OneTextP!DigestOnce
  BY Assumed, OneTextP!DigestOnceHolds
<1>2. TextBatchP!Spec => []TextBatchP!DigestOnce
  BY Assumed, TextBatchP!DigestOnceHolds
<1>3. OneTextP!DigestOnce /\ "batch" \notin on => DigestOnce
  BY OneTextPromises DEF DigestOnce
<1>4. TextBatchP!DigestOnce /\ "batch" \in on => DigestOnce
  BY TextBatchPromises DEF DigestOnce
<1>5. "batch" \in on \/ "batch" \notin on
  OBVIOUS
<1> QED
  BY <1>1, <1>2, <1>3, <1>4, <1>5, TextsRun, BatchRuns, PTL

\* A text costs at most MAX_TRIES creates, and gets one Task and one alert but for
\* what was lost or outlived its claim.
THEOREM TextsToldOnce == WorkersSpec => []TextToldOnce
<1>1. OneTextP!Spec => []OneTextP!TriesCapped
  BY Assumed, OneTextP!TriesCappedHolds
<1>2. OneTextP!Spec => []OneTextP!ToldOnce
  BY Assumed, OneTextP!ToldOnceHolds
<1>3. TextBatchP!Spec => []TextBatchP!TriesCapped
  BY Assumed, TextBatchP!TriesCappedHolds
<1>4. TextBatchP!Spec => []TextBatchP!ToldOnce
  BY Assumed, TextBatchP!ToldOnceHolds
<1>5. OneTextP!TriesCapped /\ OneTextP!ToldOnce /\ "batch" \notin on => TextToldOnce
  BY OneTextPromises DEF TextToldOnce
<1>6. TextBatchP!TriesCapped /\ TextBatchP!ToldOnce /\ "batch" \in on => TextToldOnce
  BY TextBatchPromises DEF TextToldOnce
<1>7. "batch" \in on \/ "batch" \notin on
  OBVIOUS
<1> QED
  BY <1>1, <1>2, <1>3, <1>4, <1>5, <1>6, <1>7, TextsRun, BatchRuns, PTL

\* No text is done untold, and no digest is queued while a text of its batch is
\* undecided, but for a claim that outlived its limit.
THEOREM TextsNeverSilent == WorkersSpec => []NothingSilent
<1>1. OneTextP!Spec => []OneTextP!NothingSilent
  BY Assumed, OneTextP!NothingSilentHolds
<1>2. OneTextP!Spec => []OneTextP!DigestAfterBatch
  BY Assumed, OneTextP!DigestAfterBatchHolds
<1>3. TextBatchP!Spec => []TextBatchP!NothingSilent
  BY Assumed, TextBatchP!NothingSilentHolds
<1>4. TextBatchP!Spec => []TextBatchP!DigestAfterBatch
  BY Assumed, TextBatchP!DigestAfterBatchHolds
<1>5. OneTextP!NothingSilent /\ OneTextP!DigestAfterBatch /\ "batch" \notin on => NothingSilent
  BY OneTextPromises DEF NothingSilent
<1>6. TextBatchP!NothingSilent /\ TextBatchP!DigestAfterBatch /\ "batch" \in on => NothingSilent
  BY TextBatchPromises DEF NothingSilent
<1>7. "batch" \in on \/ "batch" \notin on
  OBVIOUS
<1> QED
  BY <1>1, <1>2, <1>3, <1>4, <1>5, <1>6, <1>7, TextsRun, BatchRuns, PTL
=============================================================================
