----------------------------- MODULE KeyedCalls -----------------------------
(***************************************************************************)
(* What cti-api promises outreach-api about AI calls, with pacers,         *)
(* handlers, leases and lost answers left out.  A key is asked for, gets   *)
(* at most one call in the book, and is answered.  Only a key not yet      *)
(* answered rings, once; the answer stays, and one that says the call was  *)
(* placed names a call entered since the key was first asked for.          *)
(***************************************************************************)
EXTENDS Naturals, Sequences

CONSTANTS Keys, Reasons  \* what an answer may say

VARIABLES
  answer,  \* per key "none", "open", or what was answered
  named,   \* per key the call the answer names, or 0
  asked,   \* per key how many calls the book had when it was asked for
  book     \* the calls in the order entered: the key and how often it rang

keyed == <<answer, named, asked, book>>

KInit ==
  /\ answer = [k \in Keys |-> "none"]
  /\ named = [k \in Keys |-> 0] /\ asked = [k \in Keys |-> 0]
  /\ book = <<>>

Ask(k) ==
  /\ answer[k] = "none" /\ answer' = [answer EXCEPT ![k] = "open"]
  /\ asked' = [asked EXCEPT ![k] = Len(book)]
  /\ UNCHANGED <<named, book>>

\* The call of a key, or the row of one that was blocked.
Enter(k) ==
  /\ answer[k] = "open" /\ \A i \in DOMAIN book : book[i].key # k
  /\ book' = Append(book, [key |-> k, rings |-> 0])
  /\ UNCHANGED <<answer, named, asked>>

Ring(i) ==
  /\ answer[book[i].key] = "open" /\ book[i].rings = 0
  /\ book' = [book EXCEPT ![i].rings = 1]
  /\ UNCHANGED <<answer, named, asked>>

Tell(k, reason, i) ==
  /\ answer[k] = "open" /\ answer' = [answer EXCEPT ![k] = reason]
  /\ reason = "placed" => i > asked[k]
  /\ named' = [named EXCEPT ![k] = i]
  /\ UNCHANGED <<asked, book>>

KNext ==
  \/ \E k \in Keys : Ask(k) \/ Enter(k)
  \/ \E i \in DOMAIN book : Ring(i)
  \/ \E k \in Keys, reason \in Reasons, i \in 0 .. Len(book) : Tell(k, reason, i)

KSpec == KInit /\ [][KNext]_keyed
=============================================================================
