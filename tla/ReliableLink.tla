---------------------------- MODULE ReliableLink ----------------------------
(***************************************************************************)
(* What one direction of a PerfectLink promises the manager of the process *)
(* it leads to, whatever is sent, acknowledged, lost and forgotten on the  *)
(* way: a message that was handed to Send reaches the manager, once if the *)
(* build is PERFECT_LINKS_STRONG and at least once otherwise.  This is     *)
(* what the broadcast layers assume of their links.                        *)
(***************************************************************************)
EXTENDS Naturals

CONSTANTS
  MaxSeq,   \* bound: how many messages are ever sent on the link
  Strong    \* is PERFECT_LINKS_STRONG defined?

VARIABLES
  accepted, \* the messages 1..accepted were handed to Send
  given     \* given[s]: how often the manager was notified of s (2 = more)

vars == <<accepted, given>>

Seqs == 1..MaxSeq

Init ==
  /\ accepted = 0
  /\ given = [s \in Seqs |-> 0]

Accept ==
  /\ accepted < MaxSeq
  /\ accepted' = accepted + 1
  /\ UNCHANGED given

\* The messages come in any order.
HandOver(s) ==
  /\ s <= accepted
  /\ given[s] = 0
  /\ given' = [given EXCEPT ![s] = 1]
  /\ UNCHANGED accepted

HandOverAgain(s) ==
  /\ ~Strong
  /\ given[s] = 1
  /\ given' = [given EXCEPT ![s] = 2]
  /\ UNCHANGED accepted

Next == \/ Accept
        \/ \E s \in Seqs : HandOver(s) \/ HandOverAgain(s)

\* No message is left behind.
Delivers == \A s \in Seqs : s <= accepted ~> given[s] > 0

Spec == Init /\ [][Next]_vars

FairSpec == Spec /\ Delivers
=============================================================================
