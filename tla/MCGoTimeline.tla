---------------------------- MODULE MCGoTimeline ----------------------------
(***************************************************************************)
(* Small instances of GoTimeline: at most MaxSent requests are sent, and   *)
(* the clock stops at MaxNow.  The seed has a user u1 with a post p1 and,  *)
(* where it is in Cids, a comment c1 on it.                                *)
(***************************************************************************)
EXTENDS GoTimeline, TLC

CONSTANTS MaxSent, MaxNow, u1, p1, c1

VARIABLE sent       \* the number of requests sent so far

OneSeedPost == p1 :> [author |-> u1, at |-> 0]
OneSeedComment == c1 :> [post |-> p1, author |-> u1, at |-> 0]
NoSeedComment == <<>>

MCInit == Init /\ sent = 0
MCClient == sent < MaxSent /\ Client /\ sent' = sent + 1
MCServer == Server /\ UNCHANGED sent
MCTick == now < MaxNow /\ sent < MaxSent /\ Tick /\ UNCHANGED sent
MCNext == MCClient \/ MCServer \/ MCTick
MCSpec == MCInit /\ [][MCNext]_<<vars, sent>>

Symmetry == Permutations(Reqs)
=============================================================================
