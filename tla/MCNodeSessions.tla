--------------------------- MODULE MCNodeSessions ---------------------------
(***************************************************************************)
(* Small instances of NodeSessions in which MaxSent requests are sent.     *)
(***************************************************************************)
EXTENDS NodeSessions, Naturals, TLC

CONSTANTS MaxSent

VARIABLE sent       \* the number of requests sent so far, at most MaxSent

MCInit == Init /\ sent = 0
MCClient == sent < MaxSent /\ Client /\ sent' = sent + 1
MCServer == Server /\ UNCHANGED sent
MCNext == MCClient \/ MCServer
MCSpec == MCInit /\ [][MCNext]_<<vars, sent>>

Symmetry == Permutations(Users) \cup Permutations(Sids)
            \cup Permutations(Tokens) \cup Permutations(Reqs)
=============================================================================
