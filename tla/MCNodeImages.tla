---------------------------- MODULE MCNodeImages ----------------------------
(***************************************************************************)
(* Small instances of NodeImages in which MaxSent requests are sent.       *)
(***************************************************************************)
EXTENDS NodeImages, TLC

CONSTANTS MaxSent, jpg

VARIABLE sent       \* the number of requests sent so far, at most MaxSent

\* The seed's image is a jpg.
MCInit ==
    /\ Init
    /\ sent = 0
    /\ \A i \in Seed : posts[i].ext = jpg
MCClient == sent < MaxSent /\ Client /\ sent' = sent + 1
MCServer == Server /\ UNCHANGED sent
MCNext == MCClient \/ MCServer
MCSpec == MCInit /\ [][MCNext]_<<vars, sent>>

Symmetry == Permutations(Imgs) \cup Permutations(Ids \ Seed) \cup Permutations(Reqs)
=============================================================================
