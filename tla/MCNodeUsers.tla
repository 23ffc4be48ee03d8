----------------------------- MODULE MCNodeUsers -----------------------------
(***************************************************************************)
(* Small instances of NodeUsers in which MaxSent requests are sent; u1 is  *)
(* the seeded administrator n1, and u2 a user n2, seeded or new.           *)
(***************************************************************************)
EXTENDS NodeUsers, Naturals, TLC

CONSTANTS MaxSent, n1, n2, u1, u2

VARIABLE sent       \* the number of requests sent so far, at most MaxSent

OneSeedName == u1 :> n1
TwoSeedNames == u1 :> n1 @@ u2 :> n2

MCInit == Init /\ sent = 0
MCClient == sent < MaxSent /\ Client /\ sent' = sent + 1
MCServer == Server /\ UNCHANGED sent
MCNext == MCClient \/ MCServer
MCSpec == MCInit /\ [][MCNext]_<<vars, sent>>

Symmetry == Permutations(Reqs)
=============================================================================
