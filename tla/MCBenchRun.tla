------------------------------ MODULE MCBenchRun -----------------------------
(***************************************************************************)
(* Small instances of BenchRun: MaxLoad bounds the scenarios started and   *)
(* the images, pages and comments beyond those every scenario has, and     *)
(* MaxFails the requests that fail.                                        *)
(***************************************************************************)
EXTENDS BenchRun, TLC

CONSTANTS MaxLoad, MaxFails

VARIABLE load

MCInit == Init /\ load = 0
MCLoad == load < MaxLoad /\ Load /\ load' = load + 1
MCUnload == Unload /\ fails' <= MaxFails /\ UNCHANGED load
MCExited == Exited /\ UNCHANGED load
MCNext == MCLoad \/ MCUnload \/ MCExited

mcvars == <<vars, load>>

MCSpec == MCInit /\ [][MCNext]_mcvars
MCFairSpec ==
    /\ MCSpec
    /\ WF_mcvars(InitializeAnswers /\ UNCHANGED load)
    /\ WF_mcvars(MainStep /\ UNCHANGED load)
    /\ WF_mcvars(Play(Main) /\ UNCHANGED load)
    /\ SF_mcvars(Enough(Main) /\ UNCHANGED load)

Symmetry == Permutations(Workers)
=============================================================================
