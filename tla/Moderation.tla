------------------------------ MODULE Moderation ------------------------------
(***************************************************************************)
(* What a ban promises to the readers of the application: whoever is       *)
(* banned from before a page is asked for until it is served is not on it. *)
(* A user who is banned or whose ban is lifted meanwhile may be.           *)
(***************************************************************************)
CONSTANTS Readers, Users

VARIABLES
    banned,     \* who is banned
    reader      \* each reader, with the users banned all the time it has
                \* waited and, once served, the users on its page

vars == <<banned, reader>>

Reader == [state : {"away", "waiting", "served"},
           hidden : SUBSET Users,
           seen : SUBSET Users]

Away == [state |-> "away", hidden |-> {}, seen |-> {}]

TypeOK ==
    /\ banned \subseteq Users
    /\ reader \in [Readers -> Reader]

Init ==
    /\ banned \in SUBSET Users
    /\ reader = [r \in Readers |-> Away]

Ask(r) ==
    /\ reader[r] = Away
    /\ reader' = [reader EXCEPT ![r] = [state |-> "waiting",
                                        hidden |-> banned, seen |-> {}]]
    /\ UNCHANGED banned

Ban(users) ==
    /\ banned' = banned \cup users
    /\ UNCHANGED reader

Lift(users) ==
    /\ banned' = banned \ users
    /\ reader' = [r \in Readers |-> [reader[r] EXCEPT !.hidden = @ \ users]]

Serve(r, users) ==
    /\ reader[r].state = "waiting"
    /\ users \cap reader[r].hidden = {}
    /\ reader' = [reader EXCEPT ![r].state = "served", ![r].seen = users]
    /\ UNCHANGED banned

Leave(r) ==
    /\ reader[r].state = "served"
    /\ reader' = [reader EXCEPT ![r] = Away]
    /\ UNCHANGED banned

Next ==
    \/ \E users \in SUBSET Users : Ban(users) \/ Lift(users)
    \/ \E r \in Readers : \/ Ask(r) \/ Leave(r)
                          \/ \E users \in SUBSET Users : Serve(r, users)

Spec == Init /\ [][Next]_vars
=============================================================================
