----------------------------- MODULE MCGateway -----------------------------
(***************************************************************************)
(* Two processes, two people and one key; only anonymous readers are       *)
(* limited, to one request in a minute and in a day of two.  Accounts look *)
(* neither at the clock nor at what is counted, so their requests are      *)
(* explored at minute 0, beside readers that have not been counted yet.    *)
(***************************************************************************)
EXTENDS Gateway, TLC

AllBuckets == {"ip", "key", "auth"}
AnonymousLimits == [b \in AllBuckets |->
    IF b = "ip" THEN [m |-> 1, d |-> 1] ELSE [m |-> 0, d |-> 0]]

Uncounted == [slot \in Slots |-> 0]

AccountsAtZero ==
    clock > 0 \/ (\E s \in Stores : counts[s] # Uncounted) =>
        Registered = {} /\ \A r \in Requests : req[r] = None \/ req[r].route = "read"

Alike == Permutations(Processes) \cup Permutations(Requests) \cup Permutations(Emails)
=============================================================================
