------------------------------ MODULE Gateway ------------------------------
(***************************************************************************)
(* AuthRateLimitMiddleware before the handlers: a request is               *)
(* authenticated, then checked against the limit of the minute and against *)
(* that of the day, and only then handed to its route.  The middleware     *)
(* calls the database from the event loop, so a process has one request in *)
(* it at a time; handlers run beside it.                                   *)
(***************************************************************************)
EXTENDS RateLimit, Accounts

CONSTANT MaxRequests  \* bound on the number of requests

ASSUME GatewayAssumption == {"ip", "key", "auth"} \subseteq Buckets /\ MaxRequests \in Nat

VARIABLE asked  \* requests so far

vars == <<databaseVars, limitVars, accountVars, asked>>

Init == DatabaseInit /\ LimitInit /\ AccountInit /\ asked = 0
-----------------------------------------------------------------------------
InMiddleware(r) == req[r] # None /\ req[r].stage \in Middleware
Checked(r) == req[r] # None /\ req[r].stage \in {"minute", "day"}

Arrive(r, p, route, cred, who, key) ==
    /\ asked < MaxRequests /\ asked' = asked + 1
    /\ ~\E q \in Requests : InMiddleware(q) /\ req[q].proc = p
    /\ (who # None) = (route \in {"register", "login"})
    /\ who # None => cred = None
    /\ CASE route = "create_key" -> key # None /\ api_keys[key] = None
                                   /\ ~\E q \in Requests : req[q] # None /\ req[q].key = key
         [] route = "revoke_key" -> key # None /\ api_keys[key] # None
         [] OTHER -> key = None
    /\ req' = [req EXCEPT ![r] = [stage |-> "auth", route |-> route, proc |-> p, cred |-> cred,
                                  who |-> who, key |-> key, now |-> 0, flag |-> FALSE]]
    /\ UNCHANGED <<users, api_keys, sessions, ran, raced, databaseVars, limitVars>>

Bucket(r) ==
    IF req[r].route \in {"register", "login"} THEN "auth"
    ELSE IF req[r].who # None THEN "key" ELSE "ip"

\* Where its route takes over a request.
Entry(route) ==
    CASE route = "register" -> "exists"
      [] route = "login" -> "login"
      [] OTHER -> "current"

\* A handler refuses at once who must be known and is not; a read ends here.
Ends(r) == req[r].who = None \/ req[r].route = "read"

\* The minute's check, the day's, then call_next.
CheckMinute(r) ==
    /\ At(r, "minute")
    /\ \E ok \in BOOLEAN :
        /\ CheckRateLimit(req[r].proc, SlotOf(Bucket(r), "m", req[r].now), req[r].now, ok)
        /\ IF ok THEN req' = [req EXCEPT ![r].stage = "day", ![r].now = clock] ELSE Answer(r)
    /\ UNCHANGED <<users, api_keys, sessions, ran, raced, asked>>

CheckDay(r) ==
    /\ At(r, "day")
    /\ \E ok \in BOOLEAN :
        /\ CheckRateLimit(req[r].proc, SlotOf(Bucket(r), "d", req[r].now), req[r].now, ok)
        /\ IF ok /\ ~Ends(r) THEN Goto(r, Entry(req[r].route)) ELSE Answer(r)
    /\ UNCHANGED <<users, api_keys, sessions, ran, raced, asked>>

Serve(r) ==
    \/ Authenticate(r, clock) /\ UNCHANGED <<limitVars, asked>>
    \/ CheckMinute(r) \/ CheckDay(r)
    \/ Handle(r) /\ UNCHANGED <<limitVars, asked>>

Next ==
    \/ \E r \in {q \in Requests : req[q] = None}, p \in Processes, route \in Routes, who \in {None} \cup Emails,
          key \in {None} \cup Keys, cred \in {None} \cup sessions \cup {k \in Keys : api_keys[k] # None} :
            Arrive(r, p, route, cred, who, key)
    \/ \E r \in Requests : Serve(r)
    \/ /\ Tick(\A r \in Requests : Checked(r) => req[r].now = clock)
       /\ UNCHANGED <<accountVars, asked>>
    \/ \E p \in Processes : Cool(p) /\ UNCHANGED <<limitVars, accountVars, asked>>
    \/ \E e \in Emails : Disable(e) /\ UNCHANGED <<limitVars, asked>>

Spec == Init /\ [][Next]_vars

GatewayTypeOK == LimitTypeOK /\ AccountTypeOK /\ cooling \subseteq Processes /\ asked \in 0..MaxRequests
=============================================================================
