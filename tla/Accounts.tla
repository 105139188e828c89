------------------------------ MODULE Accounts ------------------------------
(***************************************************************************)
(* Users, API keys and sessions in Postgres, and the handlers of           *)
(* auth_routes.py and of the job routes that use them.  Handlers run in    *)
(* threads, and each call of auth.py is a transaction of its own: an       *)
(* action here.  A request enters at "auth" (see Gateway) and is handled   *)
(* once it has been let through.                                           *)
(*                                                                         *)
(* Data abstracted: an email stands for its user and for the sessions      *)
(* signed for them, a key for its digest.  AUTH_REQUIRED is off,           *)
(* ALLOW_REGISTRATION is on, the database is configured.                   *)
(***************************************************************************)
EXTENDS AccountDatabase

CONSTANTS Requests, Emails, Keys, None

Routes == {"register", "login", "read", "create_key", "revoke_key", "job"}
Middleware == {"auth", "minute", "day"}
Handling == {"exists", "count", "create", "login", "current", "admins",
             "create_key", "revoke_key"}

User == [admin : BOOLEAN, active : BOOLEAN]
Key == [user : Emails, active : BOOLEAN]
Request == [stage : Middleware \cup Handling, route : Routes, proc : Processes,
            cred : {None} \cup Emails \cup Keys,  \* none, a session, an API key
            who : {None} \cup Emails,             \* user named or authenticated
            key : {None} \cup Keys,               \* to create or to revoke
            now : Nat,                            \* stamp of a rate limit check
            flag : BOOLEAN]                       \* existing, then is_first

ASSUME AccountAssumption == None \notin User \cup Key \cup Request \cup Emails \cup Keys

VARIABLES
  users,     \* table users, by email
  api_keys,  \* table api_keys
  sessions,  \* users with a signed token
  req,       \* the request each slot serves
  ran,       \* history: users for whom a job was run
  raced      \* history: two registrations counted before either inserted

accountVars == <<users, api_keys, sessions, req, ran, raced>>

AccountInit ==
    /\ users = [e \in Emails |-> None]
    /\ api_keys = [k \in Keys |-> None]
    /\ sessions = {}
    /\ req = [r \in Requests |-> None]
    /\ ran = {}
    /\ raced = FALSE

Registered == {e \in Emails : users[e] # None}
Admins == {e \in Registered : users[e].admin}
Active(e) == e \in Registered /\ users[e].active

At(r, stage) == req[r] # None /\ req[r].stage = stage
Goto(r, stage) == req' = [req EXCEPT ![r].stage = stage]
Answer(r) == req' = [req EXCEPT ![r] = None]
-----------------------------------------------------------------------------
(* Credentials, in the middleware                                          *)

\* The user of a key or of a session, if both stand.
Principal(cred) ==
    IF cred \in Keys
    THEN IF api_keys[cred] # None /\ api_keys[cred].active /\ Active(api_keys[cred].user)
         THEN api_keys[cred].user ELSE None
    ELSE IF cred \in sessions /\ Active(cred) THEN cred ELSE None

\* Routes the middleware lets through without a principal; key routes refuse later.
Open(route) == route # "job"

\* resolve_api_key, or decode_token and get_user_by_id.
Authenticate(r, now) ==
    /\ At(r, "auth")
    /\ LET cred == req[r].cred IN
       \/ /\ cred = None /\ Open(req[r].route)
          /\ req' = [req EXCEPT ![r].stage = "minute", ![r].now = now]
       \/ /\ cred # None /\ Principal(cred) # None
          /\ req[r].proc \notin cooling
          /\ req' = [req EXCEPT ![r].stage = "minute", ![r].now = now,
                                ![r].who = Principal(cred)]
       \/ /\ \/ cred = None /\ ~Open(req[r].route)
             \/ cred # None /\ Principal(cred) = None /\ req[r].proc \notin cooling
             \/ cred \in Emails  \* the token has expired
          /\ Answer(r)
    /\ UNCHANGED <<users, api_keys, sessions, ran, raced, databaseVars>>
-----------------------------------------------------------------------------
(* Handlers                                                                *)

\* A transaction of a handler's begins: the breaker is closed.
Asks(r, stage) == At(r, stage) /\ req[r].proc \notin cooling

\* register: get_user_by_email, count_users, then create_user.
LookForUser(r) ==
    /\ Asks(r, "exists")
    /\ req' = [req EXCEPT ![r].stage = "count", ![r].flag = req[r].who \in Registered]
    /\ UNCHANGED <<users, api_keys, sessions, ran, raced, databaseVars>>

\* Mutant: users who are disabled are not counted.
CountActive(r) ==
    /\ Asks(r, "count")
    /\ IF req[r].flag
       THEN Answer(r) /\ raced' = raced
       ELSE /\ req' = [req EXCEPT ![r].stage = "create", ![r].flag = ~\E e \in Emails : Active(e)]
            /\ raced' = (raced \/ \E q \in Requests : At(q, "create"))
    /\ UNCHANGED <<users, api_keys, sessions, ran, databaseVars>>

CountUsers(r) ==
    /\ Asks(r, "count")
    /\ IF req[r].flag
       THEN Answer(r) /\ raced' = raced
       ELSE /\ req' = [req EXCEPT ![r].stage = "create", ![r].flag = (Registered = {})]
            /\ raced' = (raced \/ \E q \in Requests : At(q, "create"))
    /\ UNCHANGED <<users, api_keys, sessions, ran, databaseVars>>

\* Mutant: is_admin is not passed on.
WithPlainUser(r) ==
    IF req[r].who \in Registered THEN users
    ELSE [users EXCEPT ![req[r].who] = [admin |-> FALSE, active |-> TRUE]]

\* email is UNIQUE: the row of another registration stands.
WithUser(r) ==
    IF req[r].who \in Registered THEN users
    ELSE [users EXCEPT ![req[r].who] = [admin |-> req[r].flag, active |-> TRUE]]

CreateUser(r) ==
    /\ Asks(r, "create")
    /\ users' = WithUser(r)
    /\ sessions' = IF req[r].who \in Registered THEN sessions ELSE sessions \cup {req[r].who}
    /\ Answer(r)
    /\ UNCHANGED <<api_keys, ran, raced, databaseVars>>

\* A wrong password, no such user and a disabled one are all refused.
Login(r) ==
    /\ Asks(r, "login")
    /\ \E granted \in {{}} \cup {{e} : e \in {req[r].who} \cap Registered} :
        sessions' = sessions \cup {e \in granted : Active(e)}
    /\ Answer(r)
    /\ UNCHANGED <<users, api_keys, ran, raced, databaseVars>>

\* current_user, and the first half of require_admin.
CurrentUser(r) ==
    LET who == req[r].who IN
    /\ Asks(r, "current")
    /\ IF ~Active(who) THEN Answer(r) /\ ran' = ran
       ELSE IF req[r].route # "job" THEN Goto(r, req[r].route) /\ ran' = ran
       ELSE IF users[who].admin THEN Answer(r) /\ ran' = ran \cup {who}
       ELSE Goto(r, "admins") /\ ran' = ran
    /\ UNCHANGED <<users, api_keys, sessions, raced, databaseVars>>

\* Any user may run a job while there is no active administrator.
CountAdmins(r) ==
    /\ Asks(r, "admins")
    /\ ran' = IF \E e \in Admins : users[e].active THEN ran ELSE ran \cup {req[r].who}
    /\ Answer(r)
    /\ UNCHANGED <<users, api_keys, sessions, raced, databaseVars>>

WithKey(r) == [api_keys EXCEPT ![req[r].key] = [user |-> req[r].who, active |-> TRUE]]

CreateKey(r) ==
    /\ Asks(r, "create_key")
    /\ api_keys' = WithKey(r)
    /\ Answer(r)
    /\ UNCHANGED <<users, sessions, ran, raced, databaseVars>>

\* UPDATE ... WHERE id AND user_id AND is_active
WithoutKey(r) ==
    LET k == req[r].key IN
    IF api_keys[k] = [user |-> req[r].who, active |-> TRUE]
    THEN [api_keys EXCEPT ![k].active = FALSE] ELSE api_keys

RevokeKey(r) ==
    /\ Asks(r, "revoke_key")
    /\ api_keys' = WithoutKey(r)
    /\ Answer(r)
    /\ UNCHANGED <<users, sessions, ran, raced, databaseVars>>
-----------------------------------------------------------------------------
(* Failures                                                                *)

NeedsDatabase(r) ==
    req[r] # None /\ (req[r].stage \in Handling \/ (req[r].stage = "auth" /\ req[r].cred # None))

\* 503 without asking, while the breaker is open.
Unavailable(r) ==
    /\ NeedsDatabase(r) /\ req[r].proc \in cooling
    /\ Answer(r)
    /\ UNCHANGED <<users, api_keys, sessions, ran, raced, databaseVars>>

\* The database fails under a request, before the transaction or after it:
\* what it wrote may stand though the client is told 503.
DatabaseFails(r) ==
    /\ NeedsDatabase(r)
    /\ Failure(req[r].proc)
    /\ users' \in {users} \cup {WithUser(s) : s \in {s \in {r} : At(s, "create")}}
    /\ api_keys' \in {api_keys} \cup {WithKey(s) : s \in {s \in {r} : At(s, "create_key")}}
                                \cup {WithoutKey(s) : s \in {s \in {r} : At(s, "revoke_key")}}
    /\ Answer(r)
    /\ UNCHANGED <<sessions, ran, raced>>

\* External: an operator disables a user in the database.
Disable(e) ==
    /\ Active(e)
    /\ users' = [users EXCEPT ![e].active = FALSE]
    /\ UNCHANGED <<api_keys, sessions, req, ran, raced, databaseVars>>

Handle(r) ==
    \/ LookForUser(r) \/ CountUsers(r) \/ CreateUser(r) \/ Login(r)
    \/ CurrentUser(r) \/ CountAdmins(r) \/ CreateKey(r) \/ RevokeKey(r)
    \/ Unavailable(r) \/ DatabaseFails(r)
-----------------------------------------------------------------------------
(* Properties                                                              *)

AccountTypeOK ==
    /\ users \in [Emails -> {None} \cup User]
    /\ api_keys \in [Keys -> {None} \cup Key]
    /\ sessions \subseteq Registered
    /\ req \in [Requests -> {None} \cup Request]
    /\ ran \subseteq Registered
    /\ raced \in BOOLEAN

(* The first account, and only it, is an administrator, unless two         *)
(* registrations had both counted before either inserted its row.          *)
OneAdmin == Registered # {} => Admins # {} /\ (Cardinality(Admins) > 1 => raced)

(* The bootstrap clause of require_admin never lets an ordinary user run a *)
(* job, unless an operator has disabled somebody.                          *)
OnlyAdminsRunJobs == (\A e \in Registered : users[e].active) => ran \subseteq Admins
=============================================================================
