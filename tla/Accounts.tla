------------------------------ MODULE Accounts ------------------------------
(***************************************************************************)
(* The users table and the tokens of the backend, as the browser meets     *)
(* them: POST /auth/register in its three database calls, the verdict of   *)
(* POST /auth/login, GET /system/status and the bearer check in front of   *)
(* the admin routes.  No route changes or deletes a user.                  *)
(***************************************************************************)
EXTENDS FiniteSets

CONSTANTS
  Name,     \* user names; each comes with an e-mail address of its own
  Tab,      \* browser tabs
  Slot,     \* bound: forms of a tab that are being submitted at once
  Elsewhere,\* bound: registrations sent by anybody else at once
  Browser,  \* local storages
  BrowserOf,\* [Tab -> Browser]
  Faults,   \* which may fail: database calls of the login and registration ("db"),
            \* their requests on the way ("net"), the requests of the admin
            \* pages ("list"), the status check ("check")
  NoName

ASSUME AccountsAssumption ==
  /\ NoName \notin Name /\ (Tab \X Slot) \cap Elsewhere = {}
  /\ BrowserOf \in [Tab -> Browser]
  /\ Faults \subseteq {"db", "net", "list", "check"}

VARIABLES
  users,    \* [Name -> Role]: the table; "none" where there is no row
  call      \* [Client -> CallState]: the registrations being served

Client == (Tab \X Slot) \cup Elsewhere

Role == {"none", "guest", "admin"}

CallState == [pc : {"idle", "look", "count", "create", "ok", "refused"},
              name : Name \cup {NoName}, role : Role]

NoCall == [pc |-> "idle", name |-> NoName, role |-> "none"]

SetupRequired == \A n \in Name : users[n] = "none"

\* What a JWT is to AuthMiddleware: signature and expiry decide, the table is
\* not asked.  "none" is a request without one.
Token == {"none", "valid", "over"}

Accepted(k) == k = "valid"

\* The password is compared with the hash of the row; NoName is the name of
\* credentials that match none.
Authenticates(n) == n \in Name /\ users[n] # "none"

-----------------------------------------------------------------------------
(* Register *)

\* The request arrives.
PostRegister(t, n) ==
  /\ call[t].pc = "idle"
  /\ call' = [call EXCEPT ![t] = [pc |-> "look", name |-> n, role |-> "none"]]

Refuse(t) == call' = [call EXCEPT ![t].pc = "refused"]

\* GetByUsername; hashing the password takes its time afterwards.
LookUser(t) ==
  /\ call[t].pc = "look"
  /\ \/ users[call[t].name] = "none" /\ call' = [call EXCEPT ![t].pc = "count"]
     \/ users[call[t].name] # "none" /\ Refuse(t)
     \/ "db" \in Faults /\ Refuse(t)
  /\ UNCHANGED users

\* Variant: the first user gets the default role too.
CountUsersGuest(t) ==
  /\ call[t].pc = "count"
  /\ call' = [call EXCEPT ![t].pc = "create", ![t].role = "guest"]
  /\ UNCHANGED users

\* The first user is admin, everybody else a guest.
CountUsers(t) ==
  /\ call[t].pc = "count"
  /\ \/ call' = [call EXCEPT ![t].pc = "create",
                             ![t].role = IF SetupRequired THEN "admin" ELSE "guest"]
     \/ "db" \in Faults /\ Refuse(t)
  /\ UNCHANGED users

\* Variant: the role is left to a default the column does not have.
CreateUserNoRole(t) ==
  /\ call[t].pc = "create"
  /\ users[call[t].name] = "none"
  /\ users' = [users EXCEPT ![call[t].name] = ""]
  /\ call' = [call EXCEPT ![t].pc = "ok"]

\* The unique index decides between two requests that found the name free.
CreateUser(t) ==
  /\ call[t].pc = "create"
  /\ \/ /\ users[call[t].name] = "none"
        /\ users' = [users EXCEPT ![call[t].name] = call[t].role]
        /\ call' = [call EXCEPT ![t].pc = "ok"]
     \/ /\ users[call[t].name] # "none" \/ "db" \in Faults
        /\ Refuse(t)
        /\ UNCHANGED users

RegisterStep(t) == LookUser(t) \/ CountUsers(t) \/ CreateUser(t)

\* The answer reaches nobody who waits for it.
ForgetCall(t) ==
  /\ call[t].pc \in {"ok", "refused"}
  /\ call' = [call EXCEPT ![t] = NoCall]
  /\ UNCHANGED users
=============================================================================
