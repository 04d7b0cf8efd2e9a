----------------------------- MODULE AuthTokens -----------------------------
(***************************************************************************)
(* Accounts, logins and the requests that need one: auth_service behind    *)
(* the gateway's middleware.  A login copies the role of the account into  *)
(* a signed token; afterwards nobody looks at the table again, so a token  *)
(* speaks for a role until it expires.                                     *)
(*   auth_service/internal/service/service.go   Register, Login,           *)
(*                                              ValidateToken              *)
(*   auth_service/internal/store/store.go       the users table            *)
(*   gateway/internal/handler/http_handler.go   the middleware, handlers   *)
(*   scripts/create-admin.sh                    UPDATE users SET role      *)
(* Time passes in ticks.  The statement that reads the role and the        *)
(* signature, and the validation and the operation, are separate steps, at *)
(* most MaxDelay ticks apart.                                              *)
(***************************************************************************)
EXTENDS Faults, Integers

CONSTANTS
    Names,      \* usernames
    Passwords,
    Length,     \* Length[p]: bytes of password p
    Clients,    \* each makes one request after the other
    TTL,        \* ticks a token is valid for, 15 minutes in app.go
    MaxDelay,   \* bound: ticks a request may take
    NoAccount, NoToken, NoRequest

MinPassword == 6    \* validate:"min=6,max=100"
MaxPassword == 100
BcryptMax   == 72   \* bcrypt.GenerateFromPassword fails above

ASSUME AuthConstants ==
    /\ Length \in [Passwords -> Nat]
    /\ NoAccount \notin [password : Passwords, role : {"user", "admin"}]
    /\ TTL \in Nat \ {0}
    /\ MaxDelay \in Nat

VARIABLES
    account,   \* the users table: password and role of a name, or NoAccount
    pc,        \* what a client's request does next, see Steps
    req,       \* what the handler of the request holds: the name, the password
               \* of a registration or a login, the role that was read
    token,     \* the client's last token: name, role, ticks left
    waited,    \* ticks since the step before
    sinceAdmin,  \* history: ticks since the account of a name was an admin's
    joined     \* history: name and password of the registrations answered 201

Roles == {"user", "admin"}
Steps == {"idle", "hash", "insert", "select", "sign",
          "validate", "authorize", "admin", "user"}

\* Longer than any admin operation may come after the role was lost.
Horizon == TTL + 3 * MaxDelay

historyVars == <<sinceAdmin, joined>>
vars == <<account, pc, req, token, waited, historyVars, faults>>

IsAdmin(n) == account[n] # NoAccount /\ account[n].role = "admin"

Init ==
    /\ account = [n \in Names |-> NoAccount]
    /\ pc = [c \in Clients |-> "idle"]
    /\ req = [c \in Clients |-> NoRequest]
    /\ token = [c \in Clients |-> NoToken]
    /\ waited = [c \in Clients |-> 0]
    /\ sinceAdmin = [n \in Names |-> Horizon]
    /\ joined = {}
    /\ FaultsInit
-----------------------------------------------------------------------------
Goto(c, step) ==
    /\ pc' = [pc EXCEPT ![c] = step]
    /\ waited' = [waited EXCEPT ![c] = 0]

\* The response is written; nothing of the request stays.
Respond(c) ==
    /\ Goto(c, "idle")
    /\ req' = [req EXCEPT ![c] = NoRequest]

\* The handler holds a user, or the claims of a token, without a password.
Holds(c, n, r) == req' = [req EXCEPT ![c] = [name |-> n, role |-> r]]

\* A client picks what it sends; the name and the password are its own to choose.
Send(c, step) ==
    /\ pc[c] = "idle"
    /\ \E n \in Names, p \in Passwords :
          req' = [req EXCEPT ![c] = [name |-> n, password |-> p]]
    /\ Goto(c, step)
    /\ UNCHANGED <<account, token, historyVars, faults>>

Valid(p) == Length[p] \in MinPassword .. MaxPassword
-----------------------------------------------------------------------------
(* POST /auth/register *)

StartRegister(c) == Send(c, "hash")

\* handleRegister: the payload does not pass the validator.
RegisterInvalid(c) ==
    /\ pc[c] = "hash" /\ ~ Valid(req[c].password)
    /\ Respond(c)
    /\ UNCHANGED <<account, token, historyVars, faults>>

\* Register: GenerateFromPassword.
HashPassword(c) ==
    /\ pc[c] = "hash" /\ Valid(req[c].password)
    /\ Length[req[c].password] <= BcryptMax
    /\ Goto(c, "insert")
    /\ UNCHANGED <<account, req, token, historyVars, faults>>

HashFailed(c) ==
    /\ pc[c] = "hash" /\ Valid(req[c].password)
    /\ Length[req[c].password] > BcryptMax
    /\ Respond(c)
    /\ UNCHANGED <<account, token, historyVars, faults>>

\* The table with a row for this registration: the role is "user" whatever
\* was sent.
WithUser(c) ==
    [account EXCEPT ![req[c].name] = [password |-> req[c].password, role |-> "user"]]

\* Mutant of CreateUser: ON CONFLICT (username) DO UPDATE.
UpsertUser(c) ==
    /\ pc[c] = "insert"
    /\ account' = WithUser(c)
    /\ joined' = joined \cup {<<req[c].name, req[c].password>>}
    /\ Respond(c)
    /\ UNCHANGED <<token, sinceAdmin, faults>>

\* INSERT INTO users.
CreateUser(c) ==
    /\ pc[c] = "insert"
    /\ account[req[c].name] = NoAccount
    /\ account' = WithUser(c)
    /\ joined' = joined \cup {<<req[c].name, req[c].password>>}
    /\ Respond(c)
    /\ UNCHANGED <<token, sinceAdmin, faults>>

\* The name is taken: UNIQUE (username).
CreateUserConflict(c) ==
    /\ pc[c] = "insert"
    /\ account[req[c].name] # NoAccount
    /\ Respond(c)
    /\ UNCHANGED <<account, token, historyVars, faults>>

\* The database reports an error, before or after it stored the row.
CreateUserFailed(c) ==
    /\ pc[c] = "insert"
    /\ Fails("auth_error")
    /\ \/ UNCHANGED account
       \/ /\ account[req[c].name] = NoAccount
          /\ account' = WithUser(c)
    /\ Respond(c)
    /\ UNCHANGED <<token, historyVars>>
-----------------------------------------------------------------------------
(* POST /auth/login *)

StartLogin(c) == Send(c, "select")

\* GetUserByUsername and CompareHashAndPassword succeed.
Matches(c) ==
    account[req[c].name] # NoAccount /\ account[req[c].name].password = req[c].password

GetUser(c) ==
    /\ pc[c] = "select"
    /\ Matches(c)
    /\ Holds(c, req[c].name, account[req[c].name].role)
    /\ Goto(c, "sign")
    /\ UNCHANGED <<account, token, historyVars, faults>>

\* No such user, another password, or the database reports an error.
GetUserFailed(c) ==
    /\ pc[c] = "select"
    /\ \/ Matches(c) = FALSE /\ UNCHANGED faults
       \/ Fails("auth_error")
    /\ Respond(c)
    /\ UNCHANGED <<account, token, historyVars>>

\* Mutant of SignToken: a TTL in other units.
SignForEver(c) ==
    /\ pc[c] = "sign"
    /\ token' = [token EXCEPT ![c] =
                    [name |-> req[c].name, role |-> req[c].role, left |-> Horizon]]
    /\ Respond(c)
    /\ UNCHANGED <<account, historyVars, faults>>

\* The claims carry the role that was read; ExpiresAt counts from now.
SignToken(c) ==
    /\ pc[c] = "sign"
    /\ token' = [token EXCEPT ![c] =
                    [name |-> req[c].name, role |-> req[c].role, left |-> TTL]]
    /\ Respond(c)
    /\ UNCHANGED <<account, historyVars, faults>>
-----------------------------------------------------------------------------
(* A request with a token *)

\* The name is the token's, the client does not send one.
StartRequest(c) ==
    /\ pc[c] = "idle"
    /\ Goto(c, "validate")
    /\ UNCHANGED <<account, req, token, historyVars, faults>>

Expired(c) == token[c] = NoToken \/ token[c].left = 0

\* AuthMiddleware without a usable header, ValidateToken of a token that has
\* expired, or a call to auth_service that fails.
Unauthorized(c) ==
    /\ pc[c] = "validate"
    /\ \/ Expired(c) = TRUE /\ UNCHANGED faults
       \/ Fails("auth_error")
    /\ Respond(c)
    /\ UNCHANGED <<account, token, historyVars>>

\* Mutant of ValidateToken: the expiry is not looked at.
ValidateAnyToken(c) ==
    /\ pc[c] = "validate" /\ token[c] # NoToken
    /\ Holds(c, token[c].name, token[c].role)
    /\ Goto(c, "authorize")
    /\ UNCHANGED <<account, token, historyVars, faults>>

\* A token that is valid returns its claims; the comparison of the role with
\* the table comes after that return, for tokens that are not valid.
ValidateToken(c) ==
    /\ pc[c] = "validate" /\ ~ Expired(c)
    /\ Holds(c, token[c].name, token[c].role)
    /\ Goto(c, "authorize")
    /\ UNCHANGED <<account, token, historyVars, faults>>

\* The routes of the inner group: AdminOnlyMiddleware lets the request pass.
AdminOnly(c) ==
    /\ pc[c] = "authorize"
    /\ req[c].role = "admin"
    /\ Goto(c, "admin")
    /\ UNCHANGED <<account, req, token, historyVars, faults>>

Forbidden(c) ==
    /\ pc[c] = "authorize"
    /\ req[c].role # "admin"
    /\ Respond(c)
    /\ UNCHANGED <<account, token, historyVars, faults>>

\* The routes under /submissions are for every valid token.
AnyUser(c) ==
    /\ pc[c] = "authorize"
    /\ Goto(c, "user")
    /\ UNCHANGED <<account, req, token, historyVars, faults>>

\* The handler behind the middleware makes its call, which succeeds or fails.
Perform(c) ==
    /\ pc[c] \in {"admin", "user"}
    /\ Respond(c)
    /\ UNCHANGED <<account, token, historyVars, faults>>
-----------------------------------------------------------------------------
(* The operator and the clock *)

\* create-admin.sh: the UPDATE and the SELECT that checks it.
ApplyAdminRole(n) ==
    /\ account[n] # NoAccount /\ ~ IsAdmin(n)
    /\ Fails("promotion")
    /\ account' = [account EXCEPT ![n].role = "admin"]
    /\ sinceAdmin' = [sinceAdmin EXCEPT ![n] = 0]
    /\ UNCHANGED <<pc, req, token, waited, joined>>

\* An UPDATE by hand takes the role away again.
RevokeAdminRole(n) ==
    /\ IsAdmin(n)
    /\ Fails("revocation")
    /\ account' = [account EXCEPT ![n].role = "user"]
    /\ UNCHANGED <<pc, req, token, waited, historyVars>>

\* A tick.  No request is longer than MaxDelay in one of its steps.
Tick ==
    /\ \A c \in Clients : pc[c] # "idle" => waited[c] < MaxDelay
    /\ token' = [c \in Clients |->
           IF Expired(c) THEN token[c] ELSE [token[c] EXCEPT !.left = @ - 1]]
    /\ waited' = [c \in Clients |-> IF pc[c] = "idle" THEN 0 ELSE waited[c] + 1]
    /\ sinceAdmin' = [n \in Names |->
           IF IsAdmin(n) THEN 0
           ELSE IF sinceAdmin[n] = Horizon THEN Horizon ELSE sinceAdmin[n] + 1]
    /\ UNCHANGED <<account, pc, req, joined, faults>>
-----------------------------------------------------------------------------
RegisterStep(c) ==
    \/ RegisterInvalid(c) \/ HashPassword(c) \/ HashFailed(c)
    \/ CreateUser(c) \/ CreateUserConflict(c)
LoginStep(c)    == GetUser(c) \/ GetUserFailed(c) \/ SignToken(c)
RequestStep(c)  ==
    \/ Unauthorized(c) \/ ValidateToken(c)
    \/ AdminOnly(c) \/ Forbidden(c) \/ AnyUser(c) \/ Perform(c)

ServerStep(c) == RegisterStep(c) \/ LoginStep(c) \/ RequestStep(c)

Next ==
    \/ \E c \in Clients :
          \/ StartRegister(c) \/ StartLogin(c) \/ StartRequest(c)
          \/ ServerStep(c) \/ CreateUserFailed(c)
    \/ \E n \in Names : ApplyAdminRole(n) \/ RevokeAdminRole(n)
    \/ Tick

\* Handlers run on and the clock does; what clients send is up to them.
Spec == Init /\ [][Next]_vars /\ WF_vars(Tick) /\ \A c \in Clients : WF_vars(ServerStep(c))
-----------------------------------------------------------------------------
(* Properties *)

Tokens == [name : Names, role : Roles, left : 0 .. TTL]

\* Every variable has its type.
TypeOK ==
    /\ account \in [Names -> [password : Passwords, role : Roles] \cup {NoAccount}]
    /\ pc \in [Clients -> Steps]
    /\ req \in [Clients -> [name : Names, password : Passwords]
                         \cup [name : Names, role : Roles] \cup {NoRequest}]
    /\ token \in [Clients -> Tokens \cup {NoToken}]
    /\ waited \in [Clients -> 0 .. MaxDelay]
    /\ sinceAdmin \in [Names -> 0 .. Horizon]
    /\ joined \subseteq Names \X Passwords
    /\ FaultsType

(* An admin operation is only carried out for a name that was an admin's   *)
(* less than a token's life and three delays ago, those between the SELECT *)
(* of the role and the signature, the validation and the check of the      *)
(* role, and that check and the call: no copy of the role (row, claims,    *)
(* context) outlives that.                                                 *)
StaleRoleBounded ==
    \A c \in Clients : pc[c] = "admin" => sinceAdmin[req[c].name] < Horizon

(* Of several registrations of a name, one is answered with 201, and it is *)
(* the one whose password is in the table, whoever wins the race.          *)
OneOwner ==
    \A r \in joined : account[r[1]] # NoAccount /\ account[r[1]].password = r[2]

(* Once a name is no longer an admin's for good, its admin operations end, *)
(* although no step of the code ends a token.                              *)
RevocationTakesEffect ==
    \A n \in Names :
        <>[](~ IsAdmin(n)) =>
            <>[](\A c \in Clients : ~ (pc[c] = "admin" /\ req[c].name = n))

(* "user role has changed" (service.go, ValidateToken): a token is not     *)
(* accepted with a role that the account does not have.                    *)
RoleIsCurrent ==
    [][\A c \in Clients :
          pc[c] = "validate" /\ pc'[c] = "authorize" =>
              account[token[c].name].role = req'[c].role]_vars

=============================================================================
