-------------------------- MODULE AuthTokens_proofs --------------------------
(***************************************************************************)
(* Safety of accounts and tokens for any number of names, clients and      *)
(* passwords and any life of a token.  A role is copied from the table to  *)
(* a request, a token and a request again; the invariant says of each copy *)
(* how long ago the account had that role at most.                         *)
(***************************************************************************)
EXTENDS AuthTokens, TLAPS

Accounts    == [password : Passwords, role : Roles]
Credentials == [name : Names, password : Passwords]
Claims      == [name : Names, role : Roles]

\* What a request holds at each of its steps, and how old a role "admin" is.
HoldsWhat(c) ==
    /\ pc[c] \in {"hash", "insert", "select"} => req[c] \in Credentials
    /\ pc[c] \in {"sign", "authorize", "admin", "user"} => req[c] \in Claims

\* The role "admin" of a copy of the claims r is at most age ticks old.
YoungerThan(r, age) == r.role = "admin" => sinceAdmin[r.name] <= age

RequestAge(c) ==
    /\ pc[c] = "sign" => YoungerThan(req[c], waited[c])
    /\ pc[c] = "authorize" => YoungerThan(req[c], TTL - 1 + MaxDelay + waited[c])
    /\ pc[c] = "admin" =>
          req[c].role = "admin" /\ YoungerThan(req[c], TTL - 1 + 2 * MaxDelay + waited[c])

RequestInv ==
    /\ pc \in [Clients -> Steps]
    /\ req \in [Clients -> Credentials \cup Claims \cup {NoRequest}]
    /\ waited \in [Clients -> 0 .. MaxDelay]
    /\ \A c \in Clients : HoldsWhat(c) /\ RequestAge(c)

TokenAge(c) ==
    token[c] # NoToken /\ token[c].left > 0 =>
        YoungerThan(token[c], TTL - token[c].left + MaxDelay)

TokenInv ==
    /\ token \in [Clients -> Tokens \cup {NoToken}]
    /\ \A c \in Clients : TokenAge(c)

AccountInv ==
    /\ account \in [Names -> Accounts \cup {NoAccount}]
    /\ sinceAdmin \in [Names -> 0 .. Horizon]
    /\ joined \subseteq Names \X Passwords
    /\ \A n \in Names : IsAdmin(n) => sinceAdmin[n] = 0
    /\ OneOwner

Inv == RequestInv /\ TokenInv /\ AccountInv /\ FaultsType
-----------------------------------------------------------------------------
LEMMA FaultStep ==
  ASSUME NEW kind, FaultsType, Fails(kind)
  PROVE  FaultsType'
  BY FaultBudget DEF FaultsType, Fails

LEMMA HorizonType ==
  /\ TTL \in Nat /\ TTL > 0 /\ MaxDelay \in Nat
  /\ Horizon \in Nat /\ Horizon = TTL + 3 * MaxDelay
  BY AuthConstants DEF Horizon

LEMMA Initially == Init => Inv
  <1> SUFFICES ASSUME Init PROVE Inv
    OBVIOUS
  <1>1. FaultsType
    BY FaultBudget DEF Init, FaultsInit, FaultsType
  <1>2. RequestInv
    BY HorizonType DEF Init, RequestInv, Steps, HoldsWhat, RequestAge
  <1>3. TokenInv
    BY DEF Init, TokenInv, TokenAge
  <1>4. AccountInv
    BY HorizonType DEF Init, AccountInv, IsAdmin, OneOwner
  <1> QED BY <1>1, <1>2, <1>3, <1>4 DEF Inv

\* A request goes to step s, where it holds q.
LEMMA RequestMoves ==
  ASSUME RequestInv, NEW c \in Clients, NEW s \in Steps,
         NEW q \in Credentials \cup Claims \cup {NoRequest},
         Goto(c, s), req' = [req EXCEPT ![c] = q], UNCHANGED sinceAdmin,
         s \in {"hash", "insert", "select"} => q \in Credentials,
         s \in {"sign", "authorize", "admin", "user"} => q \in Claims,
         s = "sign" => YoungerThan(q, 0),
         s = "authorize" => YoungerThan(q, TTL - 1 + MaxDelay),
         s = "admin" => q.role = "admin" /\ YoungerThan(q, TTL - 1 + 2 * MaxDelay)
  PROVE  RequestInv'
  <1>1. /\ pc' \in [Clients -> Steps]
        /\ req' \in [Clients -> Credentials \cup Claims \cup {NoRequest}]
        /\ waited' \in [Clients -> 0 .. MaxDelay]
    BY HorizonType DEF RequestInv, Goto
  <1>2. pc'[c] = s /\ req'[c] = q /\ waited'[c] = 0
    BY DEF RequestInv, Goto
  <1>3. HoldsWhat(c)'
    BY <1>2 DEF HoldsWhat
  <1>4. RequestAge(c)'
    BY <1>2, HorizonType DEF RequestAge, YoungerThan
  <1>5. ASSUME NEW d \in Clients, d # c
        PROVE  HoldsWhat(d)' /\ RequestAge(d)'
    <2>1. pc'[d] = pc[d] /\ req'[d] = req[d] /\ waited'[d] = waited[d]
      BY <1>5 DEF RequestInv, Goto
    <2> QED BY <2>1 DEF RequestInv, HoldsWhat, RequestAge, YoungerThan
  <1> QED BY <1>1, <1>3, <1>4, <1>5 DEF RequestInv

LEMMA RequestEnds ==
  ASSUME RequestInv, NEW c \in Clients, Respond(c), UNCHANGED sinceAdmin
  PROVE  RequestInv'
  BY RequestMoves DEF Respond, Steps

\* A request goes on with what it holds.
LEMMA RequestGoesOn ==
  ASSUME RequestInv, NEW c \in Clients, NEW s \in Steps, Goto(c, s), UNCHANGED <<req, sinceAdmin>>,
         s \in {"hash", "insert", "select"} => req[c] \in Credentials,
         s \in {"sign", "authorize", "admin", "user"} => req[c] \in Claims,
         s = "sign" => YoungerThan(req[c], 0),
         s = "authorize" => YoungerThan(req[c], TTL - 1 + MaxDelay),
         s = "admin" => req[c].role = "admin" /\ YoungerThan(req[c], TTL - 1 + 2 * MaxDelay)
  PROVE  RequestInv'
  <1>1. req' = [req EXCEPT ![c] = req[c]]
    BY DEF RequestInv
  <1>2. req[c] \in Credentials \cup Claims \cup {NoRequest}
    BY DEF RequestInv
  <1> QED BY <1>1, <1>2, RequestMoves

LEMMA TokensKept ==
  ASSUME TokenInv, UNCHANGED <<token, sinceAdmin>>
  PROVE  TokenInv'
  BY DEF TokenInv, TokenAge, YoungerThan

LEMMA AccountsKept ==
  ASSUME AccountInv, UNCHANGED <<account, historyVars>>
  PROVE  AccountInv'
  BY DEF AccountInv, historyVars, IsAdmin, OneOwner
-----------------------------------------------------------------------------
\* What each kind of step does to the three parts of the invariant.

LEMMA RegisterSteps ==
  ASSUME Inv, NEW c \in Clients, RegisterStep(c) \/ CreateUserFailed(c)
  PROVE  Inv'
  <1> USE DEF Inv
  <1>1. CASE RegisterInvalid(c) \/ HashFailed(c) \/ CreateUserConflict(c)
    <2>1. Respond(c) /\ UNCHANGED <<account, token, historyVars, faults>>
      BY <1>1 DEF RegisterInvalid, HashFailed, CreateUserConflict
    <2> QED BY <2>1, RequestEnds, TokensKept, AccountsKept DEF historyVars, FaultsType
  <1>2. CASE HashPassword(c)
    <2>1. req[c] \in Credentials
      BY <1>2 DEF HashPassword, RequestInv, HoldsWhat
    <2>2. RequestInv'
      BY <1>2, <2>1, RequestGoesOn DEF HashPassword, historyVars, Steps
    <2> QED BY <1>2, <2>2, TokensKept, AccountsKept DEF HashPassword, historyVars, FaultsType
  <1>3. CASE CreateUser(c) \/ CreateUserFailed(c)
    <2>1. req[c] \in Credentials
      BY <1>3 DEF CreateUser, CreateUserFailed, RequestInv, HoldsWhat
    <2>2. Respond(c) /\ UNCHANGED <<token, sinceAdmin>>
      BY <1>3 DEF CreateUser, CreateUserFailed, historyVars
    <2>3. RequestInv' /\ TokenInv'
      BY <2>2, RequestEnds, TokensKept
    <2>4. FaultsType'
      BY <1>3, FaultStep DEF CreateUser, CreateUserFailed, FaultsType
    <2>5. CASE UNCHANGED <<account, joined>>
      BY <2>2, <2>3, <2>4, <2>5, AccountsKept DEF historyVars
    <2>6. CASE account[req[c].name] = NoAccount /\ account' = WithUser(c)
      <3> DEFINE name == req[c].name  row == [password |-> req[c].password, role |-> "user"]
      <3>1. name \in Names /\ row \in Accounts /\ row # NoAccount
        BY <2>1, AuthConstants DEF Credentials, Accounts, Roles
      <3>2. account' = [account EXCEPT ![name] = row]
        BY <2>6 DEF WithUser
      <3>3. account' \in [Names -> Accounts \cup {NoAccount}]
        BY <3>1, <3>2 DEF AccountInv
      <3>4. account'[name] = row /\ \A n \in Names \ {name} : account'[n] = account[n]
        BY <3>1, <3>2 DEF AccountInv
      <3>5. \A n \in Names : IsAdmin(n)' => sinceAdmin'[n] = 0
        BY <2>2, <3>4 DEF AccountInv, IsAdmin
      <3>6. joined' \in {joined, joined \cup {<<name, req[c].password>>}}
        BY <1>3 DEF CreateUser, CreateUserFailed, historyVars
      <3>7. joined' \subseteq Names \X Passwords
        BY <2>1, <3>6 DEF AccountInv, Credentials
      <3>8. OneOwner'
        <4> SUFFICES ASSUME NEW r \in joined'
                     PROVE  account'[r[1]] # NoAccount /\ account'[r[1]].password = r[2]
          BY DEF OneOwner
        <4>1. CASE r \in joined
          <5>1. account[r[1]] # NoAccount /\ account[r[1]].password = r[2] /\ r[1] \in Names
            BY <4>1 DEF AccountInv, OneOwner
          <5> QED BY <2>6, <3>4, <5>1
        <4>2. CASE r = <<name, req[c].password>>
          BY <3>1, <3>4, <4>2
        <4> QED BY <3>6, <4>1, <4>2
      <3>9. AccountInv'
        BY <2>2, <3>3, <3>5, <3>7, <3>8 DEF AccountInv
      <3> QED BY <2>3, <2>4, <3>9
    <2> QED BY <1>3, <2>5, <2>6 DEF CreateUser, CreateUserFailed, historyVars
  <1> QED BY <1>1, <1>2, <1>3 DEF RegisterStep

LEMMA LoginSteps ==
  ASSUME Inv, NEW c \in Clients, LoginStep(c)
  PROVE  Inv'
  <1> USE DEF Inv
  <1>1. CASE GetUser(c)
    <2> DEFINE q == [name |-> req[c].name, role |-> account[req[c].name].role]
    <2>1. req[c] \in Credentials
      BY <1>1 DEF GetUser, RequestInv, HoldsWhat
    <2>2. account[req[c].name] \in Accounts /\ account[req[c].name] # NoAccount
      BY <1>1, <2>1 DEF GetUser, Matches, AccountInv, Credentials
    <2>3. q \in Claims
      BY <2>1, <2>2 DEF Claims, Accounts, Credentials
    <2>4. YoungerThan(q, 0)
      BY <2>1, <2>2 DEF AccountInv, IsAdmin, YoungerThan, Credentials
    <2>5. /\ Goto(c, "sign") /\ req' = [req EXCEPT ![c] = q]
          /\ UNCHANGED <<account, token, historyVars, faults>>
      BY <1>1 DEF GetUser, Holds
    <2>6. RequestInv'
      BY <2>3, <2>4, <2>5, RequestMoves DEF Steps, historyVars
    <2> QED BY <2>5, <2>6, TokensKept, AccountsKept DEF historyVars, FaultsType
  <1>2. CASE GetUserFailed(c)
    <2>1. Respond(c) /\ UNCHANGED <<account, token, historyVars>>
      BY <1>2 DEF GetUserFailed
    <2>2. FaultsType'
      BY <1>2, FaultStep DEF GetUserFailed, FaultsType
    <2> QED BY <2>1, <2>2, RequestEnds, TokensKept, AccountsKept DEF historyVars
  <1>3. CASE SignToken(c)
    <2> DEFINE t == [name |-> req[c].name, role |-> req[c].role, left |-> TTL]
    <2>1. req[c] \in Claims /\ YoungerThan(req[c], waited[c]) /\ waited[c] \in 0 .. MaxDelay
      BY <1>3 DEF SignToken, RequestInv, HoldsWhat, RequestAge
    <2>2. t \in Tokens
      BY <2>1, HorizonType DEF Claims, Tokens
    <2>3. /\ token' = [token EXCEPT ![c] = t] /\ Respond(c)
          /\ UNCHANGED <<account, historyVars, faults>>
      BY <1>3 DEF SignToken
    <2>4. token'[c] = t /\ \A d \in Clients \ {c} : token'[d] = token[d]
      BY <2>3 DEF TokenInv
    <2>5. TokenAge(c)'
      <3>1. t.role = "admin" => sinceAdmin[t.name] <= waited[c] /\ sinceAdmin[t.name] \in Nat
        BY <2>1 DEF YoungerThan, AccountInv, Claims
      <3> QED BY <2>1, <2>3, <2>4, <3>1, HorizonType DEF TokenAge, YoungerThan, historyVars
    <2>6. ASSUME NEW d \in Clients, d # c
          PROVE  TokenAge(d)'
      BY <2>3, <2>4, <2>6 DEF TokenInv, TokenAge, YoungerThan, historyVars
    <2>7. TokenInv'
      BY <2>2, <2>3, <2>5, <2>6 DEF TokenInv
    <2> QED BY <2>3, <2>7, RequestEnds, AccountsKept DEF historyVars, FaultsType
  <1> QED BY <1>1, <1>2, <1>3 DEF LoginStep

LEMMA RequestSteps ==
  ASSUME Inv, NEW c \in Clients, RequestStep(c)
  PROVE  Inv'
  <1> USE DEF Inv
  <1>1. UNCHANGED <<account, token, historyVars>>
    BY DEF RequestStep, Unauthorized, ValidateToken, AdminOnly, Forbidden, AnyUser, Perform
  <1>2. FaultsType'
    BY FaultStep DEF RequestStep, Unauthorized, ValidateToken, AdminOnly, Forbidden, AnyUser,
       Perform, FaultsType
  <1>3. RequestInv'
    <2>1. CASE Unauthorized(c) \/ Forbidden(c) \/ Perform(c)
      BY <1>1, <2>1, RequestEnds DEF Unauthorized, Forbidden, Perform, historyVars
    <2>2. CASE ValidateToken(c)
      <3> DEFINE q == [name |-> token[c].name, role |-> token[c].role]
      <3>1. token[c] \in Tokens /\ token[c].left \in 1 .. TTL /\ token[c] # NoToken
        BY <2>2, HorizonType DEF ValidateToken, Expired, TokenInv, Tokens
      <3>2. q \in Claims
        BY <3>1 DEF Claims, Tokens
      <3>3. YoungerThan(token[c], TTL - token[c].left + MaxDelay)
        BY <3>1 DEF TokenInv, TokenAge
      <3>4. sinceAdmin[q.name] \in Nat
        BY <3>2 DEF AccountInv, Claims
      <3>5. YoungerThan(q, TTL - 1 + MaxDelay)
        BY <3>1, <3>3, <3>4, HorizonType DEF YoungerThan
      <3>6. Goto(c, "authorize") /\ req' = [req EXCEPT ![c] = q]
        BY <2>2 DEF ValidateToken, Holds
      <3> QED BY <1>1, <3>2, <3>5, <3>6, RequestMoves DEF Steps, historyVars
    <2>3. CASE AdminOnly(c)
      <3>1. req[c] \in Claims /\ waited[c] \in 0 .. MaxDelay
            /\ YoungerThan(req[c], TTL - 1 + MaxDelay + waited[c]) /\ req[c].role = "admin"
        BY <2>3 DEF AdminOnly, RequestInv, HoldsWhat, RequestAge
      <3>2. sinceAdmin[req[c].name] \in Nat
        BY <3>1 DEF AccountInv, Claims
      <3>3. YoungerThan(req[c], TTL - 1 + 2 * MaxDelay)
        BY <3>1, <3>2, HorizonType DEF YoungerThan
      <3> QED BY <1>1, <2>3, <3>1, <3>3, RequestGoesOn DEF AdminOnly, Steps, historyVars
    <2>4. CASE AnyUser(c)
      <3>1. req[c] \in Claims
        BY <2>4 DEF AnyUser, RequestInv, HoldsWhat
      <3> QED BY <1>1, <2>4, <3>1, RequestGoesOn DEF AnyUser, Steps, historyVars
    <2> QED BY <2>1, <2>2, <2>3, <2>4 DEF RequestStep
  <1> QED BY <1>1, <1>2, <1>3, TokensKept, AccountsKept DEF historyVars

LEMMA StartSteps ==
  ASSUME Inv, NEW c \in Clients, StartRegister(c) \/ StartLogin(c) \/ StartRequest(c)
  PROVE  Inv'
  <1> USE DEF Inv
  <1>1. UNCHANGED <<account, token, historyVars, faults>>
    BY DEF StartRegister, StartLogin, StartRequest, Send
  <1>2. RequestInv'
    <2>1. ASSUME NEW s \in {"hash", "select"}, Send(c, s)
          PROVE  RequestInv'
      <3>1. PICK q \in Credentials : req' = [req EXCEPT ![c] = q]
        BY <2>1 DEF Send, Credentials
      <3> QED BY <1>1, <2>1, <3>1, RequestMoves DEF Send, Steps, historyVars
    <2>2. CASE StartRequest(c)
      BY <1>1, <2>2, RequestGoesOn DEF StartRequest, Steps, historyVars
    <2> QED BY <2>1, <2>2 DEF StartRegister, StartLogin
  <1> QED BY <1>1, <1>2, TokensKept, AccountsKept DEF historyVars, FaultsType

\* A role is given or taken away: no copy gets older by it.
LEMMA RoleSteps ==
  ASSUME Inv, NEW n \in Names, ApplyAdminRole(n) \/ RevokeAdminRole(n)
  PROVE  Inv'
  <1> USE DEF Inv
  <1> DEFINE r == IF ApplyAdminRole(n) THEN "admin" ELSE "user"
  <1>1. account[n] \in Accounts /\ account[n] # NoAccount
    BY DEF ApplyAdminRole, RevokeAdminRole, IsAdmin, AccountInv
  <1>2. UNCHANGED <<pc, req, token, waited, joined>> /\ FaultsType'
    BY FaultStep DEF ApplyAdminRole, RevokeAdminRole, historyVars
  <1>3. \/ sinceAdmin' = [sinceAdmin EXCEPT ![n] = 0] /\ account' = [account EXCEPT ![n].role = "admin"]
        \/ sinceAdmin' = sinceAdmin /\ account' = [account EXCEPT ![n].role = "user"]
    BY DEF ApplyAdminRole, RevokeAdminRole, historyVars
  <1>4. /\ sinceAdmin' \in [Names -> 0 .. Horizon]
        /\ \A m \in Names : sinceAdmin'[m] <= sinceAdmin[m]
    BY <1>3, HorizonType DEF AccountInv
  <1>5. account' \in [Names -> Accounts \cup {NoAccount}]
    BY <1>1, <1>3 DEF AccountInv, Accounts, Roles
  <1>6. \A m \in Names : IsAdmin(m)' => sinceAdmin'[m] = 0
    BY <1>1, <1>3 DEF AccountInv, IsAdmin, Accounts
  <1>7. /\ account'[n] \in Accounts /\ account'[n] # NoAccount
        /\ account'[n].password = account[n].password
        /\ \A m \in Names \ {n} : account'[m] = account[m]
    <2>1. account'[n] \in Accounts /\ account'[n].password = account[n].password
      BY <1>1, <1>3 DEF AccountInv, Accounts, Roles
    <2>2. account'[n] # NoAccount
      BY <2>1, AuthConstants DEF Accounts, Roles
    <2>3. \A m \in Names \ {n} : account'[m] = account[m]
      BY <1>3 DEF AccountInv
    <2> QED BY <2>1, <2>2, <2>3
  <1>8. OneOwner'
    <2> SUFFICES ASSUME NEW j \in joined
                 PROVE  account'[j[1]] # NoAccount /\ account'[j[1]].password = j[2]
      BY <1>2 DEF OneOwner
    <2>1. account[j[1]] # NoAccount /\ account[j[1]].password = j[2] /\ j[1] \in Names
      BY DEF AccountInv, OneOwner
    <2> QED BY <1>7, <2>1
  <1>9. AccountInv'
    BY <1>2, <1>4, <1>5, <1>6, <1>8 DEF AccountInv
  <1>10. ASSUME NEW q \in Claims, NEW age \in Nat, YoungerThan(q, age)
         PROVE  q.role = "admin" => sinceAdmin'[q.name] <= age
    BY <1>4, <1>10 DEF YoungerThan, Claims, AccountInv
  <1>11. RequestInv'
    <2>1. ASSUME NEW c \in Clients
          PROVE  HoldsWhat(c)' /\ RequestAge(c)'
      <3>1. HoldsWhat(c) /\ RequestAge(c) /\ waited[c] \in Nat
        BY DEF RequestInv
      <3>2. HoldsWhat(c)'
        BY <1>2, <3>1 DEF HoldsWhat
      <3>3. RequestAge(c)'
        BY <1>2, <1>10, <3>1, HorizonType DEF HoldsWhat, RequestAge, YoungerThan
      <3> QED BY <3>2, <3>3
    <2> QED BY <1>2, <2>1 DEF RequestInv
  <1>12. TokenInv'
    <2>1. ASSUME NEW c \in Clients, token[c] # NoToken, token[c].left > 0, token[c].role = "admin"
          PROVE  sinceAdmin'[token[c].name] <= TTL - token[c].left + MaxDelay
      <3>1. token[c].name \in Names /\ token[c].left \in 0 .. TTL
        BY <2>1 DEF TokenInv, Tokens
      <3>2. sinceAdmin[token[c].name] <= TTL - token[c].left + MaxDelay
        BY <2>1 DEF TokenInv, TokenAge, YoungerThan
      <3> QED BY <1>4, <3>1, <3>2, HorizonType DEF AccountInv
    <2> QED BY <1>2, <2>1 DEF TokenInv, TokenAge, YoungerThan
  <1> QED BY <1>2, <1>9, <1>11, <1>12

\* A tick makes every copy at most one tick older, and counts it.
LEMMA TickStep ==
  ASSUME Inv, Tick
  PROVE  Inv'
  <1> USE DEF Inv
  <1>1. UNCHANGED <<account, pc, req, joined, faults>>
    BY DEF Tick
  <1>2. /\ sinceAdmin' \in [Names -> 0 .. Horizon]
        /\ \A n \in Names : sinceAdmin'[n] <= sinceAdmin[n] + 1
        /\ \A n \in Names : IsAdmin(n) => sinceAdmin'[n] = 0
    BY HorizonType DEF Tick, AccountInv
  <1>3. /\ waited' \in [Clients -> 0 .. MaxDelay]
        /\ \A c \in Clients : pc[c] # "idle" => waited'[c] = waited[c] + 1
    BY HorizonType DEF Tick, RequestInv
  <1>4. AccountInv'
    BY <1>1, <1>2 DEF AccountInv, IsAdmin, OneOwner
  <1>5. ASSUME NEW q \in Claims, NEW age \in Int, YoungerThan(q, age)
        PROVE  q.role = "admin" => sinceAdmin'[q.name] <= age + 1
    BY <1>2, <1>5 DEF YoungerThan, Claims, AccountInv
  <1>6. RequestInv'
    <2>1. ASSUME NEW c \in Clients
          PROVE  HoldsWhat(c)' /\ RequestAge(c)'
      <3>1. HoldsWhat(c) /\ RequestAge(c) /\ waited[c] \in Nat
        BY DEF RequestInv
      <3>2. HoldsWhat(c)'
        BY <1>1, <3>1 DEF HoldsWhat
      <3>3. RequestAge(c)'
        BY <1>1, <1>3, <1>5, <3>1, HorizonType DEF HoldsWhat, RequestAge, YoungerThan
      <3> QED BY <3>2, <3>3
    <2> QED BY <1>1, <1>3, <2>1 DEF RequestInv
  <1>7. TokenInv'
    <2>1. ASSUME NEW c \in Clients
          PROVE  token'[c] \in Tokens \cup {NoToken} /\ TokenAge(c)'
      <3>1. CASE Expired(c)
        <4>1. token'[c] = token[c]
          BY <3>1 DEF Tick
        <4> QED BY <3>1, <4>1, HorizonType DEF TokenInv, TokenAge, Expired
      <3>2. CASE ~ Expired(c)
        <4>1. token[c] \in Tokens /\ token[c].left \in 1 .. TTL /\ token[c] # NoToken
          BY <3>2, HorizonType DEF Expired, TokenInv, Tokens
        <4>2. token'[c] = [name |-> token[c].name, role |-> token[c].role,
                           left |-> token[c].left - 1]
          BY <3>2, <4>1 DEF Tick, Tokens
        <4>3. token'[c] \in Tokens
          BY <4>1, <4>2, HorizonType DEF Tokens
        <4>4. token[c].role = "admin" =>
                  sinceAdmin[token[c].name] <= TTL - token[c].left + MaxDelay
          BY <4>1 DEF TokenInv, TokenAge, YoungerThan
        <4>5. TokenAge(c)'
          BY <1>2, <4>1, <4>2, <4>4, HorizonType DEF TokenAge, YoungerThan, AccountInv, Tokens
        <4> QED BY <4>3, <4>5
      <3> QED BY <3>1, <3>2
    <2>2. token' \in [Clients -> Tokens \cup {NoToken}]
      BY <2>1 DEF Tick
    <2> QED BY <2>1, <2>2 DEF TokenInv
  <1>8. FaultsType'
    BY <1>1 DEF FaultsType
  <1> QED BY <1>4, <1>6, <1>7, <1>8
-----------------------------------------------------------------------------
LEMMA Invariance == Spec => []Inv
  <1>1. ASSUME Inv, [Next]_vars PROVE Inv'
    <2>1. CASE UNCHANGED vars
      BY <1>1, <2>1 DEF vars, historyVars, Inv, RequestInv, HoldsWhat, RequestAge, TokenInv, TokenAge,
         YoungerThan, AccountInv, IsAdmin, OneOwner, FaultsType
    <2>2. CASE Next
      BY <1>1, <2>2, StartSteps, RegisterSteps, LoginSteps, RequestSteps, RoleSteps, TickStep
         DEF Next, ServerStep
    <2> QED BY <1>1, <2>1, <2>2
  <1> QED BY Initially, <1>1, PTL DEF Spec

(* Types, whatever the clients send and in whatever order: no request at a *)
(* step that needs a password or a role is without it.                     *)
THEOREM TypeCorrect == Spec => []TypeOK
  <1>1. Inv => TypeOK
    BY DEF Inv, RequestInv, TokenInv, AccountInv, TypeOK, Accounts, Credentials, Claims
  <1> QED BY Invariance, <1>1, PTL

(* An admin operation never comes later after the loss of the role than a  *)
(* token's life and three delays, for any life and any delays.             *)
THEOREM StaleRolesEnd == Spec => []StaleRoleBounded
  <1>1. Inv => StaleRoleBounded
    <2> SUFFICES ASSUME Inv, NEW c \in Clients, pc[c] = "admin"
                 PROVE  sinceAdmin[req[c].name] < Horizon
      BY DEF StaleRoleBounded
    <2>1. req[c] \in Claims /\ waited[c] \in 0 .. MaxDelay
          /\ sinceAdmin[req[c].name] <= TTL - 1 + 2 * MaxDelay + waited[c]
      BY DEF Inv, RequestInv, HoldsWhat, RequestAge, YoungerThan
    <2>2. sinceAdmin[req[c].name] \in Nat
      BY <2>1 DEF Inv, AccountInv, Claims
    <2> QED BY <2>1, <2>2, HorizonType
  <1> QED BY Invariance, <1>1, PTL

(* Of any number of registrations that race for a name, only one gets 201, *)
(* and its password is the account's.                                      *)
THEOREM NamesHaveOneOwner == Spec => []OneOwner
  <1>1. Inv => OneOwner
    BY DEF Inv, AccountInv
  <1> QED BY Invariance, <1>1, PTL
=============================================================================
