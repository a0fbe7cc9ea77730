---------------------------- MODULE AccountsProofs ----------------------------
(***************************************************************************)
(* Accounts for any number of users, tokens and requests: the types, that  *)
(* a changed password shuts out the sessions opened with the old one       *)
(* (OldPasswordOut), and that a request with a revoked or expired token is *)
(* not served (ServedByLiveToken).                                         *)
(***************************************************************************)
EXTENDS Accounts, TLAPS

USE DEF Life, Tokens

-----------------------------------------------------------------------------
(* Types.  An issued token has its user, and a request knows what its      *)
(* phase needs.                                                            *)

Exists(e) == e \in Emails /\ password[e] # None

SessionOK(row) ==
    IF row.life = "unissued" THEN row.user = None ELSE Exists(row.user) /\ row.proof \in Passwords

KeyOK(row) == IF row.life = "unissued" THEN row.user = None ELSE row.user \in Emails

RequestOK(k) ==
    /\ k.phase \in {"found", "served"} => k.user \in Emails
    /\ k.phase \in {"login", "change", "updated", "revoked"} => Exists(k.user)
    /\ k.phase = "login" => k.given \in Passwords
    /\ k.phase \in {"change", "updated", "revoked"} => k.next \in Passwords
    /\ k.phase \in {"arrived", "found", "served"} => k.token \in Tokens

TypeInv ==
    /\ TypeOK
    /\ \A s \in Sessions : SessionOK(sessions[s])
    /\ \A k \in Keys : KeyOK(keys[k])
    /\ \A r \in Requests : RequestOK(requests[r])

\* The parts of the invariant, by table; a step may be looked at table by table.
PasswordsType == password \in [Emails -> Passwords \cup {None}] /\ locked \in [Emails -> Requests \cup {None}]
SessionsType == sessions \in [Sessions -> Session] /\ \A s \in Sessions : SessionOK(sessions[s])
KeysType == keys \in [Keys -> Key] /\ \A k \in Keys : KeyOK(keys[k])
RequestsType == requests \in [Requests -> Request] /\ \A r \in Requests : RequestOK(requests[r])

LEMMA TypeParts == PasswordsType' /\ SessionsType' /\ KeysType' /\ RequestsType' => TypeInv'
BY DEF TypeInv, TypeOK, PasswordsType, SessionsType, KeysType, RequestsType

\* No user ever goes.
UsersStay == \A e \in Emails : password[e] # None => password'[e] # None

\* A finished request is well typed.
LEMMA DoneType == Done \in Request /\ RequestOK(Done) /\ Done.phase = "new" /\ Done.late = FALSE
BY DEF Done, Request, RequestOK

\* One request goes on to a well-typed state.
LEMMA RequestGoesOn ==
    ASSUME TypeInv, UsersStay, NEW r \in Requests, NEW row, row \in Request, RequestOK(row)',
           requests' = [requests EXCEPT ![r] = row]
    PROVE  RequestsType'
<1>1. \A q \in Requests : requests'[q] = IF q = r THEN row ELSE requests[q]
  BY DEF TypeInv, TypeOK
<1>2. \A q \in Requests : RequestOK(requests[q]) => RequestOK(requests[q])'
  BY DEF RequestOK, Exists, UsersStay
<1>3. QED
  BY <1>1, <1>2 DEF TypeInv, TypeOK, RequestsType

\* Tables that do not change stay well typed.
LEMMA SessionsStay == ASSUME TypeInv, UsersStay, UNCHANGED sessions PROVE SessionsType'
BY DEF TypeInv, TypeOK, SessionsType, SessionOK, Exists, UsersStay

LEMMA KeysStay == ASSUME TypeInv, UNCHANGED keys PROVE KeysType'
BY DEF TypeInv, TypeOK, KeysType, KeyOK

\* A new session is well typed, whatever else was written to the table.
LEMMA SessionCreated ==
    ASSUME TypeInv, UsersStay, NEW table \in [Sessions -> Session], \A t \in Sessions : SessionOK(table[t]),
           NEW s \in Sessions, NEW e \in Emails, password'[e] # None, NEW proof \in Passwords, NEW raced \in BOOLEAN,
           sessions' = createSession(table, s, e, proof, raced)
    PROVE  SessionsType'
<1> DEFINE row == [life |-> "live", user |-> e, proof |-> proof, raced |-> raced]
<1>1. row \in Session /\ SessionOK(row)'
  BY DEF Session, SessionOK, Exists
<1>2. sessions' = [table EXCEPT ![s] = row]
  BY DEF createSession
<1> HIDE DEF row
<1>3. \A t \in Sessions : sessions'[t] = IF t = s THEN row ELSE table[t]
  BY <1>2
<1>4. \A t \in Sessions : SessionOK(table[t])'
  BY DEF SessionOK, Exists, UsersStay
<1>5. QED
  BY <1>1, <1>2, <1>3, <1>4 DEF SessionsType

\* The session of a token, or the key, that is revoked or expires stays well typed.
LEMMA SessionEnds ==
    ASSUME TypeInv, NEW s \in Sessions, sessions[s].life # "unissued", NEW life \in {"revoked", "expired"}
    PROVE  /\ [sessions[s] EXCEPT !.life = life] \in Session
           /\ SessionOK([sessions[s] EXCEPT !.life = life])
BY DEF TypeInv, TypeOK, Session, SessionOK

LEMMA KeyEnds ==
    ASSUME TypeInv, NEW k \in Keys, keys[k].life # "unissued", NEW life \in {"revoked", "expired"},
           keys' = [keys EXCEPT ![k].life = life]
    PROVE  KeysType'
BY DEF TypeInv, TypeOK, KeysType, Key, KeyOK

\* A request that ends leaves the requests well typed.
LEMMA RequestEnds ==
    ASSUME TypeInv, UNCHANGED password, NEW r \in Requests, requests' = [requests EXCEPT ![r] = Done]
    PROVE  UsersStay /\ RequestsType'
<1>1. RequestOK(Done)'
  BY DEF RequestOK, Done
<1>2. UsersStay
  BY DEF UsersStay
<1>3. QED
  BY <1>1, <1>2, DoneType, RequestGoesOn

\* Requests that sign a user up or in.
LEMMA SignInTypes ==
    ASSUME TypeInv, NEW r \in Requests,
           \/ \E e \in Emails, p \in Passwords : Register(r, e, p) \/ Login(r, e, p)
           \/ \E e \in Emails : ErrEmailExists(r, e)
           \/ OpenSession(r)
    PROVE  TypeInv' /\ UsersStay
<1>1. ASSUME NEW e \in Emails, NEW p \in Passwords, Register(r, e, p)
      PROVE  TypeInv' /\ UsersStay
  <2>1. password' = [password EXCEPT ![e] = p] /\ requests' = [requests EXCEPT ![r] = Done] /\ UNCHANGED <<locked, keys>>
    BY <1>1 DEF Register
  <2>2. UsersStay /\ PasswordsType' /\ password'[e] # None
    BY <2>1, AccountsAssumption DEF UsersStay, PasswordsType, TypeInv, TypeOK
  <2>3. SessionsType'
    BY <1>1, <2>2, SessionCreated DEF Register, TypeInv, TypeOK
  <2>4. RequestsType'
    <3>1. RequestOK(Done)'
      BY DEF RequestOK, Done
    <3>2. QED
      BY <2>1, <2>2, <3>1, DoneType, RequestGoesOn
  <2>5. QED
    BY <2>1, <2>2, <2>3, <2>4, KeysStay, TypeParts
<1>2. ASSUME NEW e \in Emails, NEW p \in Passwords, Login(r, e, p)
      PROVE  TypeInv' /\ UsersStay
  <2>1. UNCHANGED <<password, locked, sessions, keys>>
    BY <1>2 DEF Login
  <2>2. UsersStay /\ PasswordsType'
    BY <2>1 DEF UsersStay, PasswordsType, TypeInv, TypeOK
  <2>3. \E row : /\ requests' = [requests EXCEPT ![r] = row]
                 /\ row = Done \/ (row = [Done EXCEPT !.phase = "login", !.user = e, !.given = p] /\ password[e] = p)
    BY <1>2 DEF Login
  <2>4. RequestsType'
    <3>1. PICK row : /\ requests' = [requests EXCEPT ![r] = row]
                     /\ row = Done \/ (row = [Done EXCEPT !.phase = "login", !.user = e, !.given = p] /\ password[e] = p)
      BY <2>3
    <3>2. CASE row = Done
      <4>1. RequestOK(Done)'
        BY DEF RequestOK, Done
      <4>2. QED
        BY <2>2, <3>1, <3>2, <4>1, DoneType, RequestGoesOn
    <3>3. CASE row = [Done EXCEPT !.phase = "login", !.user = e, !.given = p] /\ password[e] = p
      <4>1. row \in Request
        BY <3>3 DEF Done, Request
      <4>2. row.phase = "login" /\ row.user = e /\ row.given = p
        BY <3>3 DEF Done
      <4>3. RequestOK(row)'
        BY <2>1, <3>3, <4>2, AccountsAssumption DEF RequestOK, Exists
      <4>4. QED
        BY <2>2, <3>1, <4>1, <4>3, RequestGoesOn
    <3>4. QED
      BY <3>1, <3>2, <3>3
  <2>5. QED
    BY <2>1, <2>2, <2>4, SessionsStay, KeysStay, TypeParts
<1>3. CASE OpenSession(r)
  <2>1. requests' = [requests EXCEPT ![r] = Done] /\ UNCHANGED <<password, locked, keys>>
    BY <1>3 DEF OpenSession
  <2>2. UsersStay /\ PasswordsType'
    BY <2>1 DEF UsersStay, PasswordsType, TypeInv, TypeOK
  <2>3. requests[r].user \in Emails /\ password[requests[r].user] # None /\ requests[r].given \in Passwords
    BY <1>3 DEF OpenSession, TypeInv, RequestOK, Exists
  <2>4. (requests[r].raced \/ ChangeIsCommitting(requests[r].user)) \in BOOLEAN
    OBVIOUS
  <2>5. SessionsType'
    <3>1. password'[requests[r].user] # None
      BY <2>1, <2>3
    <3>2. PICK s \in Sessions : sessions' = createSession(sessions, s, requests[r].user, requests[r].given,
                                       requests[r].raced \/ ChangeIsCommitting(requests[r].user))
      BY <1>3 DEF OpenSession
    <3>3. sessions \in [Sessions -> Session] /\ \A t \in Sessions : SessionOK(sessions[t])
      BY DEF TypeInv, TypeOK
    <3>4. QED
      BY <2>2, <2>3, <2>4, <3>1, <3>2, <3>3, SessionCreated
  <2>6. RequestsType'
    <3>1. RequestOK(Done)'
      BY DEF RequestOK, Done
    <3>2. QED
      BY <2>1, <2>2, <3>1, DoneType, RequestGoesOn
  <2>7. QED
    BY <2>1, <2>2, <2>5, <2>6, KeysStay, TypeParts
<1>4. ASSUME NEW e \in Emails, ErrEmailExists(r, e)
      PROVE  TypeInv' /\ UsersStay
  <2>1. UNCHANGED <<password, locked, sessions, keys>> /\ requests' = [requests EXCEPT ![r] = Done]
    BY <1>4 DEF ErrEmailExists
  <2>2. PasswordsType'
    BY <2>1 DEF PasswordsType, TypeInv, TypeOK
  <2>3. QED
    BY <2>1, <2>2, RequestEnds, SessionsStay, KeysStay, TypeParts
<1>5. QED
  BY <1>1, <1>2, <1>3, <1>4

\* Requests that come with a token, up to the handler.
LEMMA TokenTypes ==
    ASSUME TypeInv, NEW r \in Requests,
           (\E t \in Tokens : Arrive(r, t)) \/ ResolveAccessToken(r) \/ Authenticate(r)
    PROVE  TypeInv' /\ UsersStay
<1>1. UNCHANGED <<password, locked, sessions, keys>>
  BY DEF Arrive, ResolveAccessToken, Authenticate
<1>2. UsersStay /\ PasswordsType'
  BY <1>1 DEF UsersStay, PasswordsType, TypeInv, TypeOK
<1>3. requests[r] \in Request /\ RequestOK(requests[r])
  BY DEF TypeInv, TypeOK
<1>a. RequestOK(Done)'
  BY DEF RequestOK, Done
<1>4. ASSUME NEW t \in Tokens, Arrive(r, t)
      PROVE  TypeInv' /\ UsersStay
  <2>0. PICK row : row = [Done EXCEPT !.phase = "arrived", !.token = t, !.late = ~IsLive(t)]
    OBVIOUS
  <2>1. requests' = [requests EXCEPT ![r] = row]
    BY <1>4, <2>0 DEF Arrive
  <2>2. IsLive(t) \in BOOLEAN
    BY DEF IsLive
  <2>3. row \in Request
    BY <2>0, <2>2 DEF Done, Request
  <2>4. RequestOK(row)'
    BY <2>0 DEF Done, RequestOK
  <2>5. QED
    BY <1>1, <1>2, <2>1, <2>3, <2>4, RequestGoesOn, SessionsStay, KeysStay, TypeParts
<1>5. CASE ResolveAccessToken(r)
  <2>1. requests[r].token \in Tokens
    BY <1>3, <1>5 DEF ResolveAccessToken, RequestOK
  <2>2. CASE Accepts(requests[r].token)
    <3>1. UserOf(requests[r].token) \in Emails
      BY <2>1, <2>2 DEF Accepts, UserOf, TypeInv, SessionOK, KeyOK, Exists
    <3>0. PICK row : row = [requests[r] EXCEPT !.phase = "found", !.user = UserOf(requests[r].token)]
      OBVIOUS
    <3>2. requests' = [requests EXCEPT ![r] = row]
      BY <1>5, <2>2, <3>0 DEF ResolveAccessToken
    <3>3. row \in Request /\ row.phase = "found" /\ row.user \in Emails /\ row.token \in Tokens
      BY <1>3, <2>1, <3>0, <3>1 DEF Request
    <3>4. RequestOK(row)'
      BY <3>3 DEF RequestOK
    <3>5. QED
      BY <1>1, <1>2, <3>2, <3>3, <3>4, RequestGoesOn, SessionsStay, KeysStay, TypeParts
  <2>3. CASE ~Accepts(requests[r].token)
    <3>1. requests' = [requests EXCEPT ![r] = Done]
      BY <1>5, <2>3 DEF ResolveAccessToken
    <3>2. QED
      BY <1>1, <1>2, <1>a, <3>1, DoneType, RequestGoesOn, SessionsStay, KeysStay, TypeParts
  <2>4. QED
    BY <2>2, <2>3
<1>6. CASE Authenticate(r)
  <2>0. PICK row : row = [requests[r] EXCEPT !.phase = "served"]
    OBVIOUS
  <2>1. requests' = [requests EXCEPT ![r] = row]
    BY <1>6, <2>0 DEF Authenticate
  <2>2. row \in Request /\ row.phase = "served" /\ row.user = requests[r].user /\ row.token = requests[r].token
    BY <1>3, <2>0 DEF Request
  <2>3. RequestOK(row)'
    BY <1>3, <1>6, <2>2 DEF Authenticate, RequestOK
  <2>4. QED
    BY <1>1, <1>2, <2>1, <2>2, <2>3, RequestGoesOn, SessionsStay, KeysStay, TypeParts
<1>7. QED
  BY <1>4, <1>5, <1>6

\* What a served request may do, but for the password.
LEMMA ServedTypes ==
    ASSUME TypeInv, NEW r \in Requests,
           Logout(r) \/ CreateAPIKey(r) \/ \E k \in Keys : RevokeAPIKey(r, k)
    PROVE  TypeInv' /\ UsersStay
<1>1. UNCHANGED <<password, locked>> /\ requests' = [requests EXCEPT ![r] = Done]
  BY DEF Logout, CreateAPIKey, RevokeAPIKey
<1>2. UsersStay /\ RequestsType'
  BY <1>1, RequestEnds
<1>3. PasswordsType'
  BY <1>1 DEF PasswordsType, TypeInv, TypeOK
<1>4. CASE Logout(r)
  <2>1. CASE sessions' = sessions
    BY <1>2, <1>3, <1>4, <2>1, SessionsStay, KeysStay, TypeParts DEF Logout
  <2>2. CASE sessions' # sessions
    <3>1. PICK s \in Sessions : s = requests[r].token /\ sessions[s].life = "live"
      BY <1>4, <2>2 DEF Logout
    <3>2. PICK row : row = [sessions[s] EXCEPT !.life = "revoked"]
      OBVIOUS
    <3>3. sessions' = [sessions EXCEPT ![s] = row]
      BY <1>4, <3>1, <3>2 DEF Logout
    <3>4. row \in Session /\ SessionOK(row)
      BY <3>1, <3>2, SessionEnds
    <3>5. \A t \in Sessions : sessions'[t] = IF t = s THEN row ELSE sessions[t]
      BY <3>3 DEF TypeInv, TypeOK
    <3>6. SessionsType'
      BY <1>1, <3>3, <3>4, <3>5 DEF TypeInv, TypeOK, SessionsType, SessionOK, Exists
    <3>7. QED
      BY <1>2, <1>3, <1>4, <3>6, KeysStay, TypeParts DEF Logout
  <2>3. QED
    BY <2>1, <2>2
<1>5. CASE CreateAPIKey(r)
  <2>1. requests[r].user \in Emails
    BY <1>5 DEF CreateAPIKey, TypeInv, RequestOK
  <2>2. PICK j \in Keys : keys' = [keys EXCEPT ![j] = [life |-> "live", user |-> requests[r].user]]
    BY <1>5 DEF CreateAPIKey
  <2>3. KeysType'
    BY <2>1, <2>2 DEF TypeInv, TypeOK, KeysType, Key, KeyOK
  <2>4. QED
    BY <1>2, <1>3, <1>5, <2>3, SessionsStay, TypeParts DEF CreateAPIKey
<1>6. ASSUME NEW k \in Keys, RevokeAPIKey(r, k)
      PROVE  TypeInv' /\ UsersStay
  <2>1. keys' = keys \/ (keys[k].life # "unissued" /\ keys' = [keys EXCEPT ![k].life = "revoked"])
    BY <1>6 DEF RevokeAPIKey, Revocable
  <2>2. KeysType'
    BY <2>1, KeysStay, KeyEnds
  <2>3. QED
    BY <1>2, <1>3, <1>6, <2>2, SessionsStay, TypeParts DEF RevokeAPIKey
<1>7. QED
  BY <1>4, <1>5, <1>6

\* A change of the password, up to its commit.
LEMMA ChangeTypes ==
    ASSUME TypeInv, NEW r \in Requests,
           \/ \E current, next \in Passwords : ChangePassword(r, current, next)
           \/ UpdatePassword(r)
           \/ RevokeSessions(r)
    PROVE  TypeInv' /\ UsersStay
<1>1. UNCHANGED <<password, sessions, keys>>
  BY DEF ChangePassword, UpdatePassword, RevokeSessions
<1>2. UsersStay
  BY <1>1 DEF UsersStay
<1>3. requests[r] \in Request /\ RequestOK(requests[r])
  BY DEF TypeInv, TypeOK
<1>4. PasswordsType'
  <2>1. locked' = locked \/ locked' = [locked EXCEPT ![requests[r].user] = r]
    BY DEF ChangePassword, UpdatePassword, RevokeSessions
  <2>2. QED
    BY <1>1, <2>1 DEF PasswordsType, TypeInv, TypeOK
<1>5. RequestsType'
  <2>1. CASE requests' = [requests EXCEPT ![r] = Done]
    BY <1>1, <2>1, RequestEnds
  <2>2. ASSUME NEW current \in Passwords, NEW next \in Passwords, ChangePassword(r, current, next),
               requests' # [requests EXCEPT ![r] = Done]
        PROVE  RequestsType'
    <3>1. PICK row : row = [requests[r] EXCEPT !.phase = "change", !.given = current, !.next = next]
      OBVIOUS
    <3>2. requests' = [requests EXCEPT ![r] = row] /\ password[requests[r].user] = current
      BY <2>2, <3>1 DEF ChangePassword
    <3>3. row \in Request /\ row.phase = "change" /\ row.user = requests[r].user /\ row.next = next
      BY <1>3, <3>1 DEF Request
    <3>4. Exists(row.user)'
      BY <1>1, <1>3, <2>2, <3>2, <3>3, AccountsAssumption DEF ChangePassword, RequestOK, Exists
    <3>5. RequestOK(row)'
      BY <3>3, <3>4 DEF RequestOK
    <3>6. QED
      BY <1>2, <3>2, <3>3, <3>5, RequestGoesOn
  <2>3. CASE UpdatePassword(r)
    <3>1. PICK row : row = [requests[r] EXCEPT !.phase = "updated"]
      OBVIOUS
    <3>2. requests' = [requests EXCEPT ![r] = row]
      BY <2>3, <3>1 DEF UpdatePassword
    <3>3. row \in Request /\ row.phase = "updated" /\ row.user = requests[r].user /\ row.next = requests[r].next
      BY <1>3, <3>1 DEF Request
    <3>4. RequestOK(row)'
      BY <1>1, <1>3, <2>3, <3>3 DEF UpdatePassword, RequestOK, Exists
    <3>5. QED
      BY <1>2, <3>2, <3>3, <3>4, RequestGoesOn
  <2>4. CASE RevokeSessions(r)
    <3>1. PICK row : row = [requests[r] EXCEPT !.phase = "revoked", !.revoking = RevokedBy(r)]
      OBVIOUS
    <3>2. requests' = [requests EXCEPT ![r] = row]
      BY <2>4, <3>1 DEF RevokeSessions
    <3>3. RevokedBy(r) \subseteq Sessions
      BY DEF RevokedBy
    <3>4. row \in Request /\ row.phase = "revoked" /\ row.user = requests[r].user /\ row.next = requests[r].next
      BY <1>3, <3>1, <3>3 DEF Request
    <3>5. RequestOK(row)'
      BY <1>1, <1>3, <2>4, <3>4 DEF RevokeSessions, RequestOK, Exists
    <3>6. QED
      BY <1>2, <3>2, <3>4, <3>5, RequestGoesOn
  <2>5. QED
    BY <2>1, <2>2, <2>3, <2>4
<1>6. QED
  BY <1>1, <1>2, <1>4, <1>5, SessionsStay, KeysStay, TypeParts

\* What the commit of a new password does, user by user and session by session.
LEMMA CommitFacts ==
    ASSUME TypeInv, NEW r \in Requests, CommitPassword(r)
    PROVE  \E e \in Emails, next \in Passwords, s \in Sessions :
              /\ requests[r].phase = "revoked" /\ requests[r].user = e
              /\ password' = [password EXCEPT ![e] = next]
              /\ locked' = [locked EXCEPT ![e] = None]
              /\ keys' = keys
              /\ sessions[s].life = "unissued"
              /\ sessions' \in [Sessions -> Session]
              /\ sessions'[s] = [life |-> "live", user |-> e, proof |-> next, raced |-> FALSE]
              /\ \A t \in Sessions : t # s =>
                    sessions'[t] = IF t \in requests[r].revoking THEN [sessions[t] EXCEPT !.life = "revoked"] ELSE sessions[t]
              /\ requests' \in [Requests -> Request]
              /\ requests'[r] = Done
              /\ \A q \in Requests : q # r =>
                    \/ requests'[q] = requests[q] /\ ~(requests[q].phase = "login" /\ requests[q].user = e)
                    \/ /\ requests'[q] = [requests[q] EXCEPT !.raced = TRUE]
                       /\ requests[q].phase = "login" /\ requests[q].user = e
<1>1. /\ requests[r].phase = "revoked" /\ requests[r].user \in Emails /\ requests[r].next \in Passwords
      /\ \A q \in Requests : requests[q] \in Request
      /\ \A t \in Sessions : sessions[t] \in Session
  BY DEF CommitPassword, TypeInv, TypeOK, RequestOK, Exists
<1>0. PICK revoking : revoking = requests[r].revoking
  OBVIOUS
<1>2. PICK e \in Emails, next \in Passwords : e = requests[r].user /\ next = requests[r].next
  BY <1>1
<1>3. PICK left : left = [t \in Sessions |-> IF t \in revoking THEN [sessions[t] EXCEPT !.life = "revoked"] ELSE sessions[t]]
  OBVIOUS
<1>4. PICK s \in Sessions : sessions[s].life = "unissued" /\ sessions' = createSession(left, s, e, next, FALSE)
  BY <1>0, <1>2, <1>3 DEF CommitPassword
<1>5. PICK row : row = [life |-> "live", user |-> e, proof |-> next, raced |-> FALSE]
  OBVIOUS
<1>6. sessions' = [left EXCEPT ![s] = row] /\ row \in Session
  BY <1>4, <1>5 DEF createSession, Session
<1>7. \A t \in Sessions : [sessions[t] EXCEPT !.life = "revoked"] \in Session
  BY <1>1 DEF Session
<1>8. left \in [Sessions -> Session]
  BY <1>1, <1>3, <1>7
<1>9. /\ sessions' \in [Sessions -> Session] /\ sessions'[s] = row
      /\ \A t \in Sessions : t # s =>
            sessions'[t] = IF t \in revoking THEN [sessions[t] EXCEPT !.life = "revoked"] ELSE sessions[t]
  BY <1>3, <1>6, <1>8
<1>10. requests' = [q \in Requests |->
          IF q = r THEN Done
          ELSE IF requests[q].phase = "login" /\ requests[q].user = e THEN [requests[q] EXCEPT !.raced = TRUE]
          ELSE requests[q]]
  BY <1>2 DEF CommitPassword
<1>11. \A q \in Requests : [requests[q] EXCEPT !.raced = TRUE] \in Request
  BY <1>1 DEF Request
<1>12. requests' \in [Requests -> Request]
  BY <1>1, <1>10, <1>11, DoneType
<1>13. /\ requests'[r] = Done
       /\ \A q \in Requests : q # r =>
             \/ requests'[q] = requests[q] /\ ~(requests[q].phase = "login" /\ requests[q].user = e)
             \/ /\ requests'[q] = [requests[q] EXCEPT !.raced = TRUE]
                /\ requests[q].phase = "login" /\ requests[q].user = e
  BY <1>10
<1>14. password' = [password EXCEPT ![e] = next] /\ locked' = [locked EXCEPT ![e] = None] /\ keys' = keys
  BY <1>2 DEF CommitPassword
<1>15. /\ sessions'[s] = [life |-> "live", user |-> e, proof |-> next, raced |-> FALSE]
       /\ \A t \in Sessions : t # s =>
             sessions'[t] = IF t \in requests[r].revoking THEN [sessions[t] EXCEPT !.life = "revoked"] ELSE sessions[t]
  BY <1>0, <1>5, <1>9
<1>16. requests[r].phase = "revoked" /\ requests[r].user = e /\ sessions[s].life = "unissued" /\ sessions' \in [Sessions -> Session]
  BY <1>1, <1>2, <1>4, <1>9
<1>17. QED
  BY <1>12, <1>13, <1>14, <1>15, <1>16

\* A change of the password revokes sessions that were opened.
RevokingOK == \A r \in Requests : \A s \in requests[r].revoking : sessions[s].life # "unissued"

\* The commit of a new password.
LEMMA CommitTypes ==
    ASSUME TypeInv, RevokingOK, NEW r \in Requests, CommitPassword(r)
    PROVE  TypeInv' /\ UsersStay
<1>1. PICK e \in Emails, next \in Passwords, s \in Sessions :
              /\ requests[r].phase = "revoked" /\ requests[r].user = e
              /\ password' = [password EXCEPT ![e] = next]
              /\ locked' = [locked EXCEPT ![e] = None]
              /\ keys' = keys
              /\ sessions[s].life = "unissued"
              /\ sessions' \in [Sessions -> Session]
              /\ sessions'[s] = [life |-> "live", user |-> e, proof |-> next, raced |-> FALSE]
              /\ \A t \in Sessions : t # s =>
                    sessions'[t] = IF t \in requests[r].revoking THEN [sessions[t] EXCEPT !.life = "revoked"] ELSE sessions[t]
              /\ requests' \in [Requests -> Request]
              /\ requests'[r] = Done
              /\ \A q \in Requests : q # r =>
                    \/ requests'[q] = requests[q] /\ ~(requests[q].phase = "login" /\ requests[q].user = e)
                    \/ /\ requests'[q] = [requests[q] EXCEPT !.raced = TRUE]
                       /\ requests[q].phase = "login" /\ requests[q].user = e
  BY CommitFacts
<1>2. UsersStay /\ PasswordsType'
  BY <1>1, AccountsAssumption DEF UsersStay, PasswordsType, TypeInv, TypeOK
<1>3. password'[e] = next /\ next # None
  BY <1>1, AccountsAssumption DEF TypeInv, TypeOK
<1>4. SessionsType'
  <2>1. ASSUME NEW t \in Sessions PROVE SessionOK(sessions[t])'
    <3>1. CASE t = s
      BY <1>1, <1>3, <3>1 DEF SessionOK, Exists
    <3>2. CASE t # s
      <4>1. SessionOK(sessions[t]) /\ sessions[t] \in Session
        BY DEF TypeInv, TypeOK
      <4>2. sessions'[t].user = sessions[t].user /\ sessions'[t].proof = sessions[t].proof
            /\ sessions'[t].life \in {"revoked", sessions[t].life}
        BY <1>1, <3>2, <4>1 DEF Session
      <4>3. CASE sessions[t].life # "unissued"
        BY <1>2, <4>1, <4>2, <4>3 DEF SessionOK, Exists, UsersStay
      <4>4. CASE sessions[t].life = "unissued"
        BY <1>1, <3>2, <4>1, <4>4 DEF SessionOK, RevokingOK
      <4>5. QED
        BY <4>3, <4>4
    <3>3. QED
      BY <3>1, <3>2
  <2>2. QED
    BY <1>1, <2>1 DEF SessionsType
<1>5. RequestsType'
  <2>1. ASSUME NEW q \in Requests PROVE RequestOK(requests[q])'
    <3>1. CASE q = r
      BY <1>1, <3>1 DEF RequestOK, Done
    <3>2. CASE q # r
      <4>1. requests[q] \in Request /\ RequestOK(requests[q])
        BY DEF TypeInv, TypeOK
      <4>2. /\ requests'[q].phase = requests[q].phase /\ requests'[q].user = requests[q].user
            /\ requests'[q].given = requests[q].given /\ requests'[q].next = requests[q].next
            /\ requests'[q].token = requests[q].token
        BY <1>1, <3>2, <4>1 DEF Request
      <4>3. QED
        BY <1>2, <4>1, <4>2 DEF RequestOK, Exists, UsersStay
    <3>3. QED
      BY <3>1, <3>2
  <2>2. QED
    BY <1>1, <2>1 DEF RequestsType
<1>6. QED
  BY <1>1, <1>2, <1>4, <1>5, KeysStay, TypeParts

\* The end of a request, and of a token.
LEMMA EndTypes ==
    ASSUME TypeInv, NEW r \in Requests, End(r)
    PROVE  TypeInv' /\ UsersStay
<1>1. UNCHANGED <<password, sessions, keys>> /\ requests' = [requests EXCEPT ![r] = Done]
  BY DEF End
<1>2. PasswordsType'
  BY <1>1 DEF End, PasswordsType, TypeInv, TypeOK
<1>3. QED
  BY <1>1, <1>2, RequestEnds, SessionsStay, KeysStay, TypeParts

LEMMA ExpireTypes ==
    ASSUME TypeInv, NEW t \in Tokens, Expire(t)
    PROVE  TypeInv' /\ UsersStay
<1>1. UNCHANGED <<password, locked, requests>>
  BY DEF Expire
<1>2. UsersStay /\ PasswordsType' /\ RequestsType'
  BY <1>1 DEF UsersStay, PasswordsType, RequestsType, RequestOK, Exists, TypeInv, TypeOK
<1>3. CASE t \in Sessions /\ sessions' = [sessions EXCEPT ![t].life = "expired"] /\ UNCHANGED keys
  <2>1. sessions[t].life # "unissued"
    BY <1>3 DEF Expire, IsLive
  <2>2. PICK row : row = [sessions[t] EXCEPT !.life = "expired"]
    OBVIOUS
  <2>3. sessions' = [sessions EXCEPT ![t] = row] /\ row \in Session /\ SessionOK(row)
    BY <1>3, <2>1, <2>2, SessionEnds
  <2>4. \A s \in Sessions : sessions'[s] = IF s = t THEN row ELSE sessions[s]
    BY <2>3 DEF TypeInv, TypeOK
  <2>5. SessionsType'
    BY <1>1, <2>3, <2>4 DEF TypeInv, TypeOK, SessionsType, SessionOK, Exists
  <2>6. QED
    BY <1>2, <1>3, <2>5, KeysStay, TypeParts
<1>4. CASE t \in Keys /\ keys' = [keys EXCEPT ![t].life = "expired"] /\ UNCHANGED sessions
  <2>1. keys[t].life # "unissued"
    BY <1>4, AccountsAssumption DEF Expire, IsLive
  <2>2. KeysType'
    BY <1>4, <2>1, KeyEnds
  <2>3. QED
    BY <1>2, <1>4, <2>2, SessionsStay, TypeParts
<1>5. QED
  BY <1>3, <1>4 DEF Expire

-----------------------------------------------------------------------------
(* What a change of the password has revoked *)

\* It is kept, forgotten, or what RevokeSessions has just found.
RevokingMoves == \A r \in Requests : requests'[r].revoking \in {requests[r].revoking, {}, RevokedBy(r)}

\* One request moves.
LEMMA OneRevokes ==
    ASSUME TypeInv, NEW r \in Requests, NEW row, requests' = [requests EXCEPT ![r] = row],
           row.revoking \in {requests[r].revoking, {}, RevokedBy(r)}
    PROVE  RevokingMoves
BY DEF TypeInv, TypeOK, RevokingMoves

\* Every step moves what a change has revoked in one of these ways.
LEMMA RevokingsMove == ASSUME TypeInv, [Next]_vars PROVE RevokingMoves
<1>0. Done.revoking = {} /\ \A r \in Requests : requests[r] \in Request
  BY DEF Done, TypeInv, TypeOK
<1>1. ASSUME NEW r \in Requests, requests' = [requests EXCEPT ![r] = Done]
      PROVE  RevokingMoves
  BY <1>0, <1>1, OneRevokes
<1>2. ASSUME NEW r \in Requests, NEW e \in Emails, NEW p \in Passwords, Login(r, e, p)
      PROVE  RevokingMoves
  <2>1. [Done EXCEPT !.phase = "login", !.user = e, !.given = p].revoking = {}
    BY DEF Done
  <2>2. QED
    BY <1>1, <1>2, <2>1, OneRevokes DEF Login
<1>3. ASSUME NEW r \in Requests, (\E t \in Tokens : Arrive(r, t)) \/ ResolveAccessToken(r) \/ Authenticate(r)
      PROVE  RevokingMoves
  <2>1. ASSUME NEW t \in Tokens, Arrive(r, t)
        PROVE  RevokingMoves
    <3>1. \A late : [Done EXCEPT !.phase = "arrived", !.token = t, !.late = late].revoking = {}
      BY DEF Done
    <3>2. QED
      BY <2>1, <3>1, OneRevokes DEF Arrive
  <2>2. CASE ResolveAccessToken(r)
    <3>1. \A e : [requests[r] EXCEPT !.phase = "found", !.user = e].revoking = requests[r].revoking
      BY <1>0 DEF Request
    <3>2. QED
      BY <1>1, <2>2, <3>1, OneRevokes DEF ResolveAccessToken
  <2>3. CASE Authenticate(r)
    <3>1. [requests[r] EXCEPT !.phase = "served"].revoking = requests[r].revoking
      BY <1>0 DEF Request
    <3>2. QED
      BY <2>3, <3>1, OneRevokes DEF Authenticate
  <2>4. QED
    BY <1>3, <2>1, <2>2, <2>3
<1>4. ASSUME NEW r \in Requests,
             \/ \E current, next \in Passwords : ChangePassword(r, current, next)
             \/ UpdatePassword(r)
             \/ RevokeSessions(r)
      PROVE  RevokingMoves
  <2>1. ASSUME NEW current \in Passwords, NEW next \in Passwords, ChangePassword(r, current, next)
        PROVE  RevokingMoves
    <3>1. [requests[r] EXCEPT !.phase = "change", !.given = current, !.next = next].revoking = requests[r].revoking
      BY <1>0 DEF Request
    <3>2. QED
      BY <1>1, <2>1, <3>1, OneRevokes DEF ChangePassword
  <2>2. CASE UpdatePassword(r)
    <3>1. [requests[r] EXCEPT !.phase = "updated"].revoking = requests[r].revoking
      BY <1>0 DEF Request
    <3>2. QED
      BY <2>2, <3>1, OneRevokes DEF UpdatePassword
  <2>3. CASE RevokeSessions(r)
    <3>1. [requests[r] EXCEPT !.phase = "revoked", !.revoking = RevokedBy(r)].revoking = RevokedBy(r)
      BY <1>0 DEF Request
    <3>2. QED
      BY <2>3, <3>1, OneRevokes DEF RevokeSessions
  <2>4. QED
    BY <1>4, <2>1, <2>2, <2>3
<1>5. ASSUME NEW r \in Requests, CommitPassword(r)
      PROVE  RevokingMoves
  <2>1. \A q \in Requests : [requests[q] EXCEPT !.raced = TRUE].revoking = requests[q].revoking
    BY <1>0 DEF Request
  <2>2. requests'[r] = Done /\ \A q \in Requests : q # r =>
           requests'[q] = requests[q] \/ requests'[q] = [requests[q] EXCEPT !.raced = TRUE]
    BY <1>5, CommitFacts
  <2>3. QED
    BY <1>0, <2>1, <2>2 DEF RevokingMoves
<1>6. CASE UNCHANGED requests
  BY <1>6 DEF RevokingMoves
<1>7. QED
  BY <1>1, <1>2, <1>3, <1>4, <1>5, <1>6
     DEF Next, Served, Register, ErrEmailExists, OpenSession, Logout, CreateAPIKey, RevokeAPIKey, End, Expire, vars

\* A session that was opened stays in the table.
LEMMA IssuedStays ==
    ASSUME TypeInv, [Next]_vars
    PROVE  \A s \in Sessions : sessions[s].life # "unissued" => sessions'[s].life # "unissued"
<1>0. sessions \in [Sessions -> Session]
  BY DEF TypeInv, TypeOK
<1>1. ASSUME NEW r \in Requests, OpenSession(r) \/ \E e \in Emails, p \in Passwords : Register(r, e, p)
      PROVE  \A s \in Sessions : sessions[s].life # "unissued" => sessions'[s].life # "unissued"
  BY <1>0, <1>1 DEF OpenSession, Register, createSession
<1>2. ASSUME NEW r \in Requests, CommitPassword(r)
      PROVE  \A s \in Sessions : sessions[s].life # "unissued" => sessions'[s].life # "unissued"
  <2>1. PICK s \in Sessions : sessions[s].life = "unissued" /\ \A t \in Sessions : t # s =>
            sessions'[t] = IF t \in requests[r].revoking THEN [sessions[t] EXCEPT !.life = "revoked"] ELSE sessions[t]
    BY <1>2, CommitFacts
  <2>2. \A t \in Sessions : [sessions[t] EXCEPT !.life = "revoked"].life = "revoked"
    BY <1>0 DEF Session
  <2>3. QED
    BY <2>1, <2>2
<1>3. ASSUME NEW r \in Requests, Logout(r)
      PROVE  \A s \in Sessions : sessions[s].life # "unissued" => sessions'[s].life # "unissued"
  BY <1>0, <1>3 DEF Logout, Session
<1>4. ASSUME NEW t \in Tokens, Expire(t)
      PROVE  \A s \in Sessions : sessions[s].life # "unissued" => sessions'[s].life # "unissued"
  BY <1>0, <1>4 DEF Expire, Session
<1>5. CASE UNCHANGED sessions
  BY <1>5
<1>6. QED
  BY <1>1, <1>2, <1>3, <1>4, <1>5
     DEF Next, Served, Login, ErrEmailExists, Arrive, ResolveAccessToken, Authenticate, CreateAPIKey, RevokeAPIKey,
         ChangePassword, UpdatePassword, RevokeSessions, End, vars

\* Every variable has its type, every issued token its user, and a request what
\* its phase needs.
THEOREM TypeInvariant == Spec => [](TypeInv /\ RevokingOK)
<1>1. Init => TypeInv /\ RevokingOK
  <2>1. NoSession \in Session /\ SessionOK(NoSession) /\ NoKey \in Key /\ KeyOK(NoKey)
    BY DEF NoSession, Session, SessionOK, NoKey, Key, KeyOK
  <2>2. Done.revoking = {}
    BY DEF Done
  <2>3. QED
    BY <2>1, <2>2, DoneType DEF Init, TypeInv, TypeOK, RevokingOK
<1>2. ASSUME TypeInv, RevokingOK, [Next]_vars
      PROVE  TypeInv'
  <2>1. CASE UNCHANGED vars
    BY <1>2, <2>1 DEF vars, TypeInv, TypeOK, SessionOK, KeyOK, RequestOK, Exists
  <2>2. CASE Next
    BY <1>2, <2>2, SignInTypes, TokenTypes, ServedTypes, ChangeTypes, CommitTypes, EndTypes, ExpireTypes DEF Next, Served
  <2>3. QED
    BY <1>2, <2>1, <2>2
<1>3. ASSUME TypeInv, RevokingOK, [Next]_vars
      PROVE  RevokingOK'
  <2>1. \A r \in Requests : requests[r].revoking \subseteq Sessions
    BY <1>3 DEF TypeInv, TypeOK, Request
  <2>2. \A r \in Requests : \A s \in RevokedBy(r) : s \in Sessions /\ sessions[s].life # "unissued"
    BY DEF RevokedBy
  <2>3. QED
    BY <1>3, <2>1, <2>2, RevokingsMove, IssuedStays DEF RevokingMoves, RevokingOK
<1>4. QED
  BY <1>1, <1>2, <1>3, PTL DEF Spec

-----------------------------------------------------------------------------
(* The old password.  A login in progress has compared its password with   *)
(* the one of now, or knows that it was raced; the lock on the user's row  *)
(* lets one change of the password at a time see the sessions; and what it *)
(* does not see was opened by a login that knows of it.                    *)

LoginKnows(r) ==
    requests[r].phase = "login" => requests[r].given = password[requests[r].user] \/ requests[r].raced

ChangeLocks(r) == requests[r].phase \in {"updated", "revoked"} => locked[requests[r].user] = r

ChangeSees(r) ==
    requests[r].phase = "revoked" =>
        \A s \in Sessions : sessions[s].life = "live" /\ sessions[s].user = requests[r].user
            => s \in requests[r].revoking \/ sessions[s].raced

PasswordInv == OldPasswordOut /\ \A r \in Requests : LoginKnows(r) /\ ChangeLocks(r) /\ ChangeSees(r)

\* Sessions end, requests end, and locks are released that no request needs.
LEMMA LessPasswords ==
    ASSUME TypeInv, PasswordInv, UNCHANGED password,
           \A s \in Sessions : sessions'[s] = sessions[s] \/ sessions'[s].life # "live",
           \A r \in Requests :
              \/ requests'[r] = Done
              \/ /\ requests'[r] = requests[r]
                 /\ requests[r].phase \in {"updated", "revoked"} => locked'[requests[r].user] = locked[requests[r].user]
    PROVE  PasswordInv'
<1>1. OldPasswordOut'
  BY DEF PasswordInv, OldPasswordOut
<1>2. ASSUME NEW r \in Requests PROVE (LoginKnows(r) /\ ChangeLocks(r) /\ ChangeSees(r))'
  <2>1. CASE requests'[r] = Done
    BY <2>1, DoneType DEF LoginKnows, ChangeLocks, ChangeSees
  <2>2. CASE requests'[r] # Done
    BY <2>2 DEF PasswordInv, LoginKnows, ChangeLocks, ChangeSees
  <2>3. QED
    BY <2>1, <2>2
<1>3. QED
  BY <1>1, <1>2 DEF PasswordInv

\* One request goes on; it may take the lock of its user.
LEMMA OneGoesOn ==
    ASSUME TypeInv, PasswordInv, UNCHANGED <<password, sessions>>,
           NEW r \in Requests, NEW row, requests' = [requests EXCEPT ![r] = row],
           row.phase = "login" => row.given = password[row.user],
           row.phase \in {"updated", "revoked"} => locked'[row.user] = r,
           row.phase = "revoked" => row.revoking = RevokedBy(r) /\ row.user = requests[r].user,
           \A q \in Requests : q # r /\ requests[q].phase \in {"updated", "revoked"} => locked'[requests[q].user] = q
    PROVE  PasswordInv'
<1>1. \A q \in Requests : requests'[q] = IF q = r THEN row ELSE requests[q]
  BY DEF TypeInv, TypeOK
<1>2. OldPasswordOut'
  BY DEF PasswordInv, OldPasswordOut
<1>3. ASSUME NEW q \in Requests PROVE (LoginKnows(q) /\ ChangeLocks(q) /\ ChangeSees(q))'
  <2>1. CASE q = r
    BY <1>1, <2>1 DEF LoginKnows, ChangeLocks, ChangeSees, RevokedBy
  <2>2. CASE q # r
    BY <1>1, <2>2 DEF PasswordInv, LoginKnows, ChangeLocks, ChangeSees
  <2>3. QED
    BY <2>1, <2>2
<1>4. QED
  BY <1>2, <1>3 DEF PasswordInv

\* A session is opened, with the password its user has, or known to be raced.
LEMMA SessionOpened ==
    ASSUME TypeInv, PasswordInv, UNCHANGED locked,
           \A f \in Emails : password[f] # None => password'[f] = password[f],
           NEW r \in Requests, requests' = [requests EXCEPT ![r] = Done],
           NEW s \in Sessions, NEW row, sessions' = [sessions EXCEPT ![s] = row],
           row.proof = password'[row.user] \/ row.raced,
           \A q \in Requests : q # r /\ requests[q].phase = "revoked" /\ requests[q].user = row.user => row.raced
    PROVE  PasswordInv'
<1>1. \A q \in Requests : requests'[q] = IF q = r THEN Done ELSE requests[q]
  BY DEF TypeInv, TypeOK
<1>3. \A t \in Sessions : sessions'[t] = IF t = s THEN row ELSE sessions[t]
  BY DEF TypeInv, TypeOK
<1>5. ASSUME NEW t \in Sessions, sessions'[t].life = "live"
      PROVE  sessions'[t].proof = password'[sessions'[t].user] \/ sessions'[t].raced
  <2>1. CASE t = s
    BY <1>3, <2>1
  <2>2. CASE t # s
    <3>1. sessions'[t] = sessions[t] /\ Exists(sessions[t].user)
      BY <1>3, <1>5, <2>2 DEF TypeInv, SessionOK
    <3>2. QED
      BY <1>5, <3>1 DEF PasswordInv, OldPasswordOut, Exists
  <2>3. QED
    BY <2>1, <2>2
<1>6. ASSUME NEW q \in Requests PROVE (LoginKnows(q) /\ ChangeLocks(q) /\ ChangeSees(q))'
  <2>1. CASE q = r
    BY <1>1, <2>1, DoneType DEF LoginKnows, ChangeLocks, ChangeSees
  <2>2. CASE q # r
    <3>1. requests'[q] = requests[q]
      BY <1>1, <2>2
    <3>2. LoginKnows(q)'
      BY <3>1 DEF TypeInv, RequestOK, Exists, PasswordInv, LoginKnows
    <3>3. ChangeLocks(q)'
      BY <3>1 DEF PasswordInv, ChangeLocks
    <3>4. ChangeSees(q)'
      BY <1>3, <2>2, <3>1 DEF PasswordInv, ChangeSees
    <3>5. QED
      BY <3>2, <3>3, <3>4
  <2>3. QED
    BY <2>1, <2>2
<1>7. QED
  BY <1>5, <1>6 DEF PasswordInv, OldPasswordOut

\* The new password is committed.
LEMMA PasswordCommitted ==
    ASSUME TypeInv, RevokingOK, PasswordInv, NEW r \in Requests, CommitPassword(r)
    PROVE  PasswordInv'
<1>1. PICK e \in Emails, next \in Passwords, s \in Sessions :
              /\ requests[r].phase = "revoked" /\ requests[r].user = e
              /\ password' = [password EXCEPT ![e] = next]
              /\ locked' = [locked EXCEPT ![e] = None]
              /\ keys' = keys
              /\ sessions[s].life = "unissued"
              /\ sessions' \in [Sessions -> Session]
              /\ sessions'[s] = [life |-> "live", user |-> e, proof |-> next, raced |-> FALSE]
              /\ \A t \in Sessions : t # s =>
                    sessions'[t] = IF t \in requests[r].revoking THEN [sessions[t] EXCEPT !.life = "revoked"] ELSE sessions[t]
              /\ requests' \in [Requests -> Request]
              /\ requests'[r] = Done
              /\ \A q \in Requests : q # r =>
                    \/ requests'[q] = requests[q] /\ ~(requests[q].phase = "login" /\ requests[q].user = e)
                    \/ /\ requests'[q] = [requests[q] EXCEPT !.raced = TRUE]
                       /\ requests[q].phase = "login" /\ requests[q].user = e
  BY CommitFacts
<1>2. /\ password'[e] = next /\ \A f \in Emails : f # e => password'[f] = password[f]
      /\ \A f \in Emails : f # e => locked'[f] = locked[f]
  BY <1>1 DEF TypeInv, TypeOK
<1>3. \A t \in Sessions : sessions[t] \in Session /\ [sessions[t] EXCEPT !.life = "revoked"].life = "revoked"
  BY DEF TypeInv, TypeOK, Session
<1>4. ASSUME NEW t \in Sessions, sessions'[t].life = "live"
      PROVE  sessions'[t].proof = password'[sessions'[t].user] \/ sessions'[t].raced
  <2>1. CASE t = s
    BY <1>1, <1>2, <2>1
  <2>2. CASE t # s
    <3>1. sessions'[t] = sessions[t] /\ t \notin requests[r].revoking
      BY <1>1, <1>3, <1>4, <2>2
    <3>2. CASE sessions[t].user = e
      BY <1>1, <1>4, <3>1, <3>2 DEF PasswordInv, ChangeSees
    <3>3. CASE sessions[t].user # e
      <4>1. sessions[t].user \in Emails
        BY <1>4, <3>1 DEF TypeInv, SessionOK, Exists
      <4>2. QED
        BY <1>2, <1>4, <3>1, <3>3, <4>1 DEF PasswordInv, OldPasswordOut
    <3>4. QED
      BY <3>2, <3>3
  <2>3. QED
    BY <2>1, <2>2
<1>5. ASSUME NEW q \in Requests PROVE (LoginKnows(q) /\ ChangeLocks(q) /\ ChangeSees(q))'
  <2>1. CASE q = r
    BY <1>1, <2>1, DoneType DEF LoginKnows, ChangeLocks, ChangeSees
  <2>2. CASE q # r /\ requests'[q] # requests[q]
    <3>1. requests'[q].phase = "login" /\ requests'[q].raced
      BY <1>1, <2>2 DEF TypeInv, TypeOK, Request
    <3>2. QED
      BY <3>1 DEF LoginKnows, ChangeLocks, ChangeSees
  <2>3. CASE q # r /\ requests'[q] = requests[q]
    <3>1. requests[q].phase \in {"login", "updated", "revoked"} => requests[q].user \in Emails
      BY DEF TypeInv, RequestOK, Exists
    <3>2. LoginKnows(q)'
      <4>1. requests[q].phase = "login" /\ requests[q].user = e => requests'[q].raced
        BY <1>1, <2>3 DEF TypeInv, TypeOK, Request
      <4>2. QED
        BY <1>2, <2>3, <3>1, <4>1 DEF PasswordInv, LoginKnows
    <3>3. requests[q].phase \in {"updated", "revoked"} => requests[q].user # e
      BY <1>1, <2>3 DEF PasswordInv, ChangeLocks
    <3>4. ChangeLocks(q)'
      BY <1>2, <2>3, <3>1, <3>3 DEF PasswordInv, ChangeLocks
    <3>5. ChangeSees(q)'
      <4>1. ASSUME NEW t \in Sessions, requests[q].phase = "revoked", sessions'[t].life = "live",
                   sessions'[t].user = requests[q].user
            PROVE  t \in requests[q].revoking \/ sessions'[t].raced
        <5>1. t # s
          BY <1>1, <3>3, <4>1
        <5>2. sessions'[t] = sessions[t]
          BY <1>1, <1>3, <4>1, <5>1
        <5>3. QED
          BY <4>1, <5>2 DEF PasswordInv, ChangeSees
      <4>2. QED
        BY <2>3, <4>1 DEF ChangeSees
    <3>6. QED
      BY <3>2, <3>4, <3>5
  <2>4. QED
    BY <2>1, <2>2, <2>3
<1>6. QED
  BY <1>4, <1>5 DEF PasswordInv, OldPasswordOut

\* Every step keeps the old password out.
LEMMA PasswordStep == ASSUME TypeInv, RevokingOK, PasswordInv, [Next]_vars PROVE PasswordInv'
<1>0. \A r \in Requests : requests[r] \in Request /\ RequestOK(requests[r])
  BY DEF TypeInv, TypeOK
<1>1. ASSUME NEW r \in Requests, UNCHANGED <<password, locked, sessions>>, requests' = [requests EXCEPT ![r] = Done]
      PROVE  PasswordInv'
  <2>1. \A q \in Requests : requests'[q] = IF q = r THEN Done ELSE requests[q]
    BY <1>1 DEF TypeInv, TypeOK
  <2>2. QED
    BY <1>1, <2>1, LessPasswords
<1>2. ASSUME NEW r \in Requests, NEW row, UNCHANGED <<password, locked, sessions>>,
             requests' = [requests EXCEPT ![r] = row],
             row.phase = "login" => row.given = password[row.user],
             row.phase \notin {"updated", "revoked"}
      PROVE  PasswordInv'
  BY <1>2, OneGoesOn DEF PasswordInv, ChangeLocks
<1>3. ASSUME NEW r \in Requests, NEW e \in Emails, NEW p \in Passwords, Login(r, e, p)
      PROVE  PasswordInv'
  <2>1. CASE password[e] = p
    <3>1. PICK row : row = [Done EXCEPT !.phase = "login", !.user = e, !.given = p]
      OBVIOUS
    <3>2. row.phase = "login" /\ row.user = e /\ row.given = p
      BY <3>1 DEF Done
    <3>3. QED
      BY <1>2, <1>3, <2>1, <3>1, <3>2 DEF Login
  <2>2. CASE password[e] # p
    BY <1>1, <1>3, <2>2 DEF Login
  <2>3. QED
    BY <2>1, <2>2
<1>4. ASSUME NEW r \in Requests, (\E t \in Tokens : Arrive(r, t)) \/ ResolveAccessToken(r) \/ Authenticate(r)
      PROVE  PasswordInv'
  <2>1. UNCHANGED <<password, locked, sessions>>
    BY <1>4 DEF Arrive, ResolveAccessToken, Authenticate
  <2>2. \E row : requests' = [requests EXCEPT ![r] = row] /\ row.phase \in {"new", "arrived", "found", "served"}
    <3>2. \A e : [requests[r] EXCEPT !.phase = "found", !.user = e].phase = "found"
      BY <1>0 DEF Request
    <3>3. [requests[r] EXCEPT !.phase = "served"].phase = "served"
      BY <1>0 DEF Request
    <3>4. ASSUME NEW t \in Tokens, Arrive(r, t)
          PROVE  \E row : requests' = [requests EXCEPT ![r] = row] /\ row.phase = "arrived"
      <4>1. [Done EXCEPT !.phase = "arrived", !.token = t, !.late = ~IsLive(t)].phase = "arrived"
        BY DEF Done
      <4>2. QED
        BY <3>4, <4>1 DEF Arrive
    <3>5. CASE ResolveAccessToken(r)
      BY <3>2, <3>5, DoneType DEF ResolveAccessToken
    <3>6. CASE Authenticate(r)
      BY <3>3, <3>6 DEF Authenticate
    <3>7. QED
      BY <1>4, <3>4, <3>5, <3>6
  <2>3. QED
    BY <1>2, <2>1, <2>2
<1>5. ASSUME NEW r \in Requests, NEW current \in Passwords, NEW next \in Passwords, ChangePassword(r, current, next)
      PROVE  PasswordInv'
  <2>1. UNCHANGED <<password, locked, sessions>>
    BY <1>5 DEF ChangePassword
  <2>2. \E row : requests' = [requests EXCEPT ![r] = row] /\ row.phase \in {"new", "change"}
    <3>1. [requests[r] EXCEPT !.phase = "change", !.given = current, !.next = next].phase = "change"
      BY <1>0 DEF Request
    <3>2. QED
      BY <1>5, <3>1, DoneType DEF ChangePassword
  <2>3. QED
    BY <1>2, <2>1, <2>2
<1>6. ASSUME NEW r \in Requests, UpdatePassword(r)
      PROVE  PasswordInv'
  <2>1. PICK row : row = [requests[r] EXCEPT !.phase = "updated"]
    OBVIOUS
  <2>2. requests' = [requests EXCEPT ![r] = row] /\ UNCHANGED <<password, sessions>>
    BY <1>6, <2>1 DEF UpdatePassword
  <2>3. row.phase = "updated" /\ row.user = requests[r].user
    BY <1>0, <2>1 DEF Request
  <2>4. PICK e \in Emails : e = requests[r].user /\ locked[e] = None /\ locked' = [locked EXCEPT ![e] = r]
    BY <1>0, <1>6 DEF UpdatePassword, RequestOK, Exists
  <2>5. locked'[e] = r /\ \A f \in Emails : f # e => locked'[f] = locked[f]
    BY <2>4 DEF TypeInv, TypeOK
  <2>6. ASSUME NEW q \in Requests, requests[q].phase \in {"updated", "revoked"}
        PROVE  locked'[requests[q].user] = q
    <3>1. requests[q].user \in Emails /\ locked[requests[q].user] = q /\ q # None
      BY <1>0, <2>6, AccountsAssumption DEF RequestOK, Exists, PasswordInv, ChangeLocks
    <3>2. QED
      BY <2>4, <2>5, <3>1
  <2>7. QED
    BY <2>2, <2>3, <2>4, <2>5, <2>6, OneGoesOn
<1>7. ASSUME NEW r \in Requests, RevokeSessions(r)
      PROVE  PasswordInv'
  <2>1. PICK row : row = [requests[r] EXCEPT !.phase = "revoked", !.revoking = RevokedBy(r)]
    OBVIOUS
  <2>2. requests' = [requests EXCEPT ![r] = row] /\ UNCHANGED <<password, sessions, locked>>
    BY <1>7, <2>1 DEF RevokeSessions
  <2>3. row.phase = "revoked" /\ row.user = requests[r].user /\ row.revoking = RevokedBy(r)
    BY <1>0, <2>1 DEF Request
  <2>4. locked'[row.user] = r
    BY <1>7, <2>2, <2>3 DEF RevokeSessions, PasswordInv, ChangeLocks
  <2>5. \A q \in Requests : q # r /\ requests[q].phase \in {"updated", "revoked"} => locked'[requests[q].user] = q
    BY <2>2 DEF PasswordInv, ChangeLocks
  <2>6. QED
    BY <2>2, <2>3, <2>4, <2>5, OneGoesOn
<1>8. ASSUME NEW r \in Requests, NEW e \in Emails, NEW p \in Passwords, Register(r, e, p)
      PROVE  PasswordInv'
  <2>1. /\ password[e] = None /\ password' = [password EXCEPT ![e] = p] /\ UNCHANGED locked
        /\ requests' = [requests EXCEPT ![r] = Done]
    BY <1>8 DEF Register
  <2>2. PICK row : row = [life |-> "live", user |-> e, proof |-> p, raced |-> FALSE]
    OBVIOUS
  <2>3. PICK s \in Sessions : sessions' = [sessions EXCEPT ![s] = row]
    BY <1>8, <2>2 DEF Register, createSession
  <2>4. row.user = e /\ row.proof = p
    BY <2>2
  <2>5. p = password'[e] /\ \A f \in Emails : password[f] # None => password'[f] = password[f]
    BY <2>1 DEF TypeInv, TypeOK
  <2>6. \A q \in Requests : requests[q].phase = "revoked" => requests[q].user # row.user
    BY <1>0, <2>1, <2>4 DEF RequestOK, Exists
  <2>7. row.proof = password'[row.user]
    BY <2>4, <2>5
  <2>8. QED
    BY <2>1, <2>3, <2>5, <2>6, <2>7, SessionOpened
<1>9. ASSUME NEW r \in Requests, OpenSession(r)
      PROVE  PasswordInv'
  <2>1. requests[r].phase = "login" /\ UNCHANGED <<password, locked>> /\ requests' = [requests EXCEPT ![r] = Done]
    BY <1>9 DEF OpenSession
  <2>2. PICK row : row = [life |-> "live", user |-> requests[r].user, proof |-> requests[r].given,
                          raced |-> requests[r].raced \/ ChangeIsCommitting(requests[r].user)]
    OBVIOUS
  <2>3. PICK s \in Sessions : sessions' = [sessions EXCEPT ![s] = row]
    BY <1>9, <2>2 DEF OpenSession, createSession
  <2>4. /\ row.user = requests[r].user /\ row.proof = requests[r].given
        /\ row.raced = (requests[r].raced \/ ChangeIsCommitting(requests[r].user))
    BY <2>2
  <2>5. row.proof = password'[row.user] \/ row.raced
    BY <2>1, <2>4 DEF PasswordInv, LoginKnows
  <2>6. \A q \in Requests : requests[q].phase = "revoked" /\ requests[q].user = row.user => row.raced
    BY <2>4 DEF ChangeIsCommitting
  <2>7. QED
    BY <2>1, <2>3, <2>5, <2>6, SessionOpened
<1>10. ASSUME NEW r \in Requests, Logout(r)
       PROVE  PasswordInv'
  <2>1. UNCHANGED <<password, locked>> /\ \A q \in Requests : requests'[q] = IF q = r THEN Done ELSE requests[q]
    BY <1>10 DEF Logout, TypeInv, TypeOK
  <2>2. \A s \in Sessions : sessions'[s] = sessions[s] \/ sessions'[s].life # "live"
    BY <1>10 DEF Logout, TypeInv, TypeOK, Session
  <2>3. QED
    BY <2>1, <2>2, LessPasswords
<1>11. ASSUME NEW t \in Tokens, Expire(t)
       PROVE  PasswordInv'
  <2>1. \A s \in Sessions : sessions'[s] = sessions[s] \/ sessions'[s].life # "live"
    BY <1>11 DEF Expire, TypeInv, TypeOK, Session
  <2>2. QED
    BY <1>11, <2>1, LessPasswords DEF Expire
<1>12. ASSUME NEW r \in Requests, End(r)
       PROVE  PasswordInv'
  <2>1. UNCHANGED <<password, sessions>> /\ \A q \in Requests : requests'[q] = IF q = r THEN Done ELSE requests[q]
    BY <1>12 DEF End, TypeInv, TypeOK
  <2>2. ASSUME NEW q \in Requests, q # r, requests[q].phase \in {"updated", "revoked"}
        PROVE  locked'[requests[q].user] = locked[requests[q].user]
    <3>1. requests[q].user \in Emails /\ locked[requests[q].user] = q
      BY <1>0, <2>2 DEF RequestOK, Exists, PasswordInv, ChangeLocks
    <3>2. QED
      BY <1>12, <2>2, <3>1 DEF End
  <2>3. QED
    BY <2>1, <2>2, LessPasswords
<1>13. CASE UNCHANGED vars
  BY <1>13, LessPasswords DEF vars
<1>14. QED
  BY <1>1, <1>3, <1>4, <1>5, <1>6, <1>7, <1>8, <1>9, <1>10, <1>11, <1>12, <1>13, PasswordCommitted
     DEF Next, Served, ErrEmailExists, CreateAPIKey, RevokeAPIKey

\* accounts.go:115: a live session was opened with the password its user has
\* now, however many changes and logins run at once; except by a login that ran
\* beside a change, and knows it.
THEOREM OldPasswordsOut == Spec => []OldPasswordOut
<1>1. Init => PasswordInv
  BY DoneType DEF Init, NoSession, PasswordInv, OldPasswordOut, LoginKnows, ChangeLocks, ChangeSees
<1>2. TypeInv /\ RevokingOK /\ PasswordInv /\ [Next]_vars => PasswordInv'
  BY PasswordStep
<1>3. PasswordInv => OldPasswordOut
  BY DEF PasswordInv
<1>4. QED
  BY <1>1, <1>2, <1>3, TypeInvariant, PTL DEF Spec
-----------------------------------------------------------------------------
(* What a token opens.  A token that was revoked or has expired never      *)
(* becomes valid again, so that a request which comes late is refused at   *)
(* the first query.                                                        *)

Gone == {"revoked", "expired"}
IsGone(t) == IF t \in Sessions THEN sessions[t].life \in Gone ELSE keys[t].life \in Gone

\* No revoked or expired token comes back.
LEMMA GoneStays == ASSUME TypeInv, [Next]_vars, NEW t \in Tokens, IsGone(t) PROVE IsGone(t)'
<1>0. sessions \in [Sessions -> Session] /\ keys \in [Keys -> Key]
  BY DEF TypeInv, TypeOK
<1>1. t \in Sessions \/ (t \notin Sessions /\ t \in Keys)
  OBVIOUS
<1>2. ASSUME NEW r \in Requests, OpenSession(r) \/ \E e \in Emails, p \in Passwords : Register(r, e, p)
      PROVE  IsGone(t)'
  BY <1>0, <1>1, <1>2 DEF OpenSession, Register, createSession, IsGone, Gone
<1>3. ASSUME NEW r \in Requests, CommitPassword(r)
      PROVE  IsGone(t)'
  <2>1. PICK s \in Sessions : sessions[s].life = "unissued" /\ \A u \in Sessions : u # s =>
            sessions'[u] = IF u \in requests[r].revoking THEN [sessions[u] EXCEPT !.life = "revoked"] ELSE sessions[u]
    BY <1>3, CommitFacts
  <2>2. \A u \in Sessions : [sessions[u] EXCEPT !.life = "revoked"].life = "revoked"
    BY <1>0 DEF Session
  <2>3. UNCHANGED keys
    BY <1>3 DEF CommitPassword
  <2>4. QED
    BY <1>1, <2>1, <2>2, <2>3 DEF IsGone, Gone
<1>4. ASSUME NEW r \in Requests, Logout(r)
      PROVE  IsGone(t)'
  BY <1>0, <1>1, <1>4 DEF Logout, Session, IsGone, Gone
<1>5. ASSUME NEW r \in Requests, CreateAPIKey(r) \/ \E k \in Keys : RevokeAPIKey(r, k)
      PROVE  IsGone(t)'
  BY <1>0, <1>1, <1>5 DEF CreateAPIKey, RevokeAPIKey, Key, IsGone, Gone
<1>6. ASSUME NEW u \in Tokens, Expire(u)
      PROVE  IsGone(t)'
  BY <1>0, <1>1, <1>6 DEF Expire, Session, Key, IsGone, Gone
<1>7. CASE UNCHANGED <<sessions, keys>>
  BY <1>7 DEF IsGone
<1>8. QED
  BY <1>2, <1>3, <1>4, <1>5, <1>6, <1>7
     DEF Next, Served, Login, ErrEmailExists, Arrive, ResolveAccessToken, Authenticate, ChangePassword,
         UpdatePassword, RevokeSessions, End, vars

\* A late request has got nowhere.
LateInv ==
    \A r \in Requests : requests[r].late =>
        requests[r].phase = "arrived" /\ requests[r].token \in Tokens /\ IsGone(requests[r].token)

\* How a request is late: it was, in the same state, or has arrived so.
LateMoves ==
    \A r \in Requests : requests'[r].late =>
        \/ requests'[r] = requests[r]
        \/ requests'[r].phase = "arrived" /\ requests'[r].token \in Tokens /\ IsGone(requests'[r].token)

\* One request moves.
LEMMA OneIsLate ==
    ASSUME TypeInv, NEW r \in Requests, NEW row, requests' = [requests EXCEPT ![r] = row],
           row.late => row.phase = "arrived" /\ row.token \in Tokens /\ IsGone(row.token)
    PROVE  LateMoves
BY DEF TypeInv, TypeOK, LateMoves

\* Every step leaves only those requests late that got nowhere.
LEMMA LatesMove == ASSUME TypeInv, LateInv, [Next]_vars PROVE LateMoves
<1>0. Done.late = FALSE /\ \A r \in Requests : requests[r] \in Request /\ RequestOK(requests[r])
  BY DoneType DEF TypeInv, TypeOK
<1>1. ASSUME NEW r \in Requests, requests' = [requests EXCEPT ![r] = Done]
      PROVE  LateMoves
  BY <1>0, <1>1, OneIsLate
<1>2. ASSUME NEW r \in Requests, requests[r].phase # "arrived", NEW row, row.late = requests[r].late,
             requests' = [requests EXCEPT ![r] = row]
      PROVE  LateMoves
  BY <1>2, OneIsLate DEF LateInv
<1>3. ASSUME NEW r \in Requests, NEW e \in Emails, NEW p \in Passwords, Login(r, e, p)
      PROVE  LateMoves
  <2>1. [Done EXCEPT !.phase = "login", !.user = e, !.given = p].late = Done.late
    BY DEF Done
  <2>2. QED
    BY <1>0, <1>1, <1>3, <2>1, OneIsLate DEF Login
<1>4. ASSUME NEW r \in Requests, NEW t \in Tokens, Arrive(r, t)
      PROVE  LateMoves
  <2>1. PICK row : row = [Done EXCEPT !.phase = "arrived", !.token = t, !.late = ~IsLive(t)]
    OBVIOUS
  <2>2. row.phase = "arrived" /\ row.token = t /\ row.late = ~IsLive(t)
    BY <2>1 DEF Done
  <2>3. UserOf(t) # None /\ requests' = [requests EXCEPT ![r] = row]
    BY <1>4, <2>1 DEF Arrive
  <2>4. ~IsLive(t) => IsGone(t)
    <3>1. CASE t \in Sessions
      BY <2>3, <3>1 DEF TypeInv, TypeOK, Session, SessionOK, UserOf, IsLive, IsGone, Gone
    <3>2. CASE t \notin Sessions
      BY <2>3, <3>2 DEF TypeInv, TypeOK, Key, KeyOK, UserOf, IsLive, IsGone, Gone
    <3>3. QED
      BY <3>1, <3>2
  <2>5. QED
    BY <2>2, <2>3, <2>4, OneIsLate
<1>5. ASSUME NEW r \in Requests, ResolveAccessToken(r)
      PROVE  LateMoves
  <2>1. CASE Accepts(requests[r].token)
    <3>1. ~requests[r].late
      BY <2>1 DEF LateInv, Accepts, IsGone, Gone
    <3>2. PICK row : row = [requests[r] EXCEPT !.phase = "found", !.user = UserOf(requests[r].token)]
      OBVIOUS
    <3>3. row.late = requests[r].late
      BY <1>0, <3>2 DEF Request
    <3>4. QED
      BY <1>5, <2>1, <3>1, <3>2, <3>3, OneIsLate DEF ResolveAccessToken
  <2>2. CASE ~Accepts(requests[r].token)
    BY <1>1, <1>5, <2>2 DEF ResolveAccessToken
  <2>3. QED
    BY <2>1, <2>2
<1>6. ASSUME NEW r \in Requests, Authenticate(r) \/ UpdatePassword(r) \/ RevokeSessions(r)
      PROVE  LateMoves
  <2>1. \A ph, rev : /\ [requests[r] EXCEPT !.phase = ph].late = requests[r].late
                     /\ [requests[r] EXCEPT !.phase = ph, !.revoking = rev].late = requests[r].late
    BY <1>0 DEF Request
  <2>2. requests[r].phase # "arrived"
    BY <1>6 DEF Authenticate, UpdatePassword, RevokeSessions
  <2>3. \E row : row.late = requests[r].late /\ requests' = [requests EXCEPT ![r] = row]
    BY <1>6, <2>1 DEF Authenticate, UpdatePassword, RevokeSessions
  <2>4. QED
    BY <1>2, <2>2, <2>3
<1>7. ASSUME NEW r \in Requests, NEW current \in Passwords, NEW next \in Passwords, ChangePassword(r, current, next)
      PROVE  LateMoves
  <2>1. [requests[r] EXCEPT !.phase = "change", !.given = current, !.next = next].late = requests[r].late
    BY <1>0 DEF Request
  <2>2. QED
    BY <1>1, <1>2, <1>7, <2>1 DEF ChangePassword
<1>8. ASSUME NEW r \in Requests, CommitPassword(r)
      PROVE  LateMoves
  <2>1. \A q \in Requests : /\ [requests[q] EXCEPT !.raced = TRUE].late = requests[q].late
                            /\ [requests[q] EXCEPT !.raced = TRUE].phase = requests[q].phase
                            /\ [requests[q] EXCEPT !.raced = TRUE].token = requests[q].token
    BY <1>0 DEF Request
  <2>2. requests'[r] = Done /\ \A q \in Requests : q # r =>
           requests'[q] = requests[q] \/ requests'[q] = [requests[q] EXCEPT !.raced = TRUE]
    BY <1>8, CommitFacts
  <2>3. QED
    BY <1>0, <2>1, <2>2 DEF LateInv, LateMoves
<1>9. CASE UNCHANGED requests
  BY <1>9 DEF LateMoves
<1>10. QED
  BY <1>1, <1>3, <1>4, <1>5, <1>6, <1>7, <1>8, <1>9
     DEF Next, Served, Register, ErrEmailExists, OpenSession, Logout, CreateAPIKey, RevokeAPIKey, End, Expire, vars

\* http/accounts.go authenticates before it serves: a request that came after
\* its token was revoked or had expired is not served.
THEOREM OnlyLiveTokensServe == Spec => []ServedByLiveToken
<1>1. Init => LateInv
  BY DoneType DEF Init, LateInv
<1>2. ASSUME TypeInv, LateInv, [Next]_vars
      PROVE  LateInv'
  <2>1. \A t \in Tokens : IsGone(t) => IsGone(t)'
    BY <1>2, GoneStays
  <2>2. LateMoves
    BY <1>2, LatesMove
  <2>3. ASSUME NEW r \in Requests, requests'[r].late
        PROVE  requests'[r].phase = "arrived" /\ requests'[r].token \in Tokens /\ IsGone(requests'[r].token)
    BY <1>2, <2>2, <2>3 DEF LateMoves, LateInv
  <2>4. ASSUME NEW r \in Requests, requests'[r].late
        PROVE  requests'[r].phase = "arrived" /\ requests'[r].token \in Tokens /\ IsGone(requests[r].token)'
    <3>1. PICK t \in Tokens : t = requests'[r].token
      BY <2>3, <2>4
    <3>2. IsGone(t)'
      BY <2>1, <2>3, <2>4, <3>1
    <3>3. QED
      BY <2>3, <2>4, <3>1, <3>2 DEF IsGone
  <2>5. QED
    BY <2>4 DEF LateInv
<1>3. LateInv => ServedByLiveToken
  BY DEF LateInv, ServedByLiveToken
<1>4. QED
  BY <1>1, <1>2, <1>3, TypeInvariant, PTL DEF Spec
=============================================================================
