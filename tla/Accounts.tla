------------------------------ MODULE Accounts -------------------------------
(***************************************************************************)
(* Accounts, login sessions and API keys (store/postgres_accounts.go), and *)
(* the check of the token every request carries (http/accounts.go).        *)
(*                                                                         *)
(* Requests run side by side.  Login reads the user and inserts its        *)
(* session later, unlocked; ChangePassword is one transaction: it reads    *)
(* the user unlocked, updates the row and holds its lock until it commits, *)
(* and revokes the sessions it can see.  Each statement sees what is       *)
(* committed when it starts.  A user's status is never changed: all are    *)
(* active.                                                                 *)
(***************************************************************************)
EXTENDS Naturals

CONSTANTS Emails,     \* users are named by their unique address
          Passwords,
          Sessions,   \* bound: the session tokens (hs_) ever issued
          Keys,       \* bound: the API keys (hm_) ever issued
          Requests,   \* bound: the requests that may run at the same time
          None        \* no password, no user, no token

ASSUME AccountsAssumption ==
    /\ None \notin Emails \cup Passwords \cup Sessions \cup Keys \cup Requests
    /\ Sessions \cap Keys = {}   \* the two kinds of tokens begin differently

VARIABLES password,   \* users.password_hash, None where there is no user
          locked,     \* the request whose transaction holds the user's row
          sessions,   \* the table sessions
          keys,       \* the table api_keys
          requests    \* the requests, with the statements they have reached

vars == <<password, locked, sessions, keys, requests>>

Tokens == Sessions \cup Keys
Life == {"unissued", "live", "revoked", "expired"}

\* proof is the password the session was opened with, raced whether its login
\* ran while the password was being changed.
Session == [life : Life, user : Emails \cup {None}, proof : Passwords \cup {None}, raced : BOOLEAN]
Key == [life : Life, user : Emails \cup {None}]

\* late: the token was not valid any more when the request arrived.  revoking
\* is what ChangePassword's UPDATE of the sessions has revoked, not committed.
Request == [phase : {"new", "login", "arrived", "found", "change", "updated", "revoked", "served"},
            user : Emails \cup {None}, token : Tokens \cup {None},
            given : Passwords \cup {None}, next : Passwords \cup {None},
            revoking : SUBSET Sessions, raced : BOOLEAN, late : BOOLEAN]

NoSession == [life |-> "unissued", user |-> None, proof |-> None, raced |-> FALSE]
NoKey == [life |-> "unissued", user |-> None]
Done == [phase |-> "new", user |-> None, token |-> None, given |-> None, next |-> None,
         revoking |-> {}, raced |-> FALSE, late |-> FALSE]

Init ==
    /\ password = [e \in Emails |-> None]
    /\ locked = [e \in Emails |-> None]
    /\ sessions = [s \in Sessions |-> NoSession]
    /\ keys = [k \in Keys |-> NoKey]
    /\ requests = [r \in Requests |-> Done]

-----------------------------------------------------------------------------
\* createSession: 32 random bytes, valid for seven days.
createSession(table, s, e, proof, raced) ==
    [table EXCEPT ![s] = [life |-> "live", user |-> e, proof |-> proof, raced |-> raced]]

Register(r, e, p) ==
    /\ requests[r].phase = "new"
    /\ password[e] = None
    /\ password' = [password EXCEPT ![e] = p]
    /\ \E s \in Sessions :
          /\ sessions[s].life = "unissued"
          /\ sessions' = createSession(sessions, s, e, p, FALSE)
    /\ requests' = [requests EXCEPT ![r] = Done]
    /\ UNCHANGED <<locked, keys>>

\* Another registration of the address has committed first.
ErrEmailExists(r, e) ==
    /\ requests[r].phase = "new"
    /\ password[e] # None
    /\ requests' = [requests EXCEPT ![r] = Done]
    /\ UNCHANGED <<password, locked, sessions, keys>>

\* The password matches the hash read, or the request is refused.
Login(r, e, p) ==
    /\ requests[r].phase = "new"
    /\ requests' = [requests EXCEPT ![r] =
          IF password[e] = p THEN [Done EXCEPT !.phase = "login", !.user = e, !.given = p] ELSE Done]
    /\ UNCHANGED <<password, locked, sessions, keys>>

\* Whether a ChangePassword of the user has taken its snapshot of the sessions.
ChangeIsCommitting(e) == \E r \in Requests : requests[r].phase = "revoked" /\ requests[r].user = e

OpenSession(r) ==
    LET k == requests[r] IN
    /\ k.phase = "login"
    /\ \E s \in Sessions :
          /\ sessions[s].life = "unissued"
          /\ sessions' = createSession(sessions, s, k.user, k.given, k.raced \/ ChangeIsCommitting(k.user))
    /\ requests' = [requests EXCEPT ![r] = Done]
    /\ UNCHANGED <<password, locked, keys>>

-----------------------------------------------------------------------------
(* authenticate and ResolveAccessToken *)

IsLive(t) == IF t \in Sessions THEN sessions[t].life = "live" ELSE keys[t].life = "live"
UserOf(t) == IF t \in Sessions THEN sessions[t].user ELSE keys[t].user

\* A request comes with a token that was issued; the client may have been told
\* in the meantime that it is not valid any more.
Arrive(r, t) ==
    /\ requests[r].phase = "new"
    /\ UserOf(t) # None
    /\ requests' = [requests EXCEPT ![r] = [Done EXCEPT !.phase = "arrived", !.token = t, !.late = ~IsLive(t)]]
    /\ UNCHANGED <<password, locked, sessions, keys>>

\* Mutant: an API key is looked up by its secret alone.
AcceptsUnrevoked(t) == IF t \in Sessions THEN sessions[t].life = "live" ELSE TRUE

\* What the query for the token's row asks: not revoked, not expired.
Accepts(t) == IF t \in Sessions THEN sessions[t].life = "live" ELSE keys[t].life = "live"

\* The query for the token, or the 401.
ResolveAccessToken(r) ==
    LET k == requests[r] IN
    /\ k.phase = "arrived"
    /\ requests' = [requests EXCEPT ![r] =
          IF Accepts(k.token) THEN [k EXCEPT !.phase = "found", !.user = UserOf(k.token)] ELSE Done]
    /\ UNCHANGED <<password, locked, sessions, keys>>

\* The query for the user; the request is served.
Authenticate(r) ==
    LET k == requests[r] IN
    /\ k.phase = "found"
    /\ password[k.user] # None
    /\ requests' = [requests EXCEPT ![r].phase = "served"]
    /\ UNCHANGED <<password, locked, sessions, keys>>

-----------------------------------------------------------------------------
(* What a served request may do *)

Logout(r) ==
    LET t == requests[r].token IN
    /\ requests[r].phase = "served"
    /\ sessions' = IF t \in Sessions /\ sessions[t].life = "live" THEN [sessions EXCEPT ![t].life = "revoked"] ELSE sessions
    /\ requests' = [requests EXCEPT ![r] = Done]
    /\ UNCHANGED <<password, locked, keys>>

CreateAPIKey(r) ==
    /\ requests[r].phase = "served"
    /\ \E k \in Keys :
          /\ keys[k].life = "unissued"
          /\ keys' = [keys EXCEPT ![k] = [life |-> "live", user |-> requests[r].user]]
    /\ requests' = [requests EXCEPT ![r] = Done]
    /\ UNCHANGED <<password, locked, sessions>>

\* The WHERE of RevokeAPIKey; an expired key can be revoked as well.
Revocable(k, e) == keys[k].user = e /\ keys[k].life \in {"live", "expired"}

RevokeAPIKey(r, k) ==
    /\ requests[r].phase = "served"
    /\ keys' = IF Revocable(k, requests[r].user) THEN [keys EXCEPT ![k].life = "revoked"] ELSE keys
    /\ requests' = [requests EXCEPT ![r] = Done]
    /\ UNCHANGED <<password, locked, sessions>>

\* ChangePassword reads the user and compares the current password with what it read.
ChangePassword(r, current, next) ==
    LET k == requests[r] IN
    /\ k.phase = "served"
    /\ requests' = [requests EXCEPT ![r] =
          IF password[k.user] = current THEN [k EXCEPT !.phase = "change", !.given = current, !.next = next] ELSE Done]
    /\ UNCHANGED <<password, locked, sessions, keys>>

\* The UPDATE of the user waits for the lock of another change.
UpdatePassword(r) ==
    LET k == requests[r] IN
    /\ k.phase = "change"
    /\ locked[k.user] = None
    /\ locked' = [locked EXCEPT ![k.user] = r]
    /\ requests' = [requests EXCEPT ![r].phase = "updated"]
    /\ UNCHANGED <<password, sessions, keys>>

\* Mutant: only the session that asked is revoked.
RevokedByAsker(r) == {s \in Sessions : s = requests[r].token /\ sessions[s].life = "live"}

\* user_id = ? AND revoked_at IS NULL
RevokedBy(r) == {s \in Sessions : sessions[s].user = requests[r].user /\ sessions[s].life \in {"live", "expired"}}

RevokeSessions(r) ==
    /\ requests[r].phase = "updated"
    /\ requests' = [requests EXCEPT ![r] = [@ EXCEPT !.phase = "revoked", !.revoking = RevokedBy(r)]]
    /\ UNCHANGED <<password, locked, sessions, keys>>

\* The transaction commits: the new password, the revoked sessions and the
\* session of the answer.  A login of this user in progress has read the old one.
CommitPassword(r) ==
    LET k == requests[r]
        left == [s \in Sessions |-> IF s \in k.revoking THEN [sessions[s] EXCEPT !.life = "revoked"] ELSE sessions[s]] IN
    /\ k.phase = "revoked"
    /\ password' = [password EXCEPT ![k.user] = k.next]
    /\ \E s \in Sessions :
          /\ sessions[s].life = "unissued"
          /\ sessions' = createSession(left, s, k.user, k.next, FALSE)
    /\ locked' = [locked EXCEPT ![k.user] = None]
    /\ requests' = [q \in Requests |->
          IF q = r THEN Done
          ELSE IF requests[q].phase = "login" /\ requests[q].user = k.user THEN [requests[q] EXCEPT !.raced = TRUE]
          ELSE requests[q]]
    /\ UNCHANGED keys

\* The request has nothing more to do, fails, or the process stops: an open
\* transaction is rolled back.
End(r) ==
    /\ requests[r].phase # "new"
    /\ requests' = [requests EXCEPT ![r] = Done]
    /\ locked' = [e \in Emails |-> IF locked[e] = r THEN None ELSE locked[e]]
    /\ UNCHANGED <<password, sessions, keys>>

\* A session's seven days are over, or a key's expires_at is reached.
Expire(t) ==
    /\ IsLive(t)
    /\ \/ /\ t \in Sessions
          /\ sessions' = [sessions EXCEPT ![t].life = "expired"]
          /\ UNCHANGED keys
       \/ /\ t \in Keys
          /\ keys' = [keys EXCEPT ![t].life = "expired"]
          /\ UNCHANGED sessions
    /\ UNCHANGED <<password, locked, requests>>

-----------------------------------------------------------------------------
Served(r) ==
    \/ Logout(r)
    \/ CreateAPIKey(r)
    \/ \E k \in Keys : RevokeAPIKey(r, k)
    \/ \E current, next \in Passwords : ChangePassword(r, current, next)

Next ==
    \/ \E r \in Requests :
          \/ \E e \in Emails, p \in Passwords : Register(r, e, p) \/ Login(r, e, p)
          \/ \E e \in Emails : ErrEmailExists(r, e)
          \/ OpenSession(r)
          \/ \E t \in Tokens : Arrive(r, t)
          \/ ResolveAccessToken(r) \/ Authenticate(r)
          \/ Served(r)
          \/ UpdatePassword(r) \/ RevokeSessions(r) \/ CommitPassword(r)
          \/ End(r)
    \/ \E t \in Tokens : Expire(t)

Spec == Init /\ [][Next]_vars

-----------------------------------------------------------------------------
(* Properties *)

\* Every variable has its type.
TypeOK ==
    /\ password \in [Emails -> Passwords \cup {None}]
    /\ locked \in [Emails -> Requests \cup {None}]
    /\ sessions \in [Sessions -> Session]
    /\ keys \in [Keys -> Key]
    /\ requests \in [Requests -> Request]

\* accounts.go:115: changing the password revokes the old sessions.  A live
\* session was opened with the password its user has now, also when two changes
\* run at once; except by a login that ran beside the change.
OldPasswordOut ==
    \A s \in Sessions :
        sessions[s].life = "live" => sessions[s].proof = password[sessions[s].user] \/ sessions[s].raced

\* A request that arrives after its token was revoked or has expired is not
\* served, however the revocation and the queries interleave.  One that has
\* arrived before, and found its token, is served although the token is revoked
\* before the second query (postgres_accounts.go:74).
ServedByLiveToken == \A r \in Requests : requests[r].phase = "served" => ~requests[r].late
=============================================================================
