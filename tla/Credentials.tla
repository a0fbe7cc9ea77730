----------------------------- MODULE Credentials -----------------------------
(***************************************************************************)
(* The credential of one mailbox and those who use it: the mail worker     *)
(* (poll), the verifier (verify), a request for messages or a history scan *)
(* (read), an administrator's edit of the mailbox (edit), an import and    *)
(* the callback of an OAuth authorization.                                 *)
(*                                                                         *)
(* Each call reads the whole encrypted credential, may refresh its tokens  *)
(* at the provider and writes the whole back; nothing is locked in         *)
(* between.  The provider may rotate the refresh token at each use, which  *)
(* makes the one in the table worthless until the call has written the new *)
(* one.  The history variable lost records that a write replaced a         *)
(* credential changed since it was read; dropped, that a token never       *)
(* reached the table after it was issued, or was revoked.                  *)
(***************************************************************************)
EXTENDS Naturals

CONSTANTS Calls,      \* bound: the calls ever made
          States,     \* bound: the OAuth states ever issued; each names its callback
          Kinds,      \* the kinds of credential the mailbox may start with
          MaxTokens   \* bound: the tokens ever issued

Kind == {"imap_oauth", "graph", "gmail"}

ASSUME ConstantsAssumption ==
    /\ Kinds \subseteq Kind
    /\ MaxTokens \in Nat \ {0}

VARIABLES stored,      \* mailboxes.encrypted_credential
          connection,  \* mailboxes.connection_method
          status,      \* mailboxes.verification_status
          calls,       \* the progress of each call
          oauth,       \* the OAuth states in Redis and their callbacks
          issued,      \* the provider: tokens issued so far
          valid,       \* the provider: refresh tokens it accepts
          age,         \* the time each access token has left
          lost, dropped

vars == <<stored, connection, status, calls, oauth, issued, valid, age, lost, dropped>>
provider == <<issued, valid, age>>

-----------------------------------------------------------------------------
(* refresh and access are token numbers, 0 is none; expires_at is told by  *)
(* the age of the access token: over 5 minutes left, less, or none.        *)

Tokens == 1 .. MaxTokens
Age == {"fresh", "soon", "expired"}
Credential == [kind : Kind, refresh : Tokens, access : 0 .. MaxTokens, password : BOOLEAN,
               method : {"unset", "oauth", "password"}]

Connection == {"auto", "imap", "graph"}
Status == {"pending_verification", "verified", "failed"}
Route == {"gmail", "password", "imap", "graph"}

\* begun: about to refresh; save: refreshed, not written; ready: about to use
\* the token; fallback: about to try the password; method: about to write the
\* credential that worked; good, bad: about to write the verdict.  base is the
\* row the call read or last wrote, usable whether its access token was good
\* when the call began, hit whether something failed that is not the
\* credential's fault, row the rest of the row an edit has read.
Call == [op : {"poll", "verify", "read", "edit"}, route : Route,
         phase : {"idle", "begun", "save", "ready", "fallback", "method", "good", "bad", "done"},
         base : Credential, config : Credential, usable : BOOLEAN, refreshed : BOOLEAN,
         imap : BOOLEAN, hit : BOOLEAN,
         row : [connection : Connection, status : Status]]

NewCredential(kind, password, access, g) ==
    [kind |-> kind, refresh |-> g, access |-> access, password |-> password, method |-> "unset"]

NoCall == LET blank == NewCredential("graph", FALSE, 0, 1) IN
    [op |-> "read", route |-> "graph", phase |-> "idle", base |-> blank, config |-> blank,
     usable |-> FALSE, refreshed |-> FALSE, imap |-> FALSE, hit |-> FALSE,
     row |-> [connection |-> "auto", status |-> "verified"]]

Done == [NoCall EXCEPT !.phase = "done"]
NoCallback == [phase |-> "absent", token |-> 0]

Init ==
    /\ \E kind \in Kinds, password \in BOOLEAN :
          /\ kind = "gmail" => ~password
          /\ stored = NewCredential(kind, password, 1, 1)
    /\ connection = "auto"
    /\ status = "verified"
    /\ calls = [a \in Calls |-> NoCall]
    /\ oauth = [t \in States |-> NoCallback]
    /\ issued = 1
    /\ valid = {1}
    /\ age = [g \in Tokens |-> "fresh"]
    /\ lost = FALSE
    /\ dropped = FALSE

\* supportsMicrosoftGraph, isMicrosoftIMAPPassword, isMicrosoftIMAPOAuth, and
\* the mailboxes that are read by IMAP since Graph has failed.
RouteOf(c, method) ==
    IF c.kind = "gmail" THEN "gmail"
    ELSE IF c.method = "password" THEN "password"
    ELSE IF c.kind = "imap_oauth" THEN "imap"
    ELSE IF method = "imap" THEN "password" ELSE "graph"

Usable(c) == c.access # 0 /\ age[c.access] # "expired"

\* Mutant: the mail worker refreshes only what it lacks.
RefreshesMissing(op, route, c) ==
    route # "password" /\ (c.access = 0 \/ (op # "poll" /\ age[c.access] = "expired"))

\* The mail worker refreshes Microsoft tokens five minutes early and Google
\* tokens not at all; the others refresh what has expired.
NeedsRefresh(op, route, c) ==
    CASE route = "password" -> FALSE
      [] op = "poll" -> route # "gmail" /\ (c.access = 0 \/ age[c.access] # "fresh")
      [] OTHER -> c.access = 0 \/ age[c.access] = "expired"

\* Mutant: the refresh token of the answer is not kept.
mergeAccessOnly(c, refresh, access) == [c EXCEPT !.access = access]

\* The tokens of the provider's answer replace those of the credential.
mergeCredential(c, refresh, access) == [c EXCEPT !.refresh = refresh, !.access = access]

-----------------------------------------------------------------------------
(* The provider and the clock *)

GetOlder(g) ==
    /\ g <= issued
    /\ age[g] # "expired"
    /\ age' = [age EXCEPT ![g] = IF age[g] = "fresh" THEN "soon" ELSE "expired"]
    /\ UNCHANGED <<stored, connection, status, calls, oauth, issued, valid, lost, dropped>>

\* The owner withdraws the consent.
Revoke ==
    /\ valid # {}
    /\ valid' = {}
    /\ dropped' = TRUE
    /\ UNCHANGED <<stored, connection, status, calls, oauth, issued, age, lost>>

-----------------------------------------------------------------------------
(* A call *)

Proceed(a, phase) == calls' = [calls EXCEPT ![a].phase = phase]

\* Something has failed; unless the credential explains it, the call was hit.
Fail(a, phase, explained) ==
    calls' = [calls EXCEPT ![a] = [@ EXCEPT !.phase = phase, !.hit = calls[a].hit \/ ~explained]]

Begin(a, op) ==
    LET route == RouteOf(stored, connection) IN
    /\ calls[a].phase = "idle"
    /\ op = "poll" => status = "verified"
    /\ calls' = [calls EXCEPT ![a] = [NoCall EXCEPT !.op = op, !.route = route, !.base = stored, !.config = stored,
            !.imap = (route # "graph"), !.usable = Usable(stored),
            !.row = IF op = "edit" THEN [connection |-> connection, status |-> status] ELSE NoCall.row,
            !.phase = IF op = "edit" THEN "save"
                      ELSE IF route = "password" THEN "fallback"
                      ELSE IF NeedsRefresh(op, route, stored) THEN "begun" ELSE "ready"]]
    /\ UNCHANGED <<stored, connection, status, oauth, provider, lost, dropped>>

\* The token endpoint accepts the refresh token and answers with an access
\* token; some tenants rotate the refresh token too.
RefreshCredential(a) ==
    LET c == calls[a].config
        g == issued + 1 IN
    /\ calls[a].phase = "begun"
    /\ c.refresh \in valid
    /\ g \in Tokens
    /\ issued' = g
    /\ \E refresh \in {c.refresh, g} :
          /\ valid' = (valid \ {c.refresh}) \cup {refresh}
          /\ calls' = [calls EXCEPT ![a] = [@ EXCEPT !.phase = "save", !.refreshed = TRUE,
                                                     !.config = mergeCredential(c, refresh, g)]]
    /\ UNCHANGED <<stored, connection, status, oauth, age, lost, dropped>>

\* It refuses the token, or cannot be reached.
RefreshFails(a) ==
    /\ calls[a].phase = "begun"
    /\ Fail(a, "fallback", calls[a].config.refresh \notin valid)
    /\ UNCHANGED <<stored, connection, status, oauth, provider, lost, dropped>>

\* The whole credential is written, whatever the row holds now.
UpdateMailboxCredential(a) ==
    /\ stored' = calls[a].config
    /\ lost' = (lost \/ stored \notin {calls[a].base, calls[a].config})

\* After a refresh.
Save(a) ==
    /\ calls[a].phase = "save"
    /\ calls[a].op # "edit"
    /\ UpdateMailboxCredential(a)
    /\ calls' = [calls EXCEPT ![a] = [@ EXCEPT !.phase = "ready", !.base = calls[a].config]]
    /\ UNCHANGED <<connection, status, oauth, provider, dropped>>

\* SaveMailbox without a credential writes back the whole row it has read.
SaveMailbox(a) ==
    /\ calls[a].phase = "save"
    /\ calls[a].op = "edit"
    /\ UpdateMailboxCredential(a)
    /\ connection' = calls[a].row.connection
    /\ status' = calls[a].row.status
    /\ calls' = [calls EXCEPT ![a] = Done]
    /\ UNCHANGED <<oauth, provider, dropped>>

\* The write fails: the mail worker's Graph branch goes on with the new token,
\* the others give OAuth up.
SaveFails(a) ==
    /\ calls[a].phase = "save"
    /\ calls[a].op # "edit"
    /\ Fail(a, IF calls[a].op = "poll" /\ calls[a].route = "graph" THEN "ready" ELSE "fallback", FALSE)
    /\ dropped' = TRUE
    /\ UNCHANGED <<stored, connection, status, oauth, provider, lost>>

\* The token opens the inbox.  The first verification by IMAP OAuth notes it;
\* by Graph, a verification that has not refreshed writes back what it read.
UseToken(a) ==
    LET k == calls[a]
        first == k.op = "verify" /\ k.route = "imap" /\ k.config.method = "unset"
        again == k.op = "verify" /\ k.route = "graph" /\ ~k.refreshed IN
    /\ k.phase = "ready"
    /\ Usable(k.config)
    /\ calls' = [calls EXCEPT ![a] = [@ EXCEPT !.phase = IF first \/ again THEN "method" ELSE "good",
                                               !.config.method = IF first THEN "oauth" ELSE k.config.method]]
    /\ UNCHANGED <<stored, connection, status, oauth, provider, lost, dropped>>

\* It does not, or the provider cannot be reached: the verifier refreshes a
\* Graph token once more.
UseTokenFails(a) ==
    LET k == calls[a] IN
    /\ k.phase = "ready"
    /\ Fail(a, IF k.op = "verify" /\ k.route = "graph" /\ ~k.refreshed THEN "begun" ELSE "fallback",
            ~k.usable /\ ~k.refreshed)
    /\ UNCHANGED <<stored, connection, status, oauth, provider, lost, dropped>>

\* The mail worker goes back to the password for a Graph mailbox only once no
\* error is left, which is never: it turns to IMAP and reads nothing.
PasswordUntried(k) == k.op = "poll" /\ k.route = "graph"

\* The IMAP password.  When it stands in for IMAP OAuth the choice is written
\* down, so that later calls do not try the tokens again.
UsePassword(a) ==
    LET k == calls[a] IN
    /\ k.phase = "fallback"
    /\ k.config.password
    /\ ~PasswordUntried(k)
    /\ calls' = [calls EXCEPT ![a] = [@ EXCEPT !.imap = TRUE,
                                               !.phase = IF k.route = "imap" THEN "method" ELSE "good",
                                               !.config.method = IF k.route = "imap" THEN "password" ELSE k.config.method]]
    /\ UNCHANGED <<stored, connection, status, oauth, provider, lost, dropped>>

\* There is no password, or logging in fails.
UsePasswordFails(a) ==
    LET k == calls[a] IN
    /\ k.phase = "fallback"
    /\ calls' = [calls EXCEPT ![a] = [@ EXCEPT !.phase = "bad",
                                               !.imap = k.imap \/ k.config.password,
                                               !.hit = k.hit \/ (k.config.password /\ ~PasswordUntried(k))]]
    /\ UNCHANGED <<stored, connection, status, oauth, provider, lost, dropped>>

persistIMAPAuthMethod(a) ==
    /\ calls[a].phase = "method"
    /\ UpdateMailboxCredential(a)
    /\ calls' = [calls EXCEPT ![a] = [@ EXCEPT !.phase = "good", !.base = calls[a].config]]
    /\ UNCHANGED <<connection, status, oauth, provider, dropped>>

persistFails(a) ==
    /\ calls[a].phase = "method"
    /\ Fail(a, IF calls[a].config.method = "password" THEN "bad" ELSE "fallback", FALSE)
    /\ UNCHANGED <<stored, connection, status, oauth, provider, lost, dropped>>

\* UpdateMailboxVerification: the verifier always writes its verdict, the mail
\* worker when it fails or has read a Microsoft mailbox by IMAP; reading
\* messages writes none.
Verdict(a) ==
    LET k == calls[a]
        by == IF k.imap THEN "imap" ELSE "graph" IN
    /\ k.phase \in {"good", "bad"}
    /\ \/ /\ k.op = "read" \/ (k.op = "poll" /\ k.phase = "good" /\ (~k.imap \/ k.route = "gmail"))
          /\ UNCHANGED <<status, connection>>
       \/ /\ k.op = "verify" \/ (k.op = "poll" /\ k.phase = "good" /\ k.imap /\ k.route # "gmail")
          /\ k.phase = "good"
          /\ status' = "verified"
          /\ connection' = by
       \/ /\ k.op \in {"verify", "poll"}
          /\ k.phase = "bad"
          /\ status' = "failed"
          /\ connection' = IF k.op = "poll" THEN by ELSE "auto"
    /\ calls' = [calls EXCEPT ![a] = Done]
    /\ UNCHANGED <<stored, oauth, provider, lost, dropped>>

\* The process stops, or the client goes away.
Crash(a) ==
    /\ calls[a].phase \notin {"idle", "done"}
    /\ calls' = [calls EXCEPT ![a] = Done]
    /\ dropped' = (dropped \/ (calls[a].phase = "save" /\ calls[a].op # "edit"))
    /\ UNCHANGED <<stored, connection, status, oauth, provider, lost>>

-----------------------------------------------------------------------------
(* New credentials *)

\* SaveMailbox with a credential: it replaces the one stored, and the mailbox
\* is to be verified again.  (An administrator's edit may bring a credential and
\* leave the status: see EditMailbox in VerificationQueue.)
NewGrant(c) ==
    /\ stored' = c
    /\ connection' = "auto"
    /\ status' = "pending_verification"

\* An imported Microsoft record with a client id and a refresh token is of the
\* IMAP protocol, unless it says otherwise; it comes without an access token.
ImportedKind(protocol) == IF protocol \in {"unset", "imap"} THEN "imap_oauth" ELSE "graph"

Import(protocol, password) ==
    /\ stored.kind # "gmail"
    /\ issued + 1 \in Tokens
    /\ NewGrant(NewCredential(ImportedKind(protocol), password, 0, issued + 1))
    /\ issued' = issued + 1
    /\ valid' = valid \cup {issued + 1}
    /\ UNCHANGED <<calls, oauth, age, lost, dropped>>

CreateOAuthState(t) ==
    /\ oauth[t].phase = "absent"
    /\ oauth' = [oauth EXCEPT ![t].phase = "issued"]
    /\ UNCHANGED <<stored, connection, status, calls, provider, lost, dropped>>

\* The callback takes the state out of Redis (GETDEL).
ConsumeOAuthState(t) ==
    /\ oauth[t].phase = "issued"
    /\ oauth' = [oauth EXCEPT ![t].phase = "consumed"]
    /\ UNCHANGED <<stored, connection, status, calls, provider, lost, dropped>>

\* The authorization code is exchanged for tokens and the account's address is checked.
Exchange(t) ==
    /\ oauth[t].phase = "consumed"
    /\ issued + 1 \in Tokens
    /\ issued' = issued + 1
    /\ valid' = valid \cup {issued + 1}
    /\ oauth' = [oauth EXCEPT ![t] = [phase |-> "exchanged", token |-> issued + 1]]
    /\ UNCHANGED <<stored, connection, status, calls, age, lost, dropped>>

SaveAuthorization(t) ==
    /\ oauth[t].phase = "exchanged"
    /\ NewGrant(NewCredential(IF stored.kind = "gmail" THEN "gmail" ELSE "graph", FALSE, oauth[t].token, oauth[t].token))
    /\ oauth' = [oauth EXCEPT ![t] = [phase |-> "gone", token |-> 0]]
    /\ UNCHANGED <<calls, provider, lost, dropped>>

\* The state expires after ten minutes, or a step of the callback fails: the
\* administrator has to start again.
AbandonAuthorization(t) ==
    /\ oauth[t].phase \in {"issued", "consumed", "exchanged"}
    /\ oauth' = [oauth EXCEPT ![t] = [phase |-> "gone", token |-> 0]]
    /\ UNCHANGED <<stored, connection, status, calls, provider, lost, dropped>>

-----------------------------------------------------------------------------
CallStep(a) ==
    \/ \E op \in {"poll", "verify", "read", "edit"} : Begin(a, op)
    \/ RefreshCredential(a) \/ RefreshFails(a)
    \/ Save(a) \/ SaveMailbox(a) \/ SaveFails(a)
    \/ UseToken(a) \/ UseTokenFails(a)
    \/ UsePassword(a) \/ UsePasswordFails(a)
    \/ persistIMAPAuthMethod(a) \/ persistFails(a)
    \/ Verdict(a)
    \/ Crash(a)

OAuthStep(t) ==
    \/ CreateOAuthState(t) \/ ConsumeOAuthState(t) \/ Exchange(t)
    \/ SaveAuthorization(t) \/ AbandonAuthorization(t)

Next ==
    \/ \E g \in Tokens : GetOlder(g)
    \/ Revoke
    \/ \E a \in Calls : CallStep(a)
    \/ \E t \in States : OAuthStep(t)
    \/ \E protocol \in {"unset", "imap", "graph"}, password \in BOOLEAN : Import(protocol, password)

Spec == Init /\ [][Next]_vars

-----------------------------------------------------------------------------
(* Properties *)

\* Every variable has its type.
TypeOK ==
    /\ stored \in Credential
    /\ connection \in Connection
    /\ status \in Status
    /\ calls \in [Calls -> Call]
    /\ oauth \in [States -> [phase : {"absent", "issued", "consumed", "exchanged", "gone"}, token : 0 .. MaxTokens]]
    /\ issued \in Tokens
    /\ valid \subseteq 1 .. issued
    /\ age \in [Tokens -> Age]
    /\ lost \in BOOLEAN /\ dropped \in BOOLEAN

\* verification.go:141: a tenant may rotate the refresh token.  The table holds
\* one the provider accepts, except while a call carries the one that replaces
\* it; only a write over a credential changed meanwhile, a write that fails, a
\* crash in between or the provider can lose it.
GrantKept ==
    \/ lost \/ dropped
    \/ stored.refresh \in valid
    \/ \E a \in Calls : calls[a].phase = "save" /\ calls[a].op # "edit" /\ calls[a].config.refresh \in valid

\* What opens a mailbox: a refresh token the provider accepts, unless the
\* mailbox is read by password alone, and a password.
Opens(k, c) ==
    \/ c.refresh \in valid /\ k.route # "password"
    \/ c.password

\* Verifications of every mailbox, and what the mail worker reads by IMAP of
\* Microsoft.  Its other polls do break the rule: by Graph they never come to
\* the password (PasswordTried), and of Gmail they never refresh, although
\* CHANGELOG.md:568 promises it for verifying and receiving.
ReadsAllItCan(k) == k.op = "verify" \/ k.route \in {"imap", "password"}

Condemns(a) ==
    /\ calls[a].phase = "bad" /\ calls[a].op # "read"
    /\ calls'[a].phase = "done" /\ status' = "failed"
    /\ ~calls[a].hit
    /\ stored = calls[a].base

\* A verification, and a poll by IMAP, condemn a mailbox only when nothing in
\* its credential opens it any more, whatever else refreshed, replaced or
\* rotated tokens meanwhile; unless a server failed in the call itself, or the
\* credential was replaced since the call read it (hit and base in Condemns).
CondemnedWithCause ==
    [][\A a \in Calls : Condemns(a) /\ ReadsAllItCan(calls[a]) => ~Opens(calls[a], stored)]_vars

\* CHANGELOG.md:720: when the Graph authorization has failed, a mailbox with a
\* password is read by IMAP.  So no call condemns it before its password failed.
PasswordTried == [][\A a \in Calls : Condemns(a) => ~stored.password]_vars
=============================================================================
