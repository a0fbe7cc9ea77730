-------------------------- MODULE CredentialsProofs --------------------------
(***************************************************************************)
(* Credentials for any number of calls, authorizations and tokens: a       *)
(* refresh token is lost only in the ways lost and dropped record          *)
(* (GrantKept), and a mailbox is condemned for a reason                    *)
(* (CondemnedWithCause).                                                   *)
(***************************************************************************)
EXTENDS Credentials, TLAPS

-----------------------------------------------------------------------------
(* Types, and what holds of a call between its steps.                      *)

\* Nobody knows a token before it is issued.
Known ==
    /\ stored.refresh <= issued
    /\ \A a \in Calls : calls[a].base.refresh <= issued /\ calls[a].config.refresh <= issued
    /\ \A t \in States : oauth[t].token <= issued /\ (oauth[t].phase = "exchanged" => oauth[t].token # 0)

\* A call that has not refreshed has the refresh token it has read.  It comes
\* to use an access token that is no good only if it cannot refresh.
CallOK(k) ==
    /\ k.config.password = k.base.password
    /\ k.phase = "begun" => ~k.refreshed
    /\ k.op = "edit" => k.phase = "save"
    /\ k.phase = "save" /\ k.op = "edit" => k.config = k.base
    /\ k.phase = "save" /\ k.op # "edit" => k.refreshed
    /\ ~k.refreshed => k.config.refresh = k.base.refresh
    /\ k.phase = "ready" /\ ~k.refreshed /\ ~k.usable => k.op = "poll" /\ k.route = "gmail"

TypeInv == TypeOK /\ Known /\ \A a \in Calls : CallOK(calls[a])

KnownTo(k, g) == k.base.refresh <= g /\ k.config.refresh <= g

LEMMA NoCallOK ==
    /\ NoCall \in Call /\ CallOK(NoCall) /\ NoCall.op = "read" /\ NoCall.phase = "idle"
    /\ NoCall.base.refresh = 1 /\ NoCall.config.refresh = 1
<1>1. 1 \in Tokens
  BY ConstantsAssumption DEF Tokens
<1>2. NewCredential("graph", FALSE, 0, 1) \in Credential /\ NewCredential("graph", FALSE, 0, 1).refresh = 1
  BY <1>1, ConstantsAssumption DEF NewCredential, Credential, Kind, Tokens
<1>3. QED
  BY <1>2 DEF NoCall, Call, CallOK, Route, Connection, Status

LEMMA DoneOK == Done \in Call /\ CallOK(Done) /\ Done.base.refresh = 1 /\ Done.config.refresh = 1 /\ Done.phase = "done"
  BY NoCallOK DEF Done, Call, CallOK

\* Only Begin gives a call another route or operation than it had.
LEMMA BeginTypes ==
    ASSUME TypeInv, NEW a \in Calls, NEW op \in {"poll", "verify", "read", "edit"}, Begin(a, op)
    PROVE  /\ calls'[a] \in Call
           /\ calls' = [calls EXCEPT ![a] = calls'[a]]
           /\ CallOK(calls'[a])
           /\ KnownTo(calls'[a], issued)
           /\ calls'[a].config = stored
           /\ calls'[a].base = stored
           /\ calls'[a].phase \in {"save", "fallback", "begun", "ready"}
           /\ calls'[a].phase = "save" <=> op = "edit"
           /\ calls'[a].op = op
           /\ calls'[a].phase = "fallback" => calls'[a].route = "password"
<1> DEFINE route == RouteOf(stored, connection)
<1> DEFINE row == IF op = "edit" THEN [connection |-> connection, status |-> status] ELSE NoCall.row
<1> DEFINE phase == IF op = "edit" THEN "save"
                    ELSE IF route = "password" THEN "fallback"
                    ELSE IF NeedsRefresh(op, route, stored) THEN "begun" ELSE "ready"
<1> DEFINE k == [NoCall EXCEPT !.op = op, !.route = route, !.base = stored, !.config = stored,
                 !.imap = (route # "graph"), !.usable = Usable(stored), !.row = row, !.phase = phase]
<1>1. stored \in Credential /\ connection \in Connection /\ status \in Status /\ calls \in [Calls -> Call]
      /\ age \in [Tokens -> Age] /\ stored.refresh <= issued
  BY DEF TypeInv, TypeOK, Known
<1>2. route \in Route /\ row \in [connection : Connection, status : Status] /\ Usable(stored) \in BOOLEAN
  BY <1>1, NoCallOK DEF RouteOf, Route, Usable, Call
<1>3. phase = "ready" => Usable(stored) \/ (op = "poll" /\ route = "gmail")
  BY <1>1, <1>2 DEF NeedsRefresh, Usable, Route, Age, Credential, Tokens
<1> HIDE DEF route, row
<1>4. phase \in {"save", "fallback", "begun", "ready"} /\ (phase = "save" <=> op = "edit")
      /\ (phase = "fallback" => route = "password")
  OBVIOUS
<1> HIDE DEF phase
<1>5. k \in Call /\ k.config = stored /\ k.base = stored /\ k.phase = phase /\ k.op = op /\ k.route = route
      /\ k.usable = Usable(stored) /\ k.refreshed = FALSE
  BY <1>1, <1>2, <1>4, NoCallOK DEF Call, NoCall
<1>6. CallOK(k)
  BY <1>3, <1>4, <1>5 DEF CallOK
<1>7. calls' = [calls EXCEPT ![a] = k]
  BY DEF Begin, route, row, phase
<1> HIDE DEF k
<1>8. calls'[a] = k
  BY <1>1, <1>7
<1>9. QED
  BY <1>1, <1>4, <1>5, <1>6, <1>7, <1>8 DEF KnownTo

\* A step of a call in progress; Begin is the other.
Goes(a) ==
    \/ RefreshCredential(a) \/ RefreshFails(a)
    \/ Save(a) \/ SaveMailbox(a) \/ SaveFails(a)
    \/ UseToken(a) \/ UseTokenFails(a)
    \/ UsePassword(a) \/ UsePasswordFails(a)
    \/ persistIMAPAuthMethod(a) \/ persistFails(a)
    \/ Verdict(a)
    \/ Crash(a)

\* A step other than a refresh: what becomes of the call k.
Continues(k, next) ==
    \/ next = Done
    \/ /\ next \in Call
       /\ k.op # "edit"
       /\ next.op = k.op /\ next.route = k.route /\ next.usable = k.usable /\ next.refreshed = k.refreshed
       /\ next.config.refresh = k.config.refresh /\ next.config.password = k.config.password
       /\ next.base = k.base \/ (next.base = k.config /\ next.config = k.config)
       /\ next.phase \notin {"save", "idle", "done"}
       /\ next.phase = "begun" => ~k.refreshed
       /\ next.phase = "ready" => k.refreshed

LEMMA GoesTypes ==
    ASSUME TypeInv, NEW a \in Calls, Goes(a)
    PROVE  /\ calls' = [calls EXCEPT ![a] = calls'[a]]
           /\ RefreshCredential(a) \/ Continues(calls[a], calls'[a])
<1> DEFINE k == calls[a]
<1> DEFINE next == calls'[a]
<1>1. calls \in [Calls -> Call] /\ k \in Call /\ CallOK(k)
  BY DEF TypeInv, TypeOK
<1>2. k.config \in Credential /\ k.base \in Credential /\ k.hit \in BOOLEAN /\ k.usable \in BOOLEAN
      /\ k.refreshed \in BOOLEAN /\ k.imap \in BOOLEAN /\ k.config.password \in BOOLEAN
      /\ (k.phase # "save" => k.op # "edit")
  BY <1>1 DEF Call, Credential, CallOK
<1>3. ASSUME RefreshCredential(a) PROVE calls' = [calls EXCEPT ![a] = next]
  BY <1>1, <1>3 DEF RefreshCredential
<1>4. ASSUME RefreshFails(a) PROVE calls' = [calls EXCEPT ![a] = next] /\ Continues(k, next)
  BY <1>1, <1>2, <1>4 DEF RefreshFails, Fail, Continues, Call
<1>5. ASSUME Save(a) PROVE calls' = [calls EXCEPT ![a] = next] /\ Continues(k, next)
  BY <1>1, <1>2, <1>5 DEF Save, CallOK, Continues, Call
<1>6. ASSUME SaveMailbox(a) \/ Verdict(a) \/ Crash(a) PROVE calls' = [calls EXCEPT ![a] = next] /\ Continues(k, next)
  BY <1>1, <1>6 DEF SaveMailbox, Verdict, Crash, Continues
<1>7. ASSUME SaveFails(a) PROVE calls' = [calls EXCEPT ![a] = next] /\ Continues(k, next)
  BY <1>1, <1>2, <1>7 DEF SaveFails, Fail, CallOK, Continues, Call
<1>8. ASSUME UseToken(a) PROVE calls' = [calls EXCEPT ![a] = next] /\ Continues(k, next)
  <2>1. PICK phase \in {"method", "good"}, method \in {"oauth", k.config.method} :
          calls' = [calls EXCEPT ![a] = [@ EXCEPT !.phase = phase, !.config.method = method]]
    BY <1>8 DEF UseToken
  <2> DEFINE config == [k.config EXCEPT !.method = method]
  <2>2. config \in Credential /\ config.refresh = k.config.refresh /\ config.password = k.config.password
    BY <1>2 DEF Credential
  <2>3. next = [k EXCEPT !.phase = phase, !.config = config]
    BY <1>1, <2>1 DEF Call
  <2> HIDE DEF config
  <2>4. next \in Call /\ next.phase = phase /\ next.config = config /\ next.base = k.base
        /\ next.op = k.op /\ next.route = k.route /\ next.usable = k.usable /\ next.refreshed = k.refreshed
    BY <1>1, <2>2, <2>3 DEF Call
  <2>5. k.phase = "ready" /\ phase \notin {"save", "idle", "done", "begun", "ready"}
    BY <1>8, <2>1 DEF UseToken
  <2>6. QED
    BY <1>2, <2>1, <2>2, <2>4, <2>5 DEF Continues
<1>9. ASSUME UseTokenFails(a) PROVE calls' = [calls EXCEPT ![a] = next] /\ Continues(k, next)
  BY <1>1, <1>2, <1>9 DEF UseTokenFails, Fail, Continues, Call
<1>10. ASSUME UsePassword(a) PROVE calls' = [calls EXCEPT ![a] = next] /\ Continues(k, next)
  BY <1>1, <1>2, <1>10 DEF UsePassword, Continues, Call, Credential
<1>11. ASSUME UsePasswordFails(a) PROVE calls' = [calls EXCEPT ![a] = next] /\ Continues(k, next)
  BY <1>1, <1>2, <1>11 DEF UsePasswordFails, PasswordUntried, Continues, Call
<1>12. ASSUME persistIMAPAuthMethod(a) PROVE calls' = [calls EXCEPT ![a] = next] /\ Continues(k, next)
  BY <1>1, <1>2, <1>12 DEF persistIMAPAuthMethod, Continues, Call
<1>13. ASSUME persistFails(a) PROVE calls' = [calls EXCEPT ![a] = next] /\ Continues(k, next)
  BY <1>1, <1>2, <1>13 DEF persistFails, Fail, Continues, Call
<1>14. QED
  BY <1>3, <1>4, <1>5, <1>6, <1>7, <1>8, <1>9, <1>10, <1>11, <1>12, <1>13 DEF Goes

LEMMA RefreshTypes ==
    ASSUME TypeInv, NEW a \in Calls, RefreshCredential(a)
    PROVE  /\ issued' = issued + 1 /\ issued' \in Tokens
           /\ calls'[a] \in Call /\ CallOK(calls'[a])
           /\ calls'[a].phase = "save" /\ calls'[a].op = calls[a].op /\ calls'[a].hit = calls[a].hit
           /\ calls'[a].base = calls[a].base
           /\ calls[a].config.refresh = calls[a].base.refresh
           /\ calls'[a].config.refresh \in {calls[a].config.refresh, issued + 1}
           /\ valid' = (valid \ {calls[a].config.refresh}) \cup {calls'[a].config.refresh}
<1> DEFINE k == calls[a]
<1>1. calls \in [Calls -> Call] /\ k \in Call /\ CallOK(k) /\ issued \in Tokens
  BY DEF TypeInv, TypeOK
<1>2. k.phase = "begun" /\ ~k.refreshed /\ issued' = issued + 1 /\ issued' \in Tokens
  BY <1>1 DEF RefreshCredential, CallOK
<1> DEFINE merged(refresh) == mergeCredential(k.config, refresh, issued + 1)
<1>3. PICK refresh \in {k.config.refresh, issued + 1} :
          /\ valid' = (valid \ {k.config.refresh}) \cup {refresh}
          /\ calls' = [calls EXCEPT ![a] = [@ EXCEPT !.phase = "save", !.refreshed = TRUE, !.config = merged(refresh)]]
  BY Zenon DEF RefreshCredential
<1> DEFINE config == merged(refresh)
<1>4. config \in Credential /\ config.refresh = refresh /\ config.password = k.config.password
  <2>1. k.config \in Credential
    BY <1>1 DEF Call
  <2>2. refresh \in Tokens /\ issued + 1 \in 0 .. MaxTokens
    BY <1>1, <1>2, <1>3, <2>1 DEF Credential, Tokens
  <2>3. QED
    BY <2>1, <2>2 DEF mergeCredential, Credential
<1>5. calls'[a] = [k EXCEPT !.phase = "save", !.refreshed = TRUE, !.config = config]
  BY <1>1, <1>3
<1> HIDE DEF config
<1>6. /\ calls'[a] \in Call
      /\ calls'[a].phase = "save" /\ calls'[a].refreshed /\ calls'[a].config = config
      /\ calls'[a].op = k.op /\ calls'[a].hit = k.hit /\ calls'[a].base = k.base
  BY <1>1, <1>4, <1>5 DEF Call
<1>7. k.op # "edit"
  BY <1>1, <1>2 DEF CallOK
<1>8. QED
  BY <1>1, <1>2, <1>3, <1>4, <1>6 DEF CallOK

LEMMA ContinuesOK ==
    ASSUME NEW k \in Call, CallOK(k), NEW g \in Nat \ {0}, KnownTo(k, g), NEW next, Continues(k, next)
    PROVE  next \in Call /\ CallOK(next) /\ KnownTo(next, g)
<1>1. CASE next = Done
  BY <1>1, DoneOK DEF KnownTo
<1>2. CASE next # Done
  BY <1>2 DEF Continues, CallOK, KnownTo
<1>3. QED
  BY <1>1, <1>2

\* What a call's step may do to the rest.
LEMMA RowTypes ==
    ASSUME TypeInv, NEW a \in Calls, CallStep(a)
    PROVE  /\ stored' \in Credential /\ stored'.refresh <= issued
           /\ connection' \in Connection /\ status' \in Status
           /\ lost' \in BOOLEAN /\ dropped' \in BOOLEAN
           /\ oauth' = oauth /\ age' = age
           /\ RefreshCredential(a) \/ (issued' = issued /\ valid' = valid)
<1> DEFINE k == calls[a]
<1>1. /\ stored \in Credential /\ stored.refresh <= issued
      /\ connection \in Connection /\ status \in Status /\ lost \in BOOLEAN /\ dropped \in BOOLEAN
      /\ k.config \in Credential /\ k.config.refresh <= issued
      /\ k.row.connection \in Connection /\ k.row.status \in Status
  BY DEF TypeInv, TypeOK, Known, Call
<1>2. ASSUME NEW op \in {"poll", "verify", "read", "edit"}, Begin(a, op)
      PROVE  UNCHANGED <<stored, connection, status, oauth, provider, lost, dropped>>
  BY <1>2 DEF Begin
<1>3. CASE RefreshCredential(a)
  BY <1>1, <1>3 DEF RefreshCredential
<1>4. CASE RefreshFails(a) \/ UseToken(a) \/ UseTokenFails(a) \/ UsePassword(a) \/ UsePasswordFails(a) \/ persistFails(a)
  BY <1>1, <1>4 DEF RefreshFails, UseToken, UseTokenFails, UsePassword, UsePasswordFails, persistFails, provider
<1>5. CASE Save(a) \/ persistIMAPAuthMethod(a) \/ SaveMailbox(a)
  BY <1>1, <1>5 DEF Save, persistIMAPAuthMethod, SaveMailbox, UpdateMailboxCredential, provider
<1>6. CASE SaveFails(a) \/ Crash(a)
  BY <1>1, <1>6 DEF SaveFails, Crash, provider
<1>7. CASE Verdict(a)
  <2>1. UNCHANGED <<stored, oauth, provider, lost, dropped>>
    BY <1>7 DEF Verdict
  <2>2. connection' \in Connection /\ status' \in Status
    BY <1>1, <1>7 DEF Verdict, Connection, Status
  <2>3. QED
    BY <1>1, <2>1, <2>2 DEF provider
<1>8. QED
  BY <1>1, <1>2, <1>3, <1>4, <1>5, <1>6, <1>7 DEF CallStep, provider

LEMMA TypeStep == ASSUME TypeInv, [Next]_vars PROVE TypeInv'
<1>0. /\ stored \in Credential /\ stored.refresh <= issued /\ connection \in Connection /\ status \in Status
      /\ calls \in [Calls -> Call] /\ issued \in Tokens /\ issued \in Nat \ {0} /\ valid \subseteq 1 .. issued
      /\ \A b \in Calls : CallOK(calls[b]) /\ KnownTo(calls[b], issued)
      /\ oauth \in [States -> [phase : {"absent", "issued", "consumed", "exchanged", "gone"}, token : 0 .. MaxTokens]]
      /\ \A t \in States : oauth[t].token <= issued /\ (oauth[t].phase = "exchanged" => oauth[t].token # 0)
      /\ age \in [Tokens -> Age] /\ lost \in BOOLEAN /\ dropped \in BOOLEAN
  BY DEF TypeInv, TypeOK, Known, KnownTo, Tokens
<1>1. ASSUME NEW a \in Calls, CallStep(a) PROVE TypeInv'
  <2>1. /\ calls' = [calls EXCEPT ![a] = calls'[a]] /\ calls'[a] \in Call
        /\ CallOK(calls'[a]) /\ KnownTo(calls'[a], issued')
        /\ issued' \in Tokens /\ issued <= issued' /\ valid' \subseteq 1 .. issued'
    <3>1. CASE \E op \in {"poll", "verify", "read", "edit"} : Begin(a, op)
      <4>1. issued' = issued /\ valid' = valid
        BY <3>1 DEF Begin, provider
      <4>2. QED
        BY <1>0, <3>1, <4>1, BeginTypes
    <3>2. CASE RefreshCredential(a)
      <4>0. /\ issued' = issued + 1 /\ calls'[a].base = calls[a].base
            /\ calls'[a].config.refresh \in {calls[a].config.refresh, issued + 1}
            /\ valid' = (valid \ {calls[a].config.refresh}) \cup {calls'[a].config.refresh}
        BY <3>2, RefreshTypes
      <4>5. calls[a].config.refresh \in 1 .. issued /\ calls[a].base.refresh \in 1 .. issued
        BY <1>0 DEF KnownTo, Call, Credential, Tokens
      <4>1. calls'[a].config.refresh <= issued' /\ calls'[a].base.refresh <= issued'
        BY <1>0, <4>0, <4>5
      <4>2. valid' \subseteq 1 .. issued'
        <5>1. \A g \in valid' : g \in 1 .. issued \/ g = issued + 1
          BY <1>0, <4>0, <4>5
        <5>2. issued \in Nat \ {0} /\ issued' = issued + 1
          BY <1>0, <4>0
        <5>3. \A g \in 1 .. issued : g \in 1 .. issued'
          BY <5>2
        <5>4. issued + 1 \in 1 .. issued'
          BY <5>2
        <5>5. QED
          BY <5>1, <5>3, <5>4
      <4>3. calls' = [calls EXCEPT ![a] = calls'[a]]
        BY <3>2, GoesTypes DEF Goes
      <4>4. QED
        BY <1>0, <3>2, <4>1, <4>2, <4>3, RefreshTypes DEF KnownTo
    <3>3. CASE Goes(a) /\ ~RefreshCredential(a)
      <4>1. calls' = [calls EXCEPT ![a] = calls'[a]] /\ Continues(calls[a], calls'[a])
        BY <3>3, GoesTypes
      <4>2. calls'[a] \in Call /\ CallOK(calls'[a]) /\ KnownTo(calls'[a], issued)
        BY <1>0, <4>1, ContinuesOK
      <4>3. issued' = issued /\ valid' = valid
        BY <1>1, <3>3, RowTypes
      <4>4. QED
        BY <1>0, <4>1, <4>2, <4>3
    <3>4. QED
      BY <1>1, <3>1, <3>2, <3>3 DEF CallStep, Goes
  <2>2. /\ stored' \in Credential /\ stored'.refresh <= issued
        /\ connection' \in Connection /\ status' \in Status
        /\ lost' \in BOOLEAN /\ dropped' \in BOOLEAN
        /\ oauth' = oauth /\ age' = age
    BY <1>1, RowTypes
  <2>3. calls' \in [Calls -> Call] /\ \A b \in Calls : b # a => calls'[b] = calls[b]
    BY <1>0, <2>1
  <2>4. TypeOK'
    BY <1>0, <2>1, <2>2, <2>3 DEF TypeOK
  <2>5. \A b \in Calls : CallOK(calls'[b]) /\ KnownTo(calls'[b], issued')
    <3>1. \A b \in Calls : b # a => calls[b].base.refresh \in Nat /\ calls[b].config.refresh \in Nat
      BY <1>0 DEF Call, Credential, Tokens
    <3>2. \A b \in Calls : b # a => KnownTo(calls[b], issued')
      BY <1>0, <2>1, <3>1 DEF KnownTo, Tokens
    <3>3. QED
      BY <1>0, <2>1, <2>3, <3>2
  <2>6. stored'.refresh <= issued' /\ \A t \in States : oauth'[t].token <= issued'
    BY <1>0, <2>1, <2>2 DEF Credential, Tokens
  <2>7. QED
    BY <1>0, <2>2, <2>4, <2>5, <2>6 DEF TypeInv, Known, KnownTo
<1>2. ASSUME NEW t \in States, OAuthStep(t) PROVE TypeInv'
  <2>1. /\ issued' \in {issued, issued + 1} /\ issued' \in Tokens
        /\ valid' \in {valid, valid \cup {issued'}}
        /\ UNCHANGED <<calls, age, lost, dropped>>
    BY <1>0, <1>2 DEF OAuthStep, CreateOAuthState, ConsumeOAuthState, Exchange, SaveAuthorization,
                      AbandonAuthorization, provider
  <2>2. /\ oauth' \in [States -> [phase : {"absent", "issued", "consumed", "exchanged", "gone"}, token : 0 .. MaxTokens]]
        /\ \A u \in States : oauth'[u].token <= issued' /\ (oauth'[u].phase = "exchanged" => oauth'[u].token # 0)
    <3>1. CASE Exchange(t)
      <4> DEFINE row == [phase |-> "exchanged", token |-> issued + 1]
      <4>1. oauth' = [oauth EXCEPT ![t] = row] /\ issued' = issued + 1
        BY <3>1 DEF Exchange
      <4>2. row \in [phase : {"absent", "issued", "consumed", "exchanged", "gone"}, token : 0 .. MaxTokens]
            /\ row.token = issued + 1
        BY <1>0, <2>1, <4>1 DEF Tokens
      <4> HIDE DEF row
      <4>3. QED
        BY <1>0, <4>1, <4>2 DEF Tokens
    <3>2. CASE SaveAuthorization(t) \/ AbandonAuthorization(t)
      <4>1. oauth' = [oauth EXCEPT ![t] = [phase |-> "gone", token |-> 0]] /\ issued' = issued
        BY <3>2 DEF SaveAuthorization, AbandonAuthorization, provider
      <4>2. QED
        BY <1>0, <4>1, ConstantsAssumption
    <3>3. CASE CreateOAuthState(t) \/ ConsumeOAuthState(t)
      <4>1. PICK phase \in {"issued", "consumed"} : oauth' = [oauth EXCEPT ![t].phase = phase]
        BY <3>3 DEF CreateOAuthState, ConsumeOAuthState
      <4>2. issued' = issued
        BY <3>3 DEF CreateOAuthState, ConsumeOAuthState, provider
      <4>3. QED
        BY <1>0, <4>1, <4>2
    <3>4. QED
      BY <1>2, <3>1, <3>2, <3>3 DEF OAuthStep
  <2>3. stored' \in Credential /\ stored'.refresh <= issued' /\ connection' \in Connection /\ status' \in Status
    <3>1. CASE SaveAuthorization(t)
      <4>1. oauth[t].token \in Tokens
        BY <1>0, <3>1 DEF SaveAuthorization, Tokens
      <4>2. stored' = NewCredential(IF stored.kind = "gmail" THEN "gmail" ELSE "graph", FALSE, oauth[t].token, oauth[t].token)
            /\ connection' = "auto" /\ status' = "pending_verification" /\ issued' = issued
        BY <3>1 DEF SaveAuthorization, NewGrant, provider
      <4>3. QED
        BY <1>0, <4>1, <4>2 DEF NewCredential, Credential, Kind, Tokens, Connection, Status
    <3>2. CASE ~SaveAuthorization(t)
      <4>1. UNCHANGED <<stored, connection, status>>
        BY <1>2, <3>2 DEF OAuthStep, CreateOAuthState, ConsumeOAuthState, Exchange, AbandonAuthorization
      <4>2. QED
        BY <1>0, <2>1, <4>1 DEF Credential, Tokens
    <3>3. QED
      BY <3>1, <3>2
  <2>4. valid' \subseteq 1 .. issued'
    BY <1>0, <2>1
  <2>5. \A b \in Calls : KnownTo(calls[b], issued')
    BY <1>0, <2>1 DEF KnownTo, Call, Credential, Tokens
  <2>6. QED
    BY <1>0, <2>1, <2>2, <2>3, <2>4, <2>5 DEF TypeInv, TypeOK, Known, KnownTo
<1>3. ASSUME NEW protocol \in {"unset", "imap", "graph"}, NEW password \in BOOLEAN, Import(protocol, password)
      PROVE  TypeInv'
  <2>1. /\ issued' = issued + 1 /\ issued' \in Tokens /\ valid' = valid \cup {issued + 1}
        /\ stored' = NewCredential(ImportedKind(protocol), password, 0, issued + 1)
        /\ connection' = "auto" /\ status' = "pending_verification"
        /\ UNCHANGED <<calls, oauth, age, lost, dropped>>
    BY <1>3 DEF Import, NewGrant
  <2>2. stored' \in Credential /\ stored'.refresh = issued'
    <3>1. ImportedKind(protocol) \in Kind
      BY DEF ImportedKind, Kind
    <3>2. QED
      BY <2>1, <3>1, ConstantsAssumption DEF NewCredential, Credential
  <2>3. \A b \in Calls : KnownTo(calls[b], issued')
    BY <1>0, <2>1 DEF KnownTo, Call, Credential, Tokens
  <2>4. valid' \subseteq 1 .. issued' /\ \A t \in States : oauth[t].token <= issued'
    BY <1>0, <2>1 DEF Tokens
  <2>5. QED
    BY <1>0, <2>1, <2>2, <2>3, <2>4 DEF TypeInv, TypeOK, Known, KnownTo, Connection, Status, Tokens
<1>4. ASSUME NEW g \in Tokens, GetOlder(g) PROVE TypeInv'
  <2>1. age' \in [Tokens -> Age] /\ UNCHANGED <<stored, connection, status, calls, oauth, issued, valid, lost, dropped>>
    BY <1>0, <1>4 DEF GetOlder, Age
  <2>2. QED
    BY <1>0, <2>1 DEF TypeInv, TypeOK, Known, KnownTo
<1>5. CASE Revoke \/ UNCHANGED vars
  <2>1. /\ valid' \subseteq valid /\ dropped' \in BOOLEAN
        /\ UNCHANGED <<stored, connection, status, calls, oauth, issued, age, lost>>
    BY <1>0, <1>5 DEF Revoke, vars
  <2>2. QED
    BY <1>0, <2>1 DEF TypeInv, TypeOK, Known, KnownTo
<1>6. QED
  BY <1>1, <1>2, <1>3, <1>4, <1>5 DEF Next

\* Every reachable state is well typed; no row and no call holds a token before
\* the provider has issued it, and only a call that has refreshed differs from
\* what it read.
THEOREM TypeInvariant == Spec => []TypeInv
<1>1. Init => TypeInv
  <2> SUFFICES ASSUME Init PROVE TypeInv
    OBVIOUS
  <2>1. 1 \in Tokens /\ 1 \in 0 .. MaxTokens
    BY ConstantsAssumption DEF Tokens
  <2>2. stored \in Credential /\ stored.refresh = 1
    BY <2>1, ConstantsAssumption DEF Init, NewCredential, Credential
  <2>3. /\ calls \in [Calls -> Call]
        /\ \A a \in Calls : CallOK(calls[a]) /\ calls[a].base.refresh = 1 /\ calls[a].config.refresh = 1
    BY NoCallOK DEF Init
  <2>4. oauth \in [States -> [phase : {"absent", "issued", "consumed", "exchanged", "gone"}, token : 0 .. MaxTokens]]
        /\ \A t \in States : oauth[t].token <= 1 /\ oauth[t].phase = "absent"
    BY ConstantsAssumption DEF Init, NoCallback
  <2>5. TypeOK
    <3>1. valid \subseteq 1 .. issued /\ issued \in Tokens
      BY <2>1 DEF Init
    <3>2. age \in [Tokens -> Age]
      BY DEF Init, Age
    <3>3. connection \in Connection /\ status \in Status /\ lost \in BOOLEAN /\ dropped \in BOOLEAN
      BY DEF Init, Connection, Status
    <3>4. QED
      BY <2>2, <2>3, <2>4, <3>1, <3>2, <3>3 DEF TypeOK
  <2>6. Known
    BY <2>2, <2>3, <2>4 DEF Init, Known
  <2>7. QED
    BY <2>3, <2>5, <2>6 DEF TypeInv
<1>2. QED
  BY <1>1, TypeStep, PTL DEF Spec

-----------------------------------------------------------------------------
(* Why a mailbox is condemned.  A call that has not been hit gives OAuth   *)
(* up because the token it read is not accepted any more, or because it    *)
(* cannot refresh; and nothing makes an old token valid again.             *)

NoGrant(k) == k.base.refresh \notin valid \/ k.route = "password" \/ (k.op = "poll" /\ k.route = "gmail")

CauseOK(k) ==
    /\ k.phase \in {"fallback", "bad"} /\ ~k.hit => NoGrant(k)
    /\ k.phase = "bad" /\ ~k.hit => ~k.base.password \/ PasswordUntried(k)

CauseInv == \A a \in Calls : CauseOK(calls[a])

LEMMA OldTokensStayOut ==
    ASSUME TypeInv, [Next]_vars
    PROVE  \A g \in 1 .. issued : g \in valid' => g \in valid
<1>0. issued \in Nat /\ valid \subseteq 1 .. issued /\ issued + 1 \notin 1 .. issued
  BY DEF TypeInv, TypeOK, Tokens
<1>1. ASSUME NEW a \in Calls, RefreshCredential(a)
      PROVE  \A g \in 1 .. issued : g \in valid' => g \in valid
  <2>1. calls[a].config.refresh \in valid
    BY <1>1 DEF RefreshCredential
  <2>2. QED
    BY <1>0, <1>1, <2>1, RefreshTypes
<1>2. ASSUME NEW a \in Calls, CallStep(a), ~RefreshCredential(a) PROVE valid' = valid
  BY <1>2, RowTypes
<1>3. ASSUME NEW t \in States, OAuthStep(t) PROVE valid' \in {valid, valid \cup {issued + 1}}
  BY <1>3 DEF OAuthStep, CreateOAuthState, ConsumeOAuthState, Exchange, SaveAuthorization, AbandonAuthorization, provider
<1>4. ASSUME NEW protocol, NEW password, Import(protocol, password) PROVE valid' = valid \cup {issued + 1}
  BY <1>4 DEF Import
<1>5. ASSUME (\E g \in Tokens : GetOlder(g)) \/ Revoke \/ UNCHANGED vars PROVE valid' \subseteq valid
  BY <1>5 DEF GetOlder, Revoke, vars
<1>6. QED
  BY <1>0, <1>1, <1>2, <1>3, <1>4, <1>5 DEF Next

LEMMA CauseCall ==
    ASSUME TypeInv, NEW a \in Calls, CauseOK(calls[a]), Goes(a), ~RefreshCredential(a), valid' = valid
    PROVE  CauseOK(calls[a])'
<1> DEFINE k == calls[a]
<1> DEFINE next == calls'[a]
<1>1. calls \in [Calls -> Call] /\ k \in Call /\ CallOK(k) /\ CauseOK(k)
  BY DEF TypeInv, TypeOK
<1>2. k.hit \in BOOLEAN /\ k.usable \in BOOLEAN /\ k.refreshed \in BOOLEAN /\ k.config.password \in BOOLEAN
  BY <1>1 DEF Call, Credential
<1>3. SUFFICES /\ next.phase \in {"fallback", "bad"} /\ ~next.hit => NoGrant(next)
               /\ next.phase = "bad" /\ ~next.hit => ~next.base.password \/ PasswordUntried(next)
  BY DEF CauseOK, NoGrant, PasswordUntried
<1>4. CASE RefreshFails(a)
  <2>1. next = [k EXCEPT !.phase = "fallback", !.hit = k.hit \/ ~(k.config.refresh \notin valid)] /\ k.phase = "begun"
    BY <1>1, <1>4 DEF RefreshFails, Fail
  <2>2. k.config.refresh = k.base.refresh
    BY <1>1, <2>1 DEF CallOK
  <2>3. QED
    BY <1>1, <1>2, <2>1, <2>2 DEF Call, NoGrant
<1>5. CASE SaveMailbox(a) \/ Verdict(a) \/ Crash(a)
  BY <1>1, <1>5, DoneOK DEF SaveMailbox, Verdict, Crash
<1>6. CASE Save(a) \/ UseToken(a) \/ UsePassword(a) \/ persistIMAPAuthMethod(a)
  <2>1. CASE Save(a)
    BY <1>1, <2>1 DEF Save, Call
  <2>2. CASE UseToken(a)
    BY <1>1, <2>2 DEF UseToken, Call
  <2>3. CASE UsePassword(a)
    BY <1>1, <2>3 DEF UsePassword, Call
  <2>4. CASE persistIMAPAuthMethod(a)
    BY <1>1, <2>4 DEF persistIMAPAuthMethod, Call
  <2>5. QED
    BY <1>6, <2>1, <2>2, <2>3, <2>4
<1>7. CASE SaveFails(a) \/ persistFails(a)
  <2>1. \E phase : next = [k EXCEPT !.phase = phase, !.hit = k.hit \/ ~FALSE]
    BY <1>1, <1>7 DEF SaveFails, persistFails, Fail
  <2>2. next.hit
    BY <1>1, <2>1 DEF Call
  <2>3. QED
    BY <2>2
<1>8. CASE UseTokenFails(a)
  <2>1. PICK phase \in {"begun", "fallback"} :
          next = [k EXCEPT !.phase = phase, !.hit = k.hit \/ ~(~k.usable /\ ~k.refreshed)] /\ k.phase = "ready"
    BY <1>1, <1>8 DEF UseTokenFails, Fail
  <2>2. ~k.usable /\ ~k.refreshed => k.op = "poll" /\ k.route = "gmail"
    BY <1>1, <2>1 DEF CallOK
  <2>3. QED
    BY <1>1, <1>2, <2>1, <2>2 DEF Call, NoGrant
<1>9. CASE UsePasswordFails(a)
  <2>1. /\ next.phase = "bad" /\ next.hit = (k.hit \/ (k.config.password /\ ~PasswordUntried(k)))
        /\ next.base = k.base /\ next.op = k.op /\ next.route = k.route /\ k.phase = "fallback"
    BY <1>1, <1>9 DEF UsePasswordFails, Call
  <2>2. k.config.password = k.base.password
    BY <1>1 DEF CallOK
  <2>3. QED
    BY <1>1, <1>2, <2>1, <2>2 DEF CauseOK, NoGrant, PasswordUntried
<1>10. QED
  BY <1>4, <1>5, <1>7, <1>8, <1>9, <1>6 DEF Goes

LEMMA CauseStep == ASSUME TypeInv, CauseInv, [Next]_vars PROVE CauseInv'
<1>0. /\ calls \in [Calls -> Call] /\ \A b \in Calls : calls[b].base.refresh \in 1 .. issued
      /\ \A g \in 1 .. issued : g \in valid' => g \in valid
  BY OldTokensStayOut DEF TypeInv, TypeOK, Known, Call, Credential, Tokens
<1>1. ASSUME NEW b \in Calls, calls'[b] = calls[b] PROVE CauseOK(calls[b])'
  BY <1>0, <1>1 DEF CauseInv, CauseOK, NoGrant, PasswordUntried
<1>2. ASSUME NEW a \in Calls, CallStep(a) PROVE CauseInv'
  <2>1. calls' = [calls EXCEPT ![a] = calls'[a]]
    BY <1>2, BeginTypes, GoesTypes DEF CallStep, Goes
  <2>2. CauseOK(calls[a])'
    <3>1. CASE \E op \in {"poll", "verify", "read", "edit"} : Begin(a, op)
      BY <3>1, BeginTypes DEF CauseOK, NoGrant
    <3>2. CASE RefreshCredential(a)
      BY <3>2, RefreshTypes DEF CauseOK
    <3>3. CASE Goes(a) /\ ~RefreshCredential(a)
      BY <1>2, <3>3, RowTypes, CauseCall DEF CauseInv
    <3>4. QED
      BY <1>2, <3>1, <3>2, <3>3 DEF CallStep, Goes
  <2>3. \A b \in Calls : b # a => calls'[b] = calls[b]
    BY <1>0, <2>1
  <2>4. QED
    BY <1>1, <2>2, <2>3 DEF CauseInv
<1>3. CASE ~(\E a \in Calls : CallStep(a))
  <2>1. calls' = calls
    BY <1>3 DEF Next, vars, GetOlder, Revoke, Import, OAuthStep, CreateOAuthState, ConsumeOAuthState, Exchange,
                SaveAuthorization, AbandonAuthorization
  <2>2. QED
    BY <1>1, <2>1 DEF CauseInv
<1>4. QED
  BY <1>2, <1>3

\* No interleaving of calls, edits, imports and authorizations makes a
\* verification, or a poll by IMAP, condemn a mailbox that what is stored opens.
THEOREM MailboxesCondemnedWithCause == Spec => CondemnedWithCause
<1>1. Init => CauseInv
  BY NoCallOK DEF Init, CauseInv, CauseOK
<1>2. TypeInv /\ CauseInv /\ [Next]_vars => CauseInv'
  BY CauseStep
<1>3. TypeInv /\ CauseInv /\ [Next]_vars =>
        [\A a \in Calls : Condemns(a) /\ ReadsAllItCan(calls[a]) => ~Opens(calls[a], stored)]_vars
  <2> SUFFICES ASSUME TypeInv, CauseInv, NEW a \in Calls, Condemns(a), ReadsAllItCan(calls[a])
               PROVE  ~Opens(calls[a], stored)
    OBVIOUS
  <2>1. CauseOK(calls[a]) /\ calls[a].phase = "bad" /\ ~calls[a].hit /\ stored = calls[a].base
    BY DEF CauseInv, Condemns
  <2>2. QED
    BY <2>1 DEF CauseOK, NoGrant, ReadsAllItCan, PasswordUntried, Opens
<1>4. QED
  BY <1>1, <1>2, <1>3, TypeInvariant, PTL DEF Spec, CondemnedWithCause

-----------------------------------------------------------------------------
(* Where the valid token is.  As long as no token was dropped, a call that *)
(* has been given a new token, and not written it, and a callback that has *)
(* exchanged its code, are the only ones to know their token.              *)

Active(k) == k.phase \notin {"idle", "done"}

Carries(k) == k.phase = "save" /\ k.op # "edit" /\ k.config.refresh # k.base.refresh

Exchanged(t) == oauth[t].phase = "exchanged"

\* No row and no call but those of B, and no callback but those of T, know g.
OnlyWith(g, B, T) ==
    /\ stored.refresh # g
    /\ \A b \in Calls \ B : Active(calls[b]) => calls[b].config.refresh # g
    /\ \A t \in States \ T : Exchanged(t) => oauth[t].token # g

CarriedOK(a) ==
    Carries(calls[a]) => calls[a].config.refresh \in valid /\ OnlyWith(calls[a].config.refresh, {a}, {})

ExchangedOK(t) == Exchanged(t) => oauth[t].token \in valid /\ OnlyWith(oauth[t].token, {}, {t})

\* A call that is not about to write has the token it has read or written.
WrittenOK(k) == k.phase # "save" => k.config.refresh = k.base.refresh

TokenInv ==
    ~dropped =>
        /\ \A a \in Calls : CarriedOK(a) /\ WrittenOK(calls[a])
        /\ \A t \in States : ExchangedOK(t)

\* What a step makes of the tokens: whoever knows a token that was issued
\* before knew it, or was told by the row, or the callback that goes away.
Spreads(a) ==
    /\ \A b \in Calls : b # a => calls'[b] = calls[b]
    /\ Active(calls'[a]) =>
          \/ calls'[a].config.refresh = issued + 1
          \/ Active(calls[a]) /\ calls'[a].config.refresh = calls[a].config.refresh
          \/ calls'[a].config.refresh = stored.refresh
    /\ stored'.refresh = stored.refresh \/ (stored'.refresh = calls[a].config.refresh /\ Active(calls[a]) /\ ~Carries(calls'[a]))
    /\ oauth' = oauth

LEMMA CallSpreads ==
    ASSUME TypeInv, NEW a \in Calls, CallStep(a), ~dropped'
    PROVE  /\ Spreads(a) /\ ~dropped
           /\ \/ valid' = valid /\ (Carries(calls'[a]) => FALSE)
              \/ /\ Active(calls[a]) /\ calls[a].config.refresh = calls[a].base.refresh
                 /\ calls'[a].base = calls[a].base
                 /\ stored' = stored
                 /\ calls'[a].phase = "save"
                 /\ valid' = (valid \ {calls[a].config.refresh}) \cup {calls'[a].config.refresh}
                 /\ calls'[a].config.refresh \in {calls[a].config.refresh, issued + 1}
           /\ WrittenOK(calls[a]) => WrittenOK(calls'[a])
<1> DEFINE k == calls[a]
<1> DEFINE next == calls'[a]
<1>1. calls \in [Calls -> Call] /\ k \in Call /\ CallOK(k)
  BY DEF TypeInv, TypeOK
<1>2. calls' = [calls EXCEPT ![a] = next] /\ oauth' = oauth
  BY BeginTypes, GoesTypes, RowTypes DEF CallStep, Goes
<1>3. \A b \in Calls : b # a => calls'[b] = calls[b]
  BY <1>1, <1>2
<1>4. CASE \E op \in {"poll", "verify", "read", "edit"} : Begin(a, op)
  <2>1. next.config = stored /\ next.base = stored
    BY <1>4, BeginTypes
  <2>2. stored' = stored /\ valid' = valid /\ dropped' = dropped
    BY <1>4 DEF Begin, provider
  <2>3. QED
    BY <1>2, <1>3, <2>1, <2>2 DEF Spreads, Carries, WrittenOK
<1>5. CASE RefreshCredential(a)
  <2>1. stored' = stored /\ dropped' = dropped /\ k.phase = "begun"
    BY <1>5 DEF RefreshCredential
  <2>2. QED
    BY <1>2, <1>3, <1>5, <2>1, RefreshTypes DEF Spreads, Active, WrittenOK
<1>6. CASE Goes(a) /\ ~RefreshCredential(a)
  <2>1. Continues(k, next) /\ valid' = valid
    BY <1>6, GoesTypes, RowTypes
  <2>2. ~dropped /\ Active(k) /\ ~SaveFails(a) /\ (Crash(a) /\ k.phase = "save" => k.op = "edit")
    <3>1. ~SaveFails(a)
      BY DEF SaveFails
    <3>2. Crash(a) => ~dropped /\ Active(k) /\ (k.phase = "save" => k.op = "edit")
      BY DEF Crash, Active
    <3>3. ASSUME RefreshFails(a) \/ Save(a) \/ SaveMailbox(a) \/ UseToken(a) \/ UseTokenFails(a)
          PROVE  ~dropped /\ Active(k)
      BY <3>3 DEF RefreshFails, Save, SaveMailbox, UseToken, UseTokenFails, Active
    <3>4. ASSUME UsePassword(a) \/ UsePasswordFails(a) PROVE ~dropped /\ Active(k)
      BY <3>4 DEF UsePassword, UsePasswordFails, Active
    <3>5. ASSUME persistIMAPAuthMethod(a) \/ persistFails(a) PROVE ~dropped /\ Active(k)
      BY <3>5 DEF persistIMAPAuthMethod, persistFails, Fail, Active
    <3>6. ASSUME Verdict(a) PROVE ~dropped /\ Active(k)
      BY <3>6 DEF Verdict, Active
    <3>7. QED
      BY <1>6, <3>1, <3>2, <3>3, <3>4, <3>5, <3>6 DEF Goes
  <2>3. next.phase # "save" /\ (Active(next) => next.config.refresh = k.config.refresh)
    BY <2>1, DoneOK DEF Continues, Active
  <2>4. stored' = stored \/ stored' = k.config
    BY <1>6 DEF Goes, RefreshFails, Save, SaveMailbox, SaveFails, UseToken, UseTokenFails, UsePassword, UsePasswordFails,
                persistIMAPAuthMethod, persistFails, Verdict, Crash, UpdateMailboxCredential
  <2>5. WrittenOK(k) => WrittenOK(next)
    <3>1. CASE Save(a)
      BY <1>1, <3>1 DEF Save, Call, WrittenOK
    <3>2. CASE ~Save(a) /\ k.phase = "save"
      <4>1. next = Done
        BY <1>1, <1>6, <2>2, <3>2 DEF Goes, RefreshFails, SaveMailbox, UseToken, UseTokenFails, UsePassword,
               UsePasswordFails, persistIMAPAuthMethod, persistFails, Verdict, Crash
      <4>2. QED
        BY <4>1, DoneOK DEF WrittenOK
    <3>3. CASE k.phase # "save"
      BY <2>1, <3>3, DoneOK DEF Continues, WrittenOK
    <3>4. QED
      BY <3>1, <3>2, <3>3
  <2>6. QED
    BY <1>2, <1>3, <2>1, <2>2, <2>3, <2>4, <2>5 DEF Spreads, Carries
<1>7. QED
  BY <1>4, <1>5, <1>6 DEF CallStep, Goes

\* What TypeInv says of the numbers, in one place.
LEMMA TokensKnown ==
    ASSUME TypeInv
    PROVE  /\ issued \in Nat /\ valid \subseteq 1 .. issued /\ stored.refresh \in 1 .. issued
           /\ \A b \in Calls : calls[b].config.refresh \in 1 .. issued /\ calls[b].base.refresh \in 1 .. issued
           /\ \A t \in States : Exchanged(t) => oauth[t].token \in 1 .. issued
           /\ issued + 1 \notin 1 .. issued
  BY DEF TypeInv, TypeOK, Known, Call, Credential, Tokens, Exchanged

LEMMA TokenCall ==
    ASSUME TypeInv, TokenInv, NEW a \in Calls, CallStep(a), ~dropped'
    PROVE  TokenInv'
<1>1. /\ Spreads(a) /\ ~dropped
      /\ \/ valid' = valid /\ ~Carries(calls'[a])
         \/ /\ Active(calls[a]) /\ calls[a].config.refresh = calls[a].base.refresh
            /\ calls'[a].base = calls[a].base
            /\ stored' = stored
            /\ valid' = (valid \ {calls[a].config.refresh}) \cup {calls'[a].config.refresh}
            /\ calls'[a].config.refresh \in {calls[a].config.refresh, issued + 1}
      /\ WrittenOK(calls[a]) => WrittenOK(calls'[a])
  BY CallSpreads
<1>2. /\ \A b \in Calls : CarriedOK(b) /\ WrittenOK(calls[b])
      /\ \A t \in States : ExchangedOK(t)
  BY <1>1 DEF TokenInv
\* Nobody else learns a token that a does not know.
<1>3. ASSUME NEW g \in 1 .. issued, NEW B \in SUBSET (Calls \ {a}), NEW T \in SUBSET States, OnlyWith(g, B, T), g \in valid
      PROVE  OnlyWith(g, B, T)' /\ g \in valid'
  <2>1. stored.refresh # g /\ (Active(calls[a]) => calls[a].config.refresh # g) /\ g # issued + 1
    BY <1>3, TokensKnown DEF OnlyWith
  <2>2. stored'.refresh # g /\ (Active(calls'[a]) => calls'[a].config.refresh # g)
    BY <1>1, <2>1 DEF Spreads
  <2>3. g \in valid'
    BY <1>1, <1>3, <2>1
  <2>4. \A b \in Calls \ B : Active(calls'[b]) => calls'[b].config.refresh # g
    BY <1>1, <1>3, <2>2 DEF Spreads, OnlyWith
  <2>5. \A t \in States \ T : oauth'[t].phase = "exchanged" => oauth'[t].token # g
    BY <1>1, <1>3 DEF Spreads, OnlyWith, Exchanged
  <2>6. QED
    BY <2>2, <2>3, <2>4, <2>5 DEF OnlyWith, Active, Exchanged
<1>4. ASSUME NEW b \in Calls, b # a PROVE CarriedOK(b)'
  <2>1. calls'[b] = calls[b]
    BY <1>1, <1>4 DEF Spreads
  <2>2. CASE Carries(calls[b])
    <3>1. calls[b].config.refresh \in valid /\ OnlyWith(calls[b].config.refresh, {b}, {})
      BY <1>2, <2>2 DEF CarriedOK
    <3>2. calls[b].config.refresh \in valid' /\ OnlyWith(calls[b].config.refresh, {b}, {})'
      <4>1. \A g \in 1 .. issued : OnlyWith(g, {b}, {}) /\ g \in valid => OnlyWith(g, {b}, {})' /\ g \in valid'
        BY <1>3, <1>4
      <4>2. calls[b].config.refresh \in 1 .. issued
        BY TokensKnown
      <4>3. PICK g \in 1 .. issued : g = calls[b].config.refresh
        BY <4>2
      <4>4. OnlyWith(g, {b}, {})' /\ g \in valid'
        BY <3>1, <4>1, <4>3
      <4>5. QED
        BY <2>1, <4>3, <4>4
    <3>3. QED
      BY <2>1, <3>2 DEF CarriedOK
  <2>3. CASE ~Carries(calls[b])
    BY <2>1, <2>3 DEF CarriedOK, Carries
  <2>4. QED
    BY <2>2, <2>3
<1>5. CarriedOK(a)'
  <2>1. CASE Carries(calls'[a])
    <3>1. PICK g : g = issued + 1
      OBVIOUS
    <3>2. /\ calls'[a].config.refresh = g /\ g \in valid' /\ stored' = stored
          /\ \A b \in Calls : b # a => calls'[b] = calls[b]
          /\ oauth' = oauth
      BY <1>1, <2>1, <3>1 DEF Carries, Spreads
    <3>3. /\ stored'.refresh # g
          /\ \A b \in Calls \ {a} : calls'[b].config.refresh # g
          /\ \A t \in States : oauth'[t].phase = "exchanged" => oauth'[t].token # g
      BY <3>1, <3>2, TokensKnown DEF Exchanged
    <3>4. OnlyWith(g, {a}, {})'
      BY <3>3 DEF OnlyWith, Exchanged
    <3>5. QED
      BY <3>2, <3>4 DEF CarriedOK
  <2>2. CASE ~Carries(calls'[a])
    BY <2>2 DEF CarriedOK, Carries
  <2>3. QED
    BY <2>1, <2>2
<1>6. ASSUME NEW t \in States PROVE ExchangedOK(t)'
  <2>1. oauth' = oauth
    BY <1>1 DEF Spreads
  <2>2. CASE Exchanged(t)
    <3>1. PICK g \in 1 .. issued : g = oauth[t].token
      BY <2>2, TokensKnown
    <3>2. g \in valid /\ OnlyWith(g, {}, {t})
      BY <1>2, <2>2, <3>1 DEF ExchangedOK
    <3>3. g \in valid' /\ OnlyWith(g, {}, {t})'
      BY <1>3, <3>2
    <3>4. QED
      BY <2>1, <3>1, <3>3 DEF ExchangedOK
  <2>3. CASE ~Exchanged(t)
    BY <2>1, <2>3 DEF ExchangedOK, Exchanged
  <2>4. QED
    BY <2>2, <2>3
<1>7. \A b \in Calls : WrittenOK(calls'[b])
  BY <1>1, <1>2 DEF Spreads
<1>8. QED
  BY <1>4, <1>5, <1>6, <1>7 DEF TokenInv, WrittenOK

LEMMA TokenOther ==
    ASSUME TypeInv, TokenInv, [Next]_vars, ~(\E a \in Calls : CallStep(a)), ~dropped'
    PROVE  TokenInv'
<1>1. ~dropped /\ calls' = calls
  <2>1. ASSUME NEW t \in States, OAuthStep(t) PROVE ~dropped /\ calls' = calls
    <3>1. CASE CreateOAuthState(t) \/ ConsumeOAuthState(t) \/ AbandonAuthorization(t)
      BY <3>1 DEF CreateOAuthState, ConsumeOAuthState, AbandonAuthorization
    <3>2. CASE Exchange(t)
      BY <3>2 DEF Exchange
    <3>3. CASE SaveAuthorization(t)
      BY <3>3 DEF SaveAuthorization
    <3>4. QED
      BY <2>1, <3>1, <3>2, <3>3 DEF OAuthStep
  <2>2. ASSUME NEW g \in Tokens, GetOlder(g) PROVE ~dropped /\ calls' = calls
    BY <2>2 DEF GetOlder
  <2>3. ASSUME NEW protocol, NEW password, Import(protocol, password) PROVE ~dropped /\ calls' = calls
    BY <2>3 DEF Import
  <2>4. CASE Revoke \/ UNCHANGED vars
    BY <2>4 DEF Revoke, vars
  <2>5. QED
    BY <2>1, <2>2, <2>3, <2>4 DEF Next
<1>2. /\ \A b \in Calls : CarriedOK(b) /\ WrittenOK(calls[b])
      /\ \A t \in States : ExchangedOK(t)
  BY <1>1 DEF TokenInv
<1>3. SUFFICES /\ \A b \in Calls : CarriedOK(b)'
               /\ \A t \in States : ExchangedOK(t)'
  BY <1>1, <1>2 DEF TokenInv, WrittenOK
\* A token keeps those who know it when the row and the callbacks that still
\* have theirs do.
<1>4. ASSUME NEW S \in SUBSET States,
             \A u \in States : oauth'[u].phase = "exchanged" => u \in S /\ Exchanged(u) /\ oauth'[u].token = oauth[u].token,
             \/ stored'.refresh = stored.refresh
             \/ stored'.refresh = issued + 1
             \/ \E u \in States \ S : Exchanged(u) /\ stored'.refresh = oauth[u].token,
             valid \subseteq valid'
      PROVE  (\A b \in Calls : CarriedOK(b)') /\ (\A t \in States : ExchangedOK(t)')
  <2>1. ASSUME NEW g \in 1 .. issued, NEW B \in SUBSET Calls, NEW T \in SUBSET S, g \in valid, OnlyWith(g, B, T)
        PROVE  g \in valid' /\ OnlyWith(g, B, T)'
    <3>1. stored'.refresh # g
      BY <1>4, <2>1, TokensKnown DEF OnlyWith
    <3>2. \A t \in States \ T : oauth'[t].phase = "exchanged" => oauth'[t].token # g
      BY <1>4, <2>1 DEF OnlyWith
    <3>3. \A b \in Calls \ B : Active(calls'[b]) => calls'[b].config.refresh # g
      BY <1>1, <2>1 DEF OnlyWith
    <3>4. QED
      BY <1>4, <2>1, <3>1, <3>2, <3>3 DEF OnlyWith, Exchanged, Active
  <2>2. ASSUME NEW b \in Calls, Carries(calls[b]) PROVE CarriedOK(b)'
    <3>1. PICK g \in 1 .. issued : g = calls[b].config.refresh
      BY TokensKnown
    <3>2. g \in valid /\ OnlyWith(g, {b}, {})
      BY <1>2, <2>2, <3>1 DEF CarriedOK
    <3>3. g \in valid' /\ OnlyWith(g, {b}, {})'
      BY <2>1, <3>2
    <3>4. QED
      BY <1>1, <3>1, <3>3 DEF CarriedOK
  <2>3. ASSUME NEW t \in States, oauth'[t].phase = "exchanged" PROVE ExchangedOK(t)'
    <3>1. t \in S /\ Exchanged(t) /\ oauth'[t].token = oauth[t].token
      BY <1>4, <2>3
    <3>2. PICK g \in 1 .. issued : g = oauth[t].token
      BY <3>1, TokensKnown
    <3>3. g \in valid /\ OnlyWith(g, {}, {t})
      BY <1>2, <3>1, <3>2 DEF ExchangedOK
    <3>4. g \in valid' /\ OnlyWith(g, {}, {t})'
      BY <2>1, <3>1, <3>3
    <3>5. QED
      BY <3>1, <3>2, <3>4 DEF ExchangedOK
  <2>4. QED
    BY <1>1, <2>2, <2>3 DEF CarriedOK, ExchangedOK, Exchanged, Carries
<1>5. CASE \E protocol \in {"unset", "imap", "graph"}, password \in BOOLEAN : Import(protocol, password)
  <2>1. stored'.refresh = issued + 1 /\ oauth' = oauth /\ valid \subseteq valid'
    BY <1>5 DEF Import, NewGrant, NewCredential
  <2>2. QED
    BY <1>4, <2>1 DEF Exchanged
<1>6. ASSUME NEW t \in States, OAuthStep(t), ~Exchange(t)
      PROVE  (\A b \in Calls : CarriedOK(b)') /\ (\A u \in States : ExchangedOK(u)')
  <2>1. CASE CreateOAuthState(t) \/ ConsumeOAuthState(t) \/ AbandonAuthorization(t)
    <3>1. /\ stored' = stored /\ valid' = valid
          /\ \A u \in States : oauth'[u].phase = "exchanged" => oauth'[u] = oauth[u]
      BY <2>1 DEF CreateOAuthState, ConsumeOAuthState, AbandonAuthorization, provider, TypeInv, TypeOK
    <3>2. QED
      BY <1>4, <3>1 DEF Exchanged
  <2>2. CASE SaveAuthorization(t)
    <3>1. valid' = valid /\ Exchanged(t) /\ stored'.refresh = oauth[t].token
      BY <2>2 DEF SaveAuthorization, NewGrant, NewCredential, provider, Exchanged
    <3>2. oauth' = [oauth EXCEPT ![t] = [phase |-> "gone", token |-> 0]]
      BY <2>2 DEF SaveAuthorization
    <3>3. \A u \in States : oauth'[u].phase = "exchanged" => u # t /\ oauth'[u] = oauth[u]
      BY <3>2 DEF TypeInv, TypeOK
    <3>4. QED
      <4>1. \A u \in States : oauth'[u].phase = "exchanged" =>
                u \in States \ {t} /\ Exchanged(u) /\ oauth'[u].token = oauth[u].token
        BY <3>3 DEF Exchanged
      <4>2. t \in States \ (States \ {t})
        OBVIOUS
      <4>3. QED
        BY <1>4, <3>1, <4>1, <4>2
  <2>3. QED
    BY <1>6, <2>1, <2>2 DEF OAuthStep
<1>7. ASSUME NEW t \in States, Exchange(t)
      PROVE  (\A b \in Calls : CarriedOK(b)') /\ (\A u \in States : ExchangedOK(u)')
  <2>1. PICK h : h = issued + 1
    OBVIOUS
  <2>2. /\ stored' = stored /\ h \in valid' /\ valid \subseteq valid'
        /\ oauth'[t] = [phase |-> "exchanged", token |-> h]
        /\ \A u \in States : u # t => oauth'[u] = oauth[u]
    BY <1>7, <2>1 DEF Exchange, TypeInv, TypeOK
  <2>3. ASSUME NEW g \in 1 .. issued, NEW B \in SUBSET Calls, NEW T \in SUBSET States, g \in valid, OnlyWith(g, B, T)
        PROVE  g \in valid' /\ OnlyWith(g, B, T)'
    <3>1. oauth'[t].token = h /\ h # g
      BY <2>1, <2>2, TokensKnown
    <3>2. \A u \in States \ T : oauth'[u].phase = "exchanged" => oauth'[u].token # g
      BY <2>2, <2>3, <3>1 DEF OnlyWith, Exchanged
    <3>3. QED
      BY <1>1, <2>2, <2>3, <3>2 DEF OnlyWith, Exchanged, Active
  <2>4. ASSUME NEW b \in Calls, Carries(calls[b]) PROVE CarriedOK(b)'
    <3>1. PICK g \in 1 .. issued : g = calls[b].config.refresh
      BY TokensKnown
    <3>2. g \in valid /\ OnlyWith(g, {b}, {})
      BY <1>2, <2>4, <3>1 DEF CarriedOK
    <3>3. g \in valid' /\ OnlyWith(g, {b}, {})'
      BY <2>3, <3>2
    <3>4. QED
      BY <1>1, <3>1, <3>3 DEF CarriedOK
  <2>5. ASSUME NEW u \in States, u # t, Exchanged(u) PROVE ExchangedOK(u)'
    <3>1. PICK g \in 1 .. issued : g = oauth[u].token
      BY <2>5, TokensKnown
    <3>2. g \in valid /\ OnlyWith(g, {}, {u})
      BY <1>2, <2>5, <3>1 DEF ExchangedOK
    <3>3. g \in valid' /\ OnlyWith(g, {}, {u})'
      BY <2>3, <3>2
    <3>4. QED
      BY <2>2, <2>5, <3>1, <3>3 DEF ExchangedOK
  <2>6. ExchangedOK(t)'
    <3>1. oauth'[t].token = h
      BY <2>2
    <3>2. /\ stored'.refresh # h
          /\ \A b \in Calls : calls'[b].config.refresh # h
          /\ \A u \in States \ {t} : oauth'[u].phase = "exchanged" => oauth'[u].token # h
      BY <1>1, <2>1, <2>2, TokensKnown DEF Exchanged
    <3>3. OnlyWith(h, {}, {t})'
      BY <3>2 DEF OnlyWith, Exchanged
    <3>4. QED
      BY <2>2, <3>1, <3>3 DEF ExchangedOK
  <2>7. QED
    BY <1>1, <2>2, <2>4, <2>5, <2>6 DEF CarriedOK, ExchangedOK, Exchanged, Carries
<1>8. CASE (\E g \in Tokens : GetOlder(g)) \/ Revoke \/ UNCHANGED vars
  <2>1. stored' = stored /\ valid' = valid /\ oauth' = oauth
    BY <1>8 DEF GetOlder, Revoke, vars
  <2>2. QED
    BY <1>4, <2>1 DEF Exchanged
<1>9. QED
  BY <1>5, <1>6, <1>7, <1>8 DEF Next

\* The call b is about to write a token the provider accepts.
Brings(b) == calls[b].phase = "save" /\ calls[b].op # "edit" /\ calls[b].config.refresh \in valid

LEMMA GrantCall ==
    ASSUME TypeInv, TokenInv, NEW a \in Calls, CallStep(a), ~lost', ~dropped', ~RefreshCredential(a),
           stored.refresh \in valid \/ \E b \in Calls : Brings(b)
    PROVE  stored'.refresh \in valid \/ \E b \in Calls : b # a /\ Brings(b)
<1> DEFINE k == calls[a]
<1>1. /\ \A b \in Calls : CarriedOK(b) /\ WrittenOK(calls[b])
  BY CallSpreads DEF TokenInv
<1>2. CASE Save(a)
  <2>1. k.phase = "save" /\ k.op # "edit" /\ stored' = k.config /\ stored \in {k.base, k.config}
    BY <1>2 DEF Save, UpdateMailboxCredential
  <2>2. k.config.refresh \notin valid => k.config.refresh = k.base.refresh
    BY <1>1, <2>1 DEF CarriedOK, Carries
  <2>3. QED
    BY <2>1, <2>2 DEF Brings
<1>3. CASE ~Save(a)
  <2>1. stored'.refresh = stored.refresh
    <3>1. CASE SaveMailbox(a)
      <4>1. k.config = k.base
        BY <3>1 DEF SaveMailbox, TypeInv, CallOK
      <4>2. QED
        BY <3>1, <4>1 DEF SaveMailbox, UpdateMailboxCredential
    <3>2. CASE persistIMAPAuthMethod(a)
      <4>1. k.config.refresh = k.base.refresh
        BY <1>1, <3>2 DEF persistIMAPAuthMethod, WrittenOK
      <4>2. QED
        BY <3>2, <4>1 DEF persistIMAPAuthMethod, UpdateMailboxCredential
    <3>3. CASE \E op \in {"poll", "verify", "read", "edit"} : Begin(a, op)
      BY <3>3 DEF Begin
    <3>4. CASE RefreshFails(a) \/ SaveFails(a) \/ UseToken(a) \/ UseTokenFails(a)
      BY <3>4 DEF RefreshFails, SaveFails, UseToken, UseTokenFails
    <3>5. CASE UsePassword(a) \/ UsePasswordFails(a) \/ persistFails(a) \/ Verdict(a) \/ Crash(a)
      BY <3>5 DEF UsePassword, UsePasswordFails, persistFails, Verdict, Crash
    <3>6. QED
      BY <1>3, <3>1, <3>2, <3>3, <3>4, <3>5 DEF CallStep
  <2>2. ~Brings(a)
    <3>1. ~SaveFails(a) /\ (Crash(a) => ~Brings(a)) /\ (SaveMailbox(a) => ~Brings(a))
      BY DEF SaveFails, Crash, SaveMailbox, Brings
    <3>2. (\E op \in {"poll", "verify", "read", "edit"} : Begin(a, op)) => ~Brings(a)
      BY DEF Begin, Brings
    <3>3. RefreshFails(a) \/ UseToken(a) \/ UseTokenFails(a) => ~Brings(a)
      BY DEF RefreshFails, UseToken, UseTokenFails, Brings
    <3>4. UsePassword(a) \/ UsePasswordFails(a) => ~Brings(a)
      BY DEF UsePassword, UsePasswordFails, Brings
    <3>5. persistIMAPAuthMethod(a) \/ persistFails(a) \/ Verdict(a) => ~Brings(a)
      BY DEF persistIMAPAuthMethod, persistFails, Verdict, Fail, Brings
    <3>6. QED
      BY <1>3, <3>1, <3>2, <3>3, <3>4, <3>5 DEF CallStep
  <2>3. QED
    BY <2>1, <2>2
<1>4. QED
  BY <1>2, <1>3

LEMMA GrantStep == ASSUME TypeInv, TokenInv, GrantKept, [Next]_vars PROVE GrantKept'
<1>1. SUFFICES ASSUME ~lost', ~dropped'
               PROVE  stored'.refresh \in valid' \/ (\E b \in Calls : Brings(b))'
  BY DEF GrantKept, Brings
<1>2. ASSUME NEW a \in Calls, CallStep(a)
      PROVE  stored'.refresh \in valid' \/ (\E b \in Calls : Brings(b))'
  <2>1. Spreads(a) /\ ~dropped
    BY <1>1, <1>2, CallSpreads
  <2>2. CASE RefreshCredential(a)
    <3>1. /\ calls'[a].phase = "save" /\ calls'[a].op = calls[a].op /\ calls[a].phase = "begun"
          /\ calls'[a].config.refresh \in valid'
      BY <2>2, RefreshTypes DEF RefreshCredential
    <3>2. calls[a].op # "edit"
      BY <3>1 DEF TypeInv, CallOK
    <3>3. QED
      BY <3>1, <3>2 DEF Brings
  <2>3. CASE ~RefreshCredential(a)
    <3>1. ~lost
      <4>1. CASE Save(a) \/ SaveMailbox(a) \/ persistIMAPAuthMethod(a)
        BY <1>1, <4>1 DEF Save, SaveMailbox, persistIMAPAuthMethod, UpdateMailboxCredential
      <4>2. CASE \E op \in {"poll", "verify", "read", "edit"} : Begin(a, op)
        BY <1>1, <4>2 DEF Begin
      <4>3. CASE RefreshFails(a) \/ SaveFails(a) \/ UseToken(a) \/ UseTokenFails(a)
        BY <1>1, <4>3 DEF RefreshFails, SaveFails, UseToken, UseTokenFails
      <4>4. CASE UsePassword(a) \/ UsePasswordFails(a) \/ persistFails(a) \/ Verdict(a) \/ Crash(a)
        BY <1>1, <4>4 DEF UsePassword, UsePasswordFails, persistFails, Verdict, Crash
      <4>5. QED
        BY <1>2, <2>3, <4>1, <4>2, <4>3, <4>4 DEF CallStep
    <3>2. stored.refresh \in valid \/ \E b \in Calls : Brings(b)
      BY <2>1, <3>1 DEF GrantKept, Brings
    <3>3. stored'.refresh \in valid \/ \E b \in Calls : b # a /\ Brings(b)
      BY <1>1, <1>2, <2>3, <3>2, GrantCall
    <3>4. valid' = valid
      BY <1>2, <2>3, RowTypes
    <3>5. QED
      BY <2>1, <3>3, <3>4 DEF Spreads, Brings
  <2>4. QED
    BY <2>2, <2>3
<1>3. ASSUME NEW t \in States, OAuthStep(t)
      PROVE  stored'.refresh \in valid' \/ (\E b \in Calls : Brings(b))'
  <2>1. CASE SaveAuthorization(t)
    <3>1. ~dropped /\ valid' = valid /\ Exchanged(t) /\ stored'.refresh = oauth[t].token
      BY <1>1, <2>1 DEF SaveAuthorization, NewGrant, NewCredential, provider, Exchanged
    <3>2. QED
      BY <3>1 DEF TokenInv, ExchangedOK
  <2>2. CASE CreateOAuthState(t) \/ ConsumeOAuthState(t) \/ AbandonAuthorization(t)
    <3>1. UNCHANGED <<stored, valid, calls, lost, dropped>>
      BY <2>2 DEF CreateOAuthState, ConsumeOAuthState, AbandonAuthorization, provider
    <3>2. QED
      BY <1>1, <3>1 DEF GrantKept, Brings
  <2>3. CASE Exchange(t)
    <3>1. UNCHANGED <<stored, calls, lost, dropped>> /\ valid \subseteq valid'
      BY <2>3 DEF Exchange
    <3>2. QED
      BY <1>1, <3>1 DEF GrantKept, Brings
  <2>4. QED
    BY <1>3, <2>1, <2>2, <2>3 DEF OAuthStep
<1>4. ASSUME NEW protocol, NEW password, Import(protocol, password)
      PROVE  stored'.refresh \in valid'
  BY <1>4 DEF Import, NewGrant, NewCredential
<1>5. CASE (\E g \in Tokens : GetOlder(g)) \/ Revoke \/ UNCHANGED vars
  <2>1. UNCHANGED <<stored, valid, calls, lost, dropped>>
    BY <1>1, <1>5 DEF GetOlder, Revoke, vars
  <2>2. QED
    BY <1>1, <2>1 DEF GrantKept, Brings
<1>6. QED
  BY <1>2, <1>3, <1>4, <1>5 DEF Next

\* The table holds a token the provider accepts, or a call is about to write
\* one, unless a write overtook another or a token was dropped.
THEOREM GrantsKept == Spec => []GrantKept
<1>1. Init => TokenInv /\ GrantKept
  BY NoCallOK DEF Init, TokenInv, CarriedOK, ExchangedOK, WrittenOK, Carries, Exchanged, NoCallback, GrantKept, NewCredential
<1>2. TypeInv /\ TokenInv /\ [Next]_vars => TokenInv'
  <2> SUFFICES ASSUME TypeInv, TokenInv, [Next]_vars, ~dropped' PROVE TokenInv'
    BY DEF TokenInv
  <2>1. QED
    BY TokenCall, TokenOther
<1>3. TypeInv /\ TokenInv /\ GrantKept /\ [Next]_vars => GrantKept'
  BY GrantStep
<1>4. QED
  BY <1>1, <1>2, <1>3, TypeInvariant, PTL DEF Spec
=============================================================================
