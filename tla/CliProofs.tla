----------------------------- MODULE CliProofs -----------------------------
(***************************************************************************)
(* Proofs about Cli, for every value of the constants: an update always    *)
(* leaves a build to run, workspace tokens survive the people around them, *)
(* and a logout ends the grant it revoked.                                 *)
(***************************************************************************)
EXTENDS Cli, TLAPS, WellFoundedInduction

-----------------------------------------------------------------------------
(* CliUpdate *)

\* What is installed and what the checksums are of was published; an update
\* under way has a binary to replace, and swaps only what it verified.
UpdateInv ==
  /\ published \in Nat \ {0} /\ release \in 0 .. published
  /\ windows \in BOOLEAN
  /\ binary \in 0 .. published /\ aside \in 0 .. published
  /\ update \in [at : {"none", "sums", "archive", "verify", "swap"}, latest : Nat, sums : Nat, archive : Nat]
  /\ update.at \in {"archive", "verify", "swap"} => update.sums \in 1 .. published
  /\ update.at \in {"sums", "archive", "verify"} => binary # 0
  /\ update.at = "swap" => Verified
  /\ ABuildIsInstalled

LEMMA UpdateStep == UpdateInv /\ [UpdateNext]_updateVars => UpdateInv'
<1> SUFFICES ASSUME UpdateInv, [UpdateNext]_updateVars PROVE UpdateInv'
  OBVIOUS
<1> USE CliUpdateAssumption DEF UpdateInv, ABuildIsInstalled, Verified, Step
<1>1. CASE DeleteRelease
  BY <1>1 DEF DeleteRelease
<1>2. CASE CreateRelease
  BY <1>2 DEF CreateRelease
<1>3. CASE Notice
  BY <1>3 DEF Notice
<1>4. CASE Latest
  <2>1. /\ update' = [at |-> "sums", latest |-> release, sums |-> 0, archive |-> 0]
        /\ binary # 0
    BY <1>4 DEF Latest, Newer, NoUpdate
  <2> QED
    BY <1>4, <2>1 DEF Latest
<1>5. CASE ReadChecksums
  <2>1. update' = [at |-> "archive", latest |-> update.latest, sums |-> release, archive |-> update.archive]
    BY <1>5 DEF ReadChecksums
  <2> QED
    BY <1>5, <2>1 DEF ReadChecksums
<1>6. CASE ReadArchive
  <2>1. PICK archive \in {release, Broken} :
          update' = [at |-> "verify", latest |-> update.latest, sums |-> update.sums, archive |-> archive]
    BY <1>6 DEF ReadArchive
  <2> QED
    BY <1>6, <2>1 DEF ReadArchive, Broken
<1>7. CASE Refuse
  BY <1>7 DEF Refuse, NoUpdate
<1>8. CASE MoveAside
  BY <1>8 DEF MoveAside
<1>9. CASE Replace
  BY <1>9 DEF Replace, NoUpdate
<1>10. CASE Abandon
  BY <1>10 DEF Abandon, NoUpdate
<1>11. CASE UNCHANGED updateVars
  BY <1>11 DEF updateVars
<1> QED
  BY <1>1, <1>2, <1>3, <1>4, <1>5, <1>6, <1>7, <1>8, <1>9, <1>10, <1>11 DEF UpdateNext

\* Whatever the release becomes under an update and wherever the update dies,
\* a whole published build is installed or set aside (internal/update/apply.go).
THEOREM ABuildIsInstalledHolds == Spec => []ABuildIsInstalled
<1>1. Init => UpdateInv
  BY DEF Init, UpdateInit, UpdateInv, ABuildIsInstalled, NoUpdate
<1>2. UpdateInv /\ [Next]_vars => UpdateInv'
  BY UpdateStep DEF Next, vars, updateVars
<1>3. UpdateInv => ABuildIsInstalled
  BY DEF UpdateInv
<1> QED
  BY <1>1, <1>2, <1>3, PTL DEF Spec

-----------------------------------------------------------------------------
(* ApiTokens *)

\* The rows a wanted token needs are there, with no person behind them.
TokensInv ==
  /\ issued \in Nat
  /\ tokens \subseteq [id : Nat, user : Staff \cup {Nobody}, workspace : Workspaces \cup {Nobody},
                       by : Staff \cup {Nobody}]
  /\ \A t \in tokens : t.user = Nobody => t.workspace \in Workspaces
  /\ \A id \in wanted : \E t \in tokens : t.id = id /\ t.user = Nobody

LEMMA TokensStep == TokensInv /\ [TokensNext]_tokenVars => TokensInv'
<1> SUFFICES ASSUME TokensInv, [TokensNext]_tokenVars PROVE TokensInv'
  OBVIOUS
<1> USE ApiTokensAssumption DEF TokensInv
<1>1. ASSUME NEW user \in Staff \cup {Nobody}, NEW workspace \in Workspaces \cup {Nobody},
             NEW by \in Staff \cup {Nobody}, Issue(user, workspace, by),
             user = Nobody => workspace \in Workspaces
      PROVE  TokensInv'
  <2> DEFINE new == [id |-> issued + 1, user |-> user, workspace |-> workspace, by |-> by]
  <2>1. /\ tokens' = tokens \cup {new} /\ issued' = issued + 1
        /\ wanted' \subseteq IF user = Nobody THEN wanted \cup {new.id} ELSE wanted
    BY <1>1 DEF Issue
  <2>2. ASSUME NEW id \in wanted' PROVE \E t \in tokens' : t.id = id /\ t.user = Nobody
    <3>1. CASE id \in wanted
      BY <2>1, <3>1
    <3>2. CASE id = new.id /\ user = Nobody
      <4>1. new \in tokens' /\ new.id = id /\ new.user = Nobody
        BY <2>1, <3>2
      <4> QED
        BY <4>1
    <3> QED
      BY <2>1, <2>2, <3>1, <3>2
  <2> QED
    BY <1>1, <2>1, <2>2
<1>2. ASSUME NEW t \in tokens, Revoke(t) PROVE TokensInv'
  BY <1>2 DEF Revoke
<1>3. ASSUME NEW u \in Staff, DeleteAccount(u) PROVE TokensInv'
  <2> DEFINE Forget(t) == [t EXCEPT !.by = IF @ = u THEN Nobody ELSE @]
  <2>1. /\ tokens' = {Forget(t) : t \in {x \in tokens : x.user # u}}
        /\ wanted' = wanted /\ issued' = issued
    BY <1>3 DEF DeleteAccount, OutlivingTheirUser
  <2>2. ASSUME NEW t \in tokens
        PROVE  /\ Forget(t) \in [id : Nat, user : Staff \cup {Nobody}, workspace : Workspaces \cup {Nobody},
                                 by : Staff \cup {Nobody}]
               /\ Forget(t).id = t.id /\ Forget(t).user = t.user /\ Forget(t).workspace = t.workspace
    OBVIOUS
  <2>3. ASSUME NEW id \in wanted' PROVE \E t \in tokens' : t.id = id /\ t.user = Nobody
    <3>1. PICK t \in tokens : t.id = id /\ t.user = Nobody
      BY <2>1
    <3>2. Forget(t) \in tokens' /\ Forget(t).id = id /\ Forget(t).user = Nobody
      <4>1. t \in {x \in tokens : x.user # u}
        BY <3>1, ApiTokensAssumption
      <4> HIDE DEF Forget
      <4> QED
        BY <2>1, <2>2, <3>1, <4>1
    <3> HIDE DEF Forget
    <3> QED
      BY <3>2
  <2> HIDE DEF Forget
  <2> QED
    BY <2>1, <2>2, <2>3
<1>4. ASSUME NEW w \in Workspaces, DeleteWorkspace(w) PROVE TokensInv'
  BY <1>4 DEF DeleteWorkspace
<1>5. CASE UNCHANGED <<tokens, issued, wanted>>
  BY <1>5
<1>6. CASE UNCHANGED tokenVars
  BY <1>5, <1>6 DEF tokenVars
<1>7. ASSUME NEW u \in Staff,
             \/ CreatePersonalToken(u)
             \/ \E w \in Workspaces : CreateWorkspaceToken(u, w)
             \/ \E t \in tokens : RevokePersonalToken(u, t) \/ RevokeWorkspaceToken(u, t)
      PROVE  TokensInv'
  BY <1>1, <1>2, <1>7 DEF CreatePersonalToken, CreateWorkspaceToken, RevokePersonalToken, RevokeWorkspaceToken
<1> QED
  BY <1>3, <1>4, <1>5, <1>6, <1>7 DEF TokensNext, LeaveWorkspace, ChangeRole, SetActive

\* "automation doesn't break when a person leaves": a workspace token nobody
\* revoked keeps reaching its workspace whatever becomes of its creator, and a
\* token reaches what GET /me/ lists for it (api_token_service, presentation/api).
THEOREM AutomationSurvivesPeopleHolds == Spec => []AutomationSurvivesPeople
<1>1. Init => TokensInv
  BY DEF Init, TokensInit, TokensInv
<1>2. TokensInv /\ [Next]_vars => TokensInv'
  BY TokensStep DEF Next, vars, tokenVars
<1>3. TokensInv => AutomationSurvivesPeople
  BY ApiTokensAssumption DEF TokensInv, AutomationSurvivesPeople, Reaches, Resolves, Listed
<1> QED
  BY <1>1, <1>2, <1>3, PTL DEF Spec

-----------------------------------------------------------------------------
(* CliSession *)

Tokens == [grant : 0 .. MaxGrants, turn : Nat]
Configs == [default : Hosts \cup {NoHost}, hosts : [Hosts -> Tokens]]
Places == {"none", "open", "ready", "answered"}
CommandRows == [at : Places, name : Commands \cup {"none"}, host : Hosts \cup {NoHost}, config : Configs, got : Tokens]
GrantRows == [1 .. MaxGrants -> [host : Hosts \cup {NoHost}, turn : Nat, live : BOOLEAN, aged : BOOLEAN]]

\* A token anybody holds is of a grant some server gave, so no later login
\* starts it again.
Granted(g) == g \in 1 .. MaxGrants /\ grants[g].host # NoHost
Known(token) == token = NoToken \/ Granted(token.grant)
KnownConfig(config) == \A h \in Hosts : Known(config.hosts[h])
KnownCommand(c) == KnownConfig(c.config) /\ Known(c.got) /\ (c.at # "none" => c.host # NoHost)

SessionInv ==
  /\ grants \in GrantRows /\ raced \in BOOLEAN
  /\ file \in Configs /\ KnownConfig(file)
  /\ command \in [Shells -> CommandRows]
  /\ \A p \in Shells : KnownCommand(command[p])
  /\ \A g \in revoked : Granted(g) /\ (raced \/ ~grants[g].live)

\* What a step may do to the grants: give new ones, end old ones.
GrantsKept ==
  /\ grants' \in GrantRows
  /\ \A g \in 1 .. MaxGrants : Granted(g) => grants'[g].host = grants[g].host /\ (grants'[g].live => grants[g].live)
Raced == raced' \in BOOLEAN /\ (raced => raced')

LEMMA KnownStays ==
  ASSUME GrantsKept
  PROVE  /\ \A token : Known(token) => Known(token)'
         /\ \A config : KnownConfig(config) => KnownConfig(config)'
         /\ \A c : KnownCommand(c) => KnownCommand(c)'
  BY DEF GrantsKept, Known, KnownConfig, KnownCommand, Granted, NoToken, Token

\* A step of one shell keeps the invariant if what it writes is known.
LEMMA OneShell ==
  ASSUME SessionInv, GrantsKept, Raced, NEW p \in Shells,
         NEW c \in CommandRows, KnownCommand(c)', command' = [command EXCEPT ![p] = c],
         file' \in Configs, KnownConfig(file)',
         \A g \in revoked' \ revoked : Granted(g)' /\ (raced' \/ ~grants'[g].live)
  PROVE  SessionInv'
<1>1. command' \in [Shells -> CommandRows] /\ \A q \in Shells : KnownCommand(command[q])'
  <2>1. ASSUME NEW q \in Shells PROVE command'[q] \in CommandRows /\ KnownCommand(command[q])'
    BY KnownStays, <2>1 DEF SessionInv
  <2> QED
    BY <2>1 DEF SessionInv
<1>2. \A g \in revoked' : Granted(g)' /\ (raced' \/ ~grants'[g].live)
  BY DEF SessionInv, GrantsKept, Raced, Granted
<1> QED
  BY <1>1, <1>2 DEF SessionInv, GrantsKept, Raced

LEMMA AfterEnd ==
  ASSUME SessionInv, GrantsKept, Raced, NEW p \in Shells, End(p),
         file' \in Configs, KnownConfig(file)', revoked' = revoked
  PROVE  SessionInv'
<1>1. PICK c : c = NoCommand
  OBVIOUS
<1>2. c \in CommandRows /\ KnownCommand(c)'
  <2>1. NoToken \in Tokens
    BY CliSessionAssumption DEF NoToken, Token, Tokens
  <2>2. EmptyConfig \in Configs /\ \A h \in Hosts : EmptyConfig.hosts[h] = NoToken
    BY <2>1 DEF EmptyConfig, Configs
  <2>3. c = [at |-> "none", name |-> "none", host |-> NoHost, config |-> EmptyConfig, got |-> NoToken]
    BY <1>1 DEF NoCommand
  <2>4. c \in CommandRows
    BY <2>1, <2>2, <2>3 DEF CommandRows, Places
  <2>5. c.config = EmptyConfig /\ c.got = NoToken /\ c.at = "none"
    BY <2>3
  <2> QED
    BY <2>2, <2>4, <2>5 DEF KnownCommand, KnownConfig, Known
<1> QED
  BY <1>1, <1>2, OneShell DEF End

LEMMA AfterGoOn ==
  ASSUME SessionInv, GrantsKept, Raced, NEW p \in Shells, ~At(p, "none"), NEW where \in Places,
         NEW config \in Configs, KnownConfig(config)', NEW got \in Tokens, Known(got)',
         GoOn(p, where, config, got), file' \in {file, config},
         \A g \in revoked' \ revoked : Granted(g)' /\ (raced' \/ ~grants'[g].live)
  PROVE  SessionInv'
<1>1. PICK c : c = [at |-> where, name |-> command[p].name, host |-> command[p].host, config |-> config, got |-> got]
  OBVIOUS
<1>2. c \in CommandRows /\ KnownCommand(c)'
  BY <1>1 DEF SessionInv, KnownCommand, CommandRows, At
<1>3. command' = [command EXCEPT ![p] = c]
  BY <1>1 DEF GoOn
<1>4. file' \in Configs /\ KnownConfig(file)'
  BY KnownStays DEF SessionInv, KnownConfig
<1> QED
  BY <1>2, <1>3, <1>4, OneShell

LEMMA RotateKeeps ==
  ASSUME SessionInv, NEW token \in Tokens, Granted(token.grant), Rotate(token)
  PROVE  GrantsKept
  BY DEF SessionInv, GrantsKept, GrantRows, Rotate, Granted, Tokens

LEMMA EndGrantKeeps ==
  ASSUME SessionInv, NEW token \in Tokens, Granted(token.grant), EndGrant(token)
  PROVE  GrantsKept /\ ~grants'[token.grant].live
  BY DEF SessionInv, GrantsKept, GrantRows, EndGrant, Granted, Tokens

LEMMA SameGrantsKeep == SessionInv /\ UNCHANGED grants => GrantsKept
  BY DEF SessionInv, GrantsKept
LEMMA SameRacedKeeps == SessionInv /\ UNCHANGED raced => Raced
  BY DEF SessionInv, Raced

\* What an open command may write with.
LEMMA HeldIsKnown ==
  ASSUME SessionInv, NEW p \in Shells, ~At(p, "none")
  PROVE  /\ command[p].config \in Configs /\ KnownConfig(command[p].config)
         /\ command[p].host \in Hosts
         /\ Saved(p) \in Tokens /\ (Saved(p) # NoToken => Granted(Saved(p).grant))
         /\ command[p].got \in Tokens /\ Known(command[p].got)
  BY DEF SessionInv, KnownCommand, KnownConfig, Known, CommandRows, Configs, Saved, At

\* What a command writes of the file.
LEMMA WithTokenIs ==
  ASSUME NEW config \in Configs, NEW h \in Hosts, NEW token \in Tokens
  PROVE  WithToken(config, h, token) = [default |-> config.default, hosts |-> [config.hosts EXCEPT ![h] = token]]
  BY DEF WithToken, Configs

LEMMA WithDefaultIs ==
  ASSUME NEW config \in Configs, NEW host
  PROVE  [config EXCEPT !.default = host] = [default |-> host, hosts |-> config.hosts]
  BY DEF Configs

LEMMA WrittenIsKnown ==
  ASSUME NEW config \in Configs, KnownConfig(config), NEW h \in Hosts, NEW token \in Tokens, Known(token),
         NEW host \in Hosts \cup {NoHost}
  PROVE  /\ WithToken(config, h, token) \in Configs /\ KnownConfig(WithToken(config, h, token))
         /\ [config EXCEPT !.default = host] \in Configs /\ KnownConfig([config EXCEPT !.default = host])
<1>1. WithToken(config, h, token) \in Configs /\ KnownConfig(WithToken(config, h, token))
  <2>1. WithToken(config, h, token) = [default |-> config.default, hosts |-> [config.hosts EXCEPT ![h] = token]]
    BY WithTokenIs
  <2>2. WithToken(config, h, token) \in Configs
    BY <2>1 DEF Configs
  <2>3. \A k \in Hosts : WithToken(config, h, token).hosts[k] = IF k = h THEN token ELSE config.hosts[k]
    BY <2>1 DEF Configs
  <2> QED
    BY <2>2, <2>3 DEF KnownConfig
<1>2. [config EXCEPT !.default = host] \in Configs /\ KnownConfig([config EXCEPT !.default = host])
  BY WithDefaultIs DEF Configs, KnownConfig
<1> QED
  BY <1>1, <1>2

\* One command's steps.
LEMMA CommandStep ==
  ASSUME SessionInv, NEW p \in Shells,
         \/ \E name \in Commands, flag \in Hosts \cup {NoHost} : Open(p, name, flag)
         \/ NotLoggedIn(p) \/ UseSaved(p) \/ Refresh(p) \/ RefreshRefused(p) \/ KeepRefreshed(p)
         \/ \E g \in 1 .. MaxGrants : Grant(p, g)
         \/ GiveUp(p) \/ KeepGrant(p) \/ SetWorkspace(p)
         \/ \E reached \in BOOLEAN : Logout(p, reached)
         \/ Call(p) \/ ForgetHost(p) \/ Switch(p) \/ Interrupt(p)
  PROVE  SessionInv'
<1> DEFINE Same == UNCHANGED <<file, grants, revoked, raced>>
<1>0. file \in Configs /\ KnownConfig(file) /\ NoToken \in Tokens /\ Known(NoToken)
  BY CliSessionAssumption DEF SessionInv, NoToken, Token, Tokens, Known
<1>1. ASSUME NEW name \in Commands, NEW flag \in Hosts \cup {NoHost}, Open(p, name, flag) PROVE SessionInv'
  <2>1. PICK c : c = [at |-> "open", name |-> name, host |-> ResolveHost(flag, file), config |-> file, got |-> NoToken]
    OBVIOUS
  <2>2. ResolveHost(flag, file) \in Hosts /\ command' = [command EXCEPT ![p] = c]
        /\ UNCHANGED <<file, grants, revoked, raced>>
    BY <1>1, <2>1 DEF Open, ResolveHost, SessionInv, Configs
  <2>3. c \in CommandRows /\ KnownCommand(c)
    BY <1>0, <2>1, <2>2, CliSessionAssumption DEF CommandRows, Places, KnownCommand
  <2>4. GrantsKept /\ Raced
    BY <2>2, SameGrantsKeep, SameRacedKeeps
  <2> QED
    BY <1>0, <2>2, <2>3, <2>4, KnownStays, OneShell
<1>2. ASSUME End(p), Same PROVE SessionInv'
  BY <1>0, <1>2, SameGrantsKeep, SameRacedKeeps, KnownStays, AfterEnd
<1>3. CASE UseSaved(p)
  <2>1. ~At(p, "none") /\ GoOn(p, "ready", command[p].config, NoToken) /\ Same
    BY <1>3 DEF UseSaved, NeedsToken, At
  <2> QED
    BY <1>0, <2>1, HeldIsKnown, SameGrantsKeep, SameRacedKeeps, KnownStays, AfterGoOn DEF Places
<1>4. CASE Refresh(p)
  <2>1. PICK got : got = Token(Saved(p).grant, Saved(p).turn + 1)
    OBVIOUS
  <2>2. /\ ~At(p, "none") /\ Saved(p) # NoToken /\ Rotate(Saved(p))
        /\ GoOn(p, "answered", command[p].config, got) /\ UNCHANGED <<file, revoked, raced>>
    BY <1>4, <2>1 DEF Refresh, NeedsToken, At
  <2>3. GrantsKept /\ Raced
    BY <2>2, HeldIsKnown, RotateKeeps, SameRacedKeeps
  <2>4. got \in Tokens /\ Known(got)
    BY <2>1, <2>2, HeldIsKnown DEF Token, Tokens, Known, Granted
  <2> QED
    BY <1>0, <2>2, <2>3, <2>4, HeldIsKnown, KnownStays, AfterGoOn DEF Places
<1>5. CASE RefreshRefused(p)
  <2>1. ~At(p, "none") /\ Saved(p) # NoToken /\ EndGrant(Saved(p)) /\ End(p) /\ UNCHANGED <<file, revoked>>
    BY <1>5 DEF RefreshRefused, NeedsToken, At
  <2>2. GrantsKept /\ Raced
    BY <1>5, <2>1, HeldIsKnown, EndGrantKeeps DEF RefreshRefused, Raced, SessionInv, GrantRows, Granted
  <2> QED
    BY <1>0, <2>1, <2>2, KnownStays, AfterEnd
<1>6. ASSUME NEW config, config \in Configs, KnownConfig(config), ~At(p, "none"), Save(p, config),
             UNCHANGED <<grants, revoked>>,
             End(p) \/ GoOn(p, "ready", config, NoToken)
      PROVE  SessionInv'
  <2>1. GrantsKept /\ Raced /\ file' = config
    BY <1>6, SameGrantsKeep DEF Save, Raced, SessionInv
  <2> QED
    BY <1>0, <1>6, <2>1, KnownStays, AfterEnd, AfterGoOn DEF Places, KnownConfig
<1>7. CASE KeepRefreshed(p)
  <2>1. PICK config : config = WithToken(command[p].config, command[p].host, command[p].got)
    OBVIOUS
  <2>2. ~At(p, "none") /\ Save(p, config) /\ GoOn(p, "ready", config, NoToken) /\ UNCHANGED <<grants, revoked>>
    BY <1>7, <2>1 DEF KeepRefreshed, At
  <2>3. config \in Configs /\ KnownConfig(config)
    BY <2>1, <2>2, HeldIsKnown, WrittenIsKnown
  <2> QED
    BY <1>6, <2>2, <2>3
<1>8. CASE KeepGrant(p)
  <2>1. PICK config :
          config = [WithToken(command[p].config, command[p].host, command[p].got) EXCEPT !.default = command[p].host]
    OBVIOUS
  <2>2. ~At(p, "none") /\ Save(p, config) /\ GoOn(p, "ready", config, NoToken) /\ UNCHANGED <<grants, revoked>>
    BY <1>8, <2>1 DEF KeepGrant, At
  <2>3. config \in Configs /\ KnownConfig(config)
    <3>1. PICK with : with = WithToken(command[p].config, command[p].host, command[p].got)
      OBVIOUS
    <3>2. with \in Configs /\ KnownConfig(with) /\ config = [with EXCEPT !.default = command[p].host]
      BY <2>1, <2>2, <3>1, HeldIsKnown, WrittenIsKnown
    <3> QED
      BY <1>0, <2>2, <3>2, HeldIsKnown, WrittenIsKnown
  <2> QED
    BY <1>6, <2>2, <2>3
<1>9. ASSUME NEW g \in 1 .. MaxGrants, Grant(p, g) PROVE SessionInv'
  <2>1. PICK got : got = Token(g, 1)
    OBVIOUS
  <2>2. /\ ~At(p, "none") /\ ~Granted(g) /\ UNCHANGED <<file, revoked, raced>>
        /\ grants' = [grants EXCEPT ![g] = [host |-> command[p].host, turn |-> 1, live |-> TRUE, aged |-> FALSE]]
        /\ GoOn(p, "answered", command[p].config, got)
    BY <1>9, <2>1 DEF Grant, At, Granted, NoGrant
  <2>3. command[p].host \in Hosts
    BY <2>2, HeldIsKnown
  <2>4. GrantsKept /\ Raced
    BY <2>2, <2>3, SameRacedKeeps DEF GrantsKept, SessionInv, GrantRows
  <2>5. got \in Tokens /\ Known(got)'
    <3>1. got = [grant |-> g, turn |-> 1] /\ got.grant = g
      BY <2>1 DEF Token
    <3>2. grants'[g].host \in Hosts
      BY <2>2, <2>3 DEF SessionInv, GrantRows
    <3> QED
      BY <3>1, <3>2, CliSessionAssumption DEF Tokens, Known, Granted
  <2> QED
    BY <1>0, <2>2, <2>4, <2>5, HeldIsKnown, KnownStays, AfterGoOn DEF Places
<1>10. ASSUME NEW reached \in BOOLEAN, Logout(p, reached) PROVE SessionInv'
  <2>1. /\ ~At(p, "none") /\ Saved(p) # NoToken /\ UNCHANGED file
        /\ GoOn(p, "ready", command[p].config, NoToken)
    BY <1>10 DEF Logout, At
  <2>2. Saved(p) \in Tokens /\ Granted(Saved(p).grant)
    BY <2>1, HeldIsKnown
  <2>3. /\ GrantsKept /\ Raced
        /\ \A g \in revoked' \ revoked : Granted(g)' /\ (raced' \/ ~grants'[g].live)
    <3>1. CASE reached
      <4>1. GrantsKept /\ Raced /\ revoked' = revoked \cup {Saved(p).grant}
        BY <1>10, <2>2, <3>1, EndGrantKeeps, SameGrantsKeep
        DEF Logout, RevokeTokens, Raced, SessionInv, GrantRows, Granted
      <4>2. raced' \/ ~grants'[Saved(p).grant].live
        BY <1>10, <2>2, <3>1, EndGrantKeeps DEF Logout, RevokeTokens
      <4> QED
        BY <2>2, <4>1, <4>2 DEF GrantsKept, Granted
    <3>2. CASE ~reached
      BY <1>10, <3>2, SameGrantsKeep, SameRacedKeeps DEF Logout
    <3> QED
      BY <3>1, <3>2
  <2> QED
    BY <1>0, <2>1, <2>3, HeldIsKnown, KnownStays, AfterGoOn DEF Places
<1>11. CASE SetWorkspace(p)
  BY <1>6, <1>11, HeldIsKnown DEF SetWorkspace, At
<1>12. CASE ForgetHost(p)
  <2>1. PICK with : with = WithToken(command[p].config, command[p].host, NoToken)
    OBVIOUS
  <2>2. PICK default : default = IF with.default = command[p].host THEN NoHost ELSE with.default
    OBVIOUS
  <2>3. PICK config : config = [with EXCEPT !.default = default]
    OBVIOUS
  <2>4. ~At(p, "none") /\ End(p) /\ UNCHANGED <<grants, revoked>>
    BY <1>12 DEF ForgetHost, At
  <2>5. with \in Configs /\ KnownConfig(with)
    BY <1>0, <2>1, <2>4, HeldIsKnown, WrittenIsKnown
  <2>6. default \in Hosts \cup {NoHost}
    BY <2>2, <2>5 DEF Configs
  <2>7. config \in Configs /\ KnownConfig(config)
    BY <1>0, <2>3, <2>4, <2>5, <2>6, HeldIsKnown, WrittenIsKnown
  <2>8. Save(p, config)
    BY <1>12, <2>1, <2>2, <2>3 DEF ForgetHost, Forgotten
  <2> QED
    BY <1>6, <2>4, <2>7, <2>8
<1>13. CASE Switch(p)
  <2>1. PICK config : config = [command[p].config EXCEPT !.default = command[p].host]
    OBVIOUS
  <2>2. ~At(p, "none") /\ Save(p, config) /\ End(p) /\ UNCHANGED <<grants, revoked>>
    BY <1>13, <2>1 DEF Switch, At
  <2>3. config \in Configs /\ KnownConfig(config)
    BY <1>0, <2>1, <2>2, HeldIsKnown, WrittenIsKnown
  <2> QED
    BY <1>6, <2>2, <2>3
<1>14. CASE Interrupt(p)
  <2>1. GrantsKept /\ Raced /\ End(p) /\ UNCHANGED <<file, revoked>>
    BY <1>14, SameGrantsKeep DEF Interrupt, Raced, SessionInv
  <2> QED
    BY <1>0, <2>1, KnownStays, AfterEnd
<1>15. CASE NotLoggedIn(p) \/ GiveUp(p) \/ Call(p)
  BY <1>2, <1>15 DEF NotLoggedIn, GiveUp, Call
<1> QED
  BY <1>1, <1>3, <1>4, <1>5, <1>7, <1>8, <1>9, <1>10, <1>11, <1>12, <1>13, <1>14, <1>15

LEMMA SessionStep == SessionInv /\ [SessionNext]_sessionVars => SessionInv'
<1> SUFFICES ASSUME SessionInv, [SessionNext]_sessionVars PROVE SessionInv'
  OBVIOUS
<1>1. ASSUME NEW g \in 1 .. MaxGrants, Age(g) PROVE SessionInv'
  <2>1. GrantsKept /\ Raced /\ UNCHANGED <<file, command, revoked>>
    BY <1>1, SameRacedKeeps DEF Age, SessionInv, GrantsKept, GrantRows, Granted
  <2> QED
    BY <2>1, KnownStays DEF SessionInv, GrantsKept, Raced, Granted
<1>2. CASE UNCHANGED sessionVars
  BY <1>2 DEF sessionVars, SessionInv, KnownConfig, KnownCommand, Known, Granted
<1> QED
  BY <1>1, <1>2, CommandStep DEF SessionNext

LEMMA SessionInitially == SessionInit => SessionInv
<1>1. SessionInit => /\ file \in Configs /\ KnownConfig(file) /\ grants \in GrantRows
  BY CliSessionAssumption
  DEF SessionInit, EmptyConfig, NoToken, Token, Tokens, Configs, KnownConfig, Known, GrantRows, NoGrant
<1>2. SessionInit => command \in [Shells -> CommandRows] /\ \A p \in Shells : KnownCommand(command[p])
  <2>1. NoToken \in Tokens /\ Known(NoToken)
    BY CliSessionAssumption DEF NoToken, Token, Tokens, Known
  <2>2. EmptyConfig \in Configs /\ \A h \in Hosts : EmptyConfig.hosts[h] = NoToken
    BY <2>1 DEF EmptyConfig, Configs
  <2>3. NoCommand \in CommandRows /\ KnownCommand(NoCommand)
    BY <2>1, <2>2 DEF NoCommand, CommandRows, Places, KnownCommand, KnownConfig
  <2> QED
    BY <2>3 DEF SessionInit
<1> QED
  BY <1>1, <1>2 DEF SessionInit, SessionInv

\* A logout that reached its server leaves no token of that login good, older
\* or newer, as long as no two commands raced on the file (cli/cmd/auth.go).
THEOREM LogoutEndsTheGrantHolds == Spec => []LogoutEndsTheGrant
<1>1. Init => SessionInv
  BY SessionInitially DEF Init
<1>2. SessionInv /\ [Next]_vars => SessionInv'
  BY SessionStep DEF Next, vars, sessionVars
<1>3. SessionInv => LogoutEndsTheGrant
  BY DEF SessionInv, LogoutEndsTheGrant
<1> QED
  BY <1>1, <1>2, <1>3, PTL DEF Spec

\* What hosts.yml and the commands that loaded it say of the grants.
OwnTokens(config) ==
  \A h \in Hosts : config.hosts[h] # NoToken =>
    /\ grants[config.hosts[h].grant].host = h
    /\ config.hosts[h].turn <= grants[config.hosts[h].grant].turn
Behind(config, c) ==
  \A h \in Hosts : config.hosts[h] # NoToken /\ config.hosts[h].grant = c.got.grant
    => c.name # "login" /\ config.hosts[h].turn < c.got.turn
HoldsNewest(c) ==
  /\ Granted(c.got.grant) /\ grants[c.got.grant].host = c.host /\ c.got.turn = grants[c.got.grant].turn
  /\ Behind(file, c) /\ \A q \in Shells : Behind(command[q].config, c)

\* While nobody raced: an answer in hand is its grant's newest token and no
\* file holds it yet (a login's grant, none of it), no two answers are of one
\* grant, and only a logout that is on record has ended one.
LoginsInv ==
  ~raced =>
    /\ \A g \in 1 .. MaxGrants : Granted(g) /\ ~grants[g].live => g \in revoked
    /\ OwnTokens(file) /\ \A p \in Shells : OwnTokens(command[p].config)
    /\ \A p \in Shells : At(p, "answered") => HoldsNewest(command[p])
    /\ \A p, q \in Shells :
         p # q /\ At(p, "answered") /\ At(q, "answered") => command[p].got.grant # command[q].got.grant
    /\ \A h \in Hosts :
         file.hosts[h] # NoToken =>
           file.hosts[h].turn = grants[file.hosts[h].grant].turn \/ InHand(file.hosts[h])
    /\ file.default # NoHost => LoggedIn(file, file.default)

LEMMA NothingSaved ==
  /\ \A h \in Hosts : EmptyConfig.hosts[h] = NoToken
  /\ OwnTokens(EmptyConfig) /\ \A c : Behind(EmptyConfig, c)
<1>1. \A h \in Hosts : EmptyConfig.hosts[h] = NoToken
  BY DEF EmptyConfig
<1> QED
  BY <1>1 DEF OwnTokens, Behind

\* Nothing but a grant's marks changes: a token ages, a logout ends one.
Marked ==
  \A g \in 1 .. MaxGrants :
    /\ grants'[g].host = grants[g].host /\ grants'[g].turn = grants[g].turn
    /\ grants[g].live /\ ~grants'[g].live => g \in revoked'

LEMMA MarkedIs ==
  ASSUME Marked
  PROVE  /\ \A g : Granted(g)' <=> Granted(g)
         /\ \A config : KnownConfig(config) /\ OwnTokens(config) => OwnTokens(config)'
         /\ \A config, row : Behind(config, row)' <=> Behind(config, row)
<1>1. \A g : Granted(g)' <=> Granted(g)
  BY DEF Granted, Marked
<1>2. \A config : KnownConfig(config) /\ OwnTokens(config) => OwnTokens(config)'
  BY DEF Marked, OwnTokens, KnownConfig, Known, Granted
<1>3. \A config, row : Behind(config, row)' <=> Behind(config, row)
  BY DEF Behind
<1> QED
  BY <1>1, <1>2, <1>3

\* A step that only reads, or ends a command that has nothing to save.
LEMMA LoginsQuiet ==
  ASSUME SessionInv, LoginsInv, ~raced, NEW p \in Shells, NEW c,
         command' = [command EXCEPT ![p] = c], c.at # "answered",
         c.config \in {file, command[p].config, EmptyConfig},
         At(p, "answered") => command[p].name = "login",
         UNCHANGED file, Marked, revoked \subseteq revoked'
  PROVE  LoginsInv'
<1>1. \A q \in Shells : command'[q] = IF q = p THEN c ELSE command[q]
  BY DEF SessionInv
<1>2. KnownConfig(file) /\ OwnTokens(file) /\ OwnTokens(file)'
  BY MarkedIs DEF SessionInv, LoginsInv
<1>3. \A q \in Shells : OwnTokens(command[q].config)'
  <2>1. ASSUME NEW q \in Shells PROVE OwnTokens(command[q].config)
    BY DEF LoginsInv
  <2>2. ASSUME NEW q \in Shells PROVE KnownConfig(command[q].config)
    BY DEF SessionInv, KnownCommand
  <2>3. ASSUME NEW config, config = EmptyConfig \/ (KnownConfig(config) /\ OwnTokens(config))
        PROVE  OwnTokens(config)'
    BY <2>3, MarkedIs, NothingSaved DEF OwnTokens
  <2>4. ASSUME NEW q \in Shells
        PROVE  \/ command'[q].config = EmptyConfig
               \/ KnownConfig(command'[q].config) /\ OwnTokens(command'[q].config)
    BY <1>1, <1>2, <2>1, <2>2
  <2>5. ASSUME NEW q \in Shells PROVE OwnTokens(command[q].config)'
    <3>1. PICK config : config = command'[q].config
      OBVIOUS
    <3>2. OwnTokens(config)'
      BY ZenonT(60), <2>3, <2>4, <3>1 DEF OwnTokens
    <3> QED
      BY <3>1, <3>2 DEF OwnTokens
  <2> QED
    BY <2>5
<1>4. \A q \in Shells : At(q, "answered")' => q # p /\ At(q, "answered") /\ command'[q] = command[q]
  BY <1>1 DEF At
<1>5. ASSUME NEW q \in Shells, At(q, "answered")' PROVE HoldsNewest(command[q])'
  <2>1. At(q, "answered") /\ command'[q] = command[q] /\ HoldsNewest(command[q])
    BY <1>4, <1>5 DEF LoginsInv
  <2>2. ASSUME NEW r \in Shells PROVE Behind(command'[r].config, command[q])
    BY <1>1, <2>1, NothingSaved DEF HoldsNewest
  <2> QED
    BY ZenonT(60), <2>1, <2>2, MarkedIs DEF HoldsNewest, Behind, Granted, Marked
<1>6. ASSUME NEW h \in Hosts, file.hosts[h] # NoToken
      PROVE  file.hosts[h].turn = grants'[file.hosts[h].grant].turn \/ InHand(file.hosts[h])'
  <2>1. CASE InHand(file.hosts[h])
    <3>1. PICK q \in Shells : At(q, "answered") /\ command[q].got.grant = file.hosts[h].grant
      BY <2>1 DEF InHand
    <3>2. command[q].name # "login"
      BY <1>6, <3>1 DEF LoginsInv, HoldsNewest, Behind
    <3>3. command'[q] = command[q]
      BY <1>1, <3>1, <3>2 DEF At
    <3> QED
      BY <3>1, <3>3 DEF InHand, At
  <2>2. file.hosts[h].grant \in 1 .. MaxGrants
    BY <1>2, <1>6 DEF KnownConfig, Known, Granted
  <2> QED
    BY <1>6, <2>1, <2>2 DEF LoginsInv, Marked
<1>7. \A g \in 1 .. MaxGrants : Granted(g)' /\ ~grants'[g].live => g \in revoked'
  BY MarkedIs DEF LoginsInv, Marked
<1> QED
  BY <1>2, <1>3, <1>4, <1>5, <1>6, <1>7 DEF LoginsInv, LoggedIn

LEMMA LoginsAge ==
  ASSUME SessionInv, LoginsInv, ~raced, UNCHANGED <<file, command, revoked>>, Marked
  PROVE  LoginsInv'
<1>1. OwnTokens(file)' /\ \A p \in Shells : OwnTokens(command[p].config)'
  BY MarkedIs DEF SessionInv, KnownCommand, LoginsInv
<1>2. \A p \in Shells : At(p, "answered")' => HoldsNewest(command[p])'
  BY MarkedIs DEF LoginsInv, HoldsNewest, At, Behind, Granted, Marked
<1>3. \A g \in 1 .. MaxGrants : Granted(g)' /\ ~grants'[g].live => g \in revoked'
  BY MarkedIs DEF LoginsInv, Marked
<1>4. ASSUME NEW h \in Hosts, file.hosts[h] # NoToken
      PROVE  file.hosts[h].turn = grants'[file.hosts[h].grant].turn \/ InHand(file.hosts[h])'
  <2>1. file.hosts[h].grant \in 1 .. MaxGrants
    BY <1>4 DEF SessionInv, KnownConfig, Known, Granted
  <2> QED
    BY <1>4, <2>1 DEF LoginsInv, Marked, InHand, At
<1> QED
  BY <1>1, <1>2, <1>3, <1>4 DEF LoginsInv, LoggedIn, At

\* A step that saves what it loaded, changed at its own host.
LEMMA LoginsSaving ==
  ASSUME SessionInv, LoginsInv, ~raced, NEW p \in Shells, NEW c, NEW config \in Configs,
         command' = [command EXCEPT ![p] = c], c.at # "answered", c.config \in {config, EmptyConfig},
         file = command[p].config, file' = config, UNCHANGED <<grants, revoked>>,
         \A h \in Hosts : \/ config.hosts[h] \in {file.hosts[h], NoToken}
                          \/ /\ At(p, "answered") /\ h = command[p].host
                             /\ config.hosts[h] = command[p].got,
         At(p, "answered") => config.hosts[command[p].host] = command[p].got,
         config.default # NoHost => LoggedIn(config, config.default)
  PROVE  LoginsInv'
<1>1. \A q \in Shells : command'[q] = IF q = p THEN c ELSE command[q]
  BY DEF SessionInv
<1>2. /\ \A other : OwnTokens(other)' <=> OwnTokens(other)
      /\ \A other, row : Behind(other, row)' <=> Behind(other, row)
      /\ \A g : Granted(g)' <=> Granted(g)
  BY DEF OwnTokens, Behind, Granted
<1>got. At(p, "answered") => /\ grants[command[p].got.grant].host = command[p].host
                             /\ command[p].got.turn = grants[command[p].got.grant].turn
                             /\ command[p].got.turn \in Nat
  BY DEF LoginsInv, HoldsNewest, SessionInv, CommandRows, Tokens
<1>3. OwnTokens(config)
  <2>1. OwnTokens(file)
    BY DEF LoginsInv
  <2> QED
    BY <1>got, <2>1 DEF OwnTokens
<1>4. \A q \in Shells : OwnTokens(command[q].config)'
  <2>1. ASSUME NEW q \in Shells PROVE OwnTokens(command'[q].config)
    BY <1>1, <1>3, NothingSaved DEF LoginsInv
  <2> QED
    BY <1>2, <2>1 DEF OwnTokens
<1>5. \A q \in Shells : At(q, "answered")' => q # p /\ At(q, "answered") /\ command'[q] = command[q]
  BY <1>1 DEF At
<1>6. ASSUME NEW q \in Shells, At(q, "answered")' PROVE HoldsNewest(command[q])'
  <2>1. q # p /\ At(q, "answered") /\ command'[q] = command[q] /\ HoldsNewest(command[q])
    BY <1>5, <1>6 DEF LoginsInv
  <2>2. Behind(config, command[q])
    <3>1. Behind(file, command[q])
      BY <2>1 DEF HoldsNewest
    <3>2. At(p, "answered") => command[p].got.grant # command[q].got.grant
      BY <2>1 DEF LoginsInv
    <3> QED
      BY <3>1, <3>2 DEF Behind
  <2>3. ASSUME NEW r \in Shells PROVE Behind(command'[r].config, command[q])
    BY <1>1, <2>1, <2>2, NothingSaved DEF HoldsNewest
  <2> QED
    BY ZenonT(60), <1>2, <2>1, <2>2, <2>3 DEF HoldsNewest, Behind, Granted
<1>7. ASSUME NEW h \in Hosts, config.hosts[h] # NoToken
      PROVE  config.hosts[h].turn = grants[config.hosts[h].grant].turn \/ InHand(config.hosts[h])'
  <2>1. CASE At(p, "answered") /\ h = command[p].host
    BY <1>got, <2>1
  <2>2. CASE ~(At(p, "answered") /\ h = command[p].host)
    <3>1. config.hosts[h] = file.hosts[h]
      BY <1>7, <2>2
    <3>2. CASE InHand(file.hosts[h])
      <4>1. PICK q \in Shells : At(q, "answered") /\ command[q].got.grant = file.hosts[h].grant
        BY <3>2 DEF InHand
      <4>2. grants[file.hosts[h].grant].host = h
        BY <1>7, <3>1 DEF LoginsInv, OwnTokens
      <4>3. q # p
        BY <1>got, <2>2, <4>1, <4>2
      <4>4. command'[q] = command[q]
        BY <1>1, <4>3
      <4> QED
        BY <3>1, <4>1, <4>4 DEF InHand, At
    <3> QED
      BY <1>7, <3>1, <3>2 DEF LoginsInv
  <2> QED
    BY <2>1, <2>2
<1>8. \A g \in 1 .. MaxGrants : Granted(g)' /\ ~grants'[g].live => g \in revoked'
  BY <1>2 DEF LoginsInv
<1>9. OwnTokens(file)'
  BY <1>3 DEF OwnTokens
<1>10. \A q, r \in Shells : q # r /\ At(q, "answered")' /\ At(r, "answered")'
         => command'[q].got.grant # command'[r].got.grant
  BY <1>5 DEF LoginsInv
<1>11. (\A h \in Hosts : file.hosts[h] # NoToken =>
          file.hosts[h].turn = grants[file.hosts[h].grant].turn \/ InHand(file.hosts[h]))'
  BY <1>7 DEF InHand, At
<1>12. (file.default # NoHost => LoggedIn(file, file.default))'
  BY DEF LoggedIn
<1> QED
  BY ZenonT(60), <1>4, <1>6, <1>8, <1>9, <1>10, <1>11, <1>12 DEF LoginsInv

\* A server's answer: a grant is new, or its token the next.
LEMMA LoginsAnswered ==
  ASSUME SessionInv, LoginsInv, ~raced, NEW p \in Shells, NEW c, c.at = "answered",
         NEW g \in 1 .. MaxGrants, NEW row,
         command' = [command EXCEPT ![p] = c], ~At(p, "answered"),
         c.config = command[p].config, c.host = command[p].host, c.host \in Hosts,
         c.got = [grant |-> g, turn |-> row.turn],
         grants' = [grants EXCEPT ![g] = row], row.host = c.host, row.live, row.turn \in Nat,
         \/ ~Granted(g) /\ c.name = "login"
         \/ /\ Granted(g) /\ c.name # "login" /\ grants[g].host = c.host
            /\ row.turn = grants[g].turn + 1
            /\ \E h \in Hosts : command[p].config.hosts[h] # NoToken /\ command[p].config.hosts[h] = [grant |-> g, turn |-> grants[g].turn],
         UNCHANGED <<file, revoked>>
  PROVE  LoginsInv'
<1>1. \A q \in Shells : command'[q] = IF q = p THEN c ELSE command[q]
  BY DEF SessionInv
<1>2. \A k \in 1 .. MaxGrants : grants'[k] = IF k = g THEN row ELSE grants[k]
  BY DEF SessionInv, GrantRows
<1>3. \A k : Granted(k)' <=> Granted(k) \/ k = g
  BY <1>2, CliSessionAssumption DEF Granted
<1>4. \A k \in 1 .. MaxGrants : grants[k].turn \in Nat
  BY DEF SessionInv, GrantRows
<1>held. \A config \in Configs : KnownConfig(config) =>
           \A h \in Hosts : config.hosts[h] # NoToken => Granted(config.hosts[h].grant) /\ config.hosts[h].turn \in Nat
  BY DEF KnownConfig, Known, Configs, Tokens
<1>known. /\ file \in Configs /\ KnownConfig(file)
          /\ \A q \in Shells : command[q].config \in Configs /\ KnownConfig(command[q].config)
  BY DEF SessionInv, KnownCommand, CommandRows
<1>5. ASSUME NEW config \in Configs, KnownConfig(config), OwnTokens(config)
      PROVE  /\ OwnTokens(config)' /\ Behind(config, c)
  <2>1. ASSUME NEW h \in Hosts, config.hosts[h] # NoToken
        PROVE  /\ grants'[config.hosts[h].grant].host = h
               /\ config.hosts[h].turn <= grants'[config.hosts[h].grant].turn
               /\ config.hosts[h].grant = g => c.name # "login" /\ config.hosts[h].turn < row.turn
    <3> DEFINE k == config.hosts[h].grant
    <3>1. Granted(k) /\ k \in 1 .. MaxGrants /\ config.hosts[h].turn \in Nat
      BY <1>5, <1>held, <2>1 DEF Granted
    <3>2. grants[k].host = h /\ config.hosts[h].turn <= grants[k].turn /\ grants[k].turn \in Nat
      BY <1>4, <1>5, <2>1, <3>1 DEF OwnTokens
    <3>3. CASE k = g
      BY <1>2, <3>1, <3>2, <3>3
    <3>4. CASE k # g
      BY <1>2, <3>1, <3>2, <3>4
    <3> QED
      BY <3>3, <3>4
  <2> QED
    BY SMTT(30), <2>1 DEF OwnTokens, Behind
<1>6. /\ OwnTokens(file)' /\ Behind(file, c)
      /\ \A q \in Shells : OwnTokens(command[q].config)' /\ Behind(command'[q].config, c)
  <2>1. OwnTokens(file) /\ \A q \in Shells : OwnTokens(command[q].config)
    BY DEF LoginsInv
  <2>2. \A q \in Shells : command'[q].config = command[q].config
    BY <1>1
  <2>3. OwnTokens(file)' /\ Behind(file, c)
    <3>1. PICK config : config = file
      OBVIOUS
    <3>2. OwnTokens(config)' /\ Behind(config, c)
      BY <1>5, <1>known, <2>1, <3>1
    <3> QED
      BY <3>1, <3>2 DEF OwnTokens
  <2>4. ASSUME NEW q \in Shells PROVE OwnTokens(command[q].config)' /\ Behind(command'[q].config, c)
    <3>1. PICK config : config = command[q].config
      OBVIOUS
    <3>2. OwnTokens(config)' /\ Behind(config, c)
      BY <1>5, <1>known, <2>1, <3>1
    <3> QED
      BY ZenonT(60), <2>2, <3>1, <3>2 DEF OwnTokens
  <2> QED
    BY <2>3, <2>4
<1>7. ASSUME NEW q \in Shells, q # p, At(q, "answered")' 
      PROVE  /\ command'[q] = command[q] /\ At(q, "answered") /\ command[q].got.grant # g
             /\ HoldsNewest(command[q])'
  <2>1. command'[q] = command[q] /\ At(q, "answered") /\ HoldsNewest(command[q])
    BY <1>1, <1>7 DEF At, LoginsInv
  <2>2. command[q].got.grant # g
    <3>1. CASE ~Granted(g)
      BY <2>1, <3>1 DEF HoldsNewest
    <3>2. ASSUME NEW h \in Hosts, command[p].config.hosts[h] # NoToken,
                 command[p].config.hosts[h] = [grant |-> g, turn |-> grants[g].turn],
                 command[q].got.grant = g
          PROVE  FALSE
      <4>1. Behind(command[p].config, command[q]) /\ command[q].got.turn = grants[g].turn
        BY <2>1, <3>2 DEF HoldsNewest
      <4>2. grants[g].turn < command[q].got.turn /\ grants[g].turn \in Nat
        BY <1>4, <3>2, <4>1 DEF Behind
      <4> QED
        BY <4>1, <4>2
    <3> QED
      BY <3>1, <3>2
  <2>3. command[q].got.grant \in 1 .. MaxGrants
    BY <2>1 DEF HoldsNewest, Granted
  <2>4. grants'[command[q].got.grant] = grants[command[q].got.grant]
    BY <1>2, <2>2, <2>3
  <2>5. \A r \in Shells : command'[r].config = command[r].config
    BY <1>1
  <2>6. PICK held : held = command[q]
    OBVIOUS
  <2>7. Behind(file, held) /\ \A r \in Shells : Behind(command'[r].config, held)
    BY <2>1, <2>5, <2>6 DEF HoldsNewest
  <2>8. Granted(held.got.grant)' /\ grants'[held.got.grant].host = held.host /\ held.got.turn = grants'[held.got.grant].turn
    BY <1>3, <2>1, <2>4, <2>6 DEF HoldsNewest
  <2>9. HoldsNewest(held)'
    BY <2>7, <2>8 DEF HoldsNewest, Behind
  <2>10. HoldsNewest(command[q])'
    <3>1. command'[q] = held
      BY <2>1, <2>6
    <3> QED
      BY ZenonT(60), <2>9, <3>1 DEF HoldsNewest, Behind, Granted
  <2> QED
    BY <2>1, <2>2, <2>10
<1>8. HoldsNewest(command[p])' /\ command'[p] = c
  <2>1. command'[p] = c /\ c.got.grant = g /\ c.got.turn = row.turn
    BY <1>1
  <2> QED
    BY ZenonT(60), <1>2, <1>3, <1>6, <2>1 DEF HoldsNewest, Behind
<1>9. ASSUME NEW h \in Hosts, file.hosts[h] # NoToken
      PROVE  file.hosts[h].turn = grants'[file.hosts[h].grant].turn \/ InHand(file.hosts[h])'
  <2>1. file.hosts[h].grant \in 1 .. MaxGrants
    BY <1>9, <1>held, <1>known DEF Granted
  <2>2. CASE file.hosts[h].grant = g \/ InHand(file.hosts[h])
    <3>1. CASE file.hosts[h].grant = g
      <4>1. command'[p].got.grant = g /\ At(p, "answered")'
        BY <1>1  DEF At
      <4> QED
        BY <3>1, <4>1 DEF InHand
    <3>2. CASE InHand(file.hosts[h])
      <4>1. PICK q \in Shells : At(q, "answered") /\ command[q].got.grant = file.hosts[h].grant
        BY <3>2 DEF InHand
      <4>2. command'[q] = command[q]
        BY <1>1, <4>1
      <4> QED
        BY <4>1, <4>2 DEF InHand, At
    <3> QED
      BY <2>2, <3>1, <3>2
  <2>3. CASE file.hosts[h].grant # g /\ ~InHand(file.hosts[h])
    BY <1>2, <1>9, <2>1, <2>3 DEF LoginsInv
  <2> QED
    BY <2>2, <2>3
<1>10. \A k \in 1 .. MaxGrants : Granted(k)' /\ ~grants'[k].live => k \in revoked'
  BY <1>2, <1>3 DEF LoginsInv
<1>11. \A q, r \in Shells :
         q # r /\ At(q, "answered")' /\ At(r, "answered")' => command'[q].got.grant # command'[r].got.grant
  <2>1. ASSUME NEW q \in Shells, NEW r \in Shells, q # r, At(q, "answered")', At(r, "answered")'
        PROVE  command'[q].got.grant # command'[r].got.grant
    <3>1. CASE q # p /\ r # p
      BY <1>7, <2>1, <3>1 DEF LoginsInv
    <3>2. CASE q = p \/ r = p
      BY <1>7, <1>8, <2>1, <3>2
    <3> QED
      BY <3>1, <3>2
  <2> QED
    BY <2>1
<1> QED
  <2>1. OwnTokens(file)' /\ \A q \in Shells : OwnTokens(command[q].config)'
    <3>1. \A q \in Shells : command'[q].config = command[q].config
      BY <1>1
    <3> QED
      BY <1>6, <3>1 DEF OwnTokens
  <2>2. \A q \in Shells : At(q, "answered")' => HoldsNewest(command[q])'
    BY <1>7, <1>8
  <2>3. file'.default # NoHost => LoggedIn(file, file.default)'
    BY DEF LoginsInv, LoggedIn
  <2> QED
    BY <1>9, <1>10, <1>11, <2>1, <2>2, <2>3 DEF LoginsInv


LEMMA LoginsCommand ==
  ASSUME SessionInv, LoginsInv, ~raced, ~raced', NEW p \in Shells,
         \/ \E name \in Commands, flag \in Hosts \cup {NoHost} : Open(p, name, flag)
         \/ NotLoggedIn(p) \/ UseSaved(p) \/ Refresh(p) \/ RefreshRefused(p) \/ KeepRefreshed(p)
         \/ \E g \in 1 .. MaxGrants : Grant(p, g)
         \/ GiveUp(p) \/ KeepGrant(p) \/ SetWorkspace(p)
         \/ \E reached \in BOOLEAN : Logout(p, reached)
         \/ Call(p) \/ ForgetHost(p) \/ Switch(p) \/ Interrupt(p)
  PROVE  LoginsInv'
<1>same. UNCHANGED grants => Marked
  BY DEF Marked
<1>none. NoCommand.at = "none" /\ NoCommand.config = EmptyConfig
  BY DEF NoCommand
<1>1. ASSUME NEW name \in Commands, NEW flag \in Hosts \cup {NoHost}, Open(p, name, flag) PROVE LoginsInv'
  <2>1. PICK c : c = [at |-> "open", name |-> name, host |-> ResolveHost(flag, file), config |-> file, got |-> NoToken]
    OBVIOUS
  <2>2. command' = [command EXCEPT ![p] = c] /\ UNCHANGED <<file, grants, revoked>> /\ At(p, "none")
    BY <1>1, <2>1 DEF Open
  <2>3. c.at # "answered" /\ c.config = file /\ ~At(p, "answered")
    BY <2>1, <2>2 DEF At
  <2> QED
    BY <1>same, <2>2, <2>3, LoginsQuiet
\* Steps that end the command with the file as it was.
<1>2. ASSUME End(p), Marked, UNCHANGED file, revoked \subseteq revoked',
             At(p, "answered") => command[p].name = "login"
      PROVE  LoginsInv'
  <2>1. PICK c : c = NoCommand
    OBVIOUS
  <2>2. command' = [command EXCEPT ![p] = c] /\ c.at # "answered" /\ c.config = EmptyConfig
    BY <1>2, <1>none, <2>1 DEF End
  <2> QED
    BY <1>2, <2>2, LoginsQuiet
\* Steps that go on with what the command loaded.
<1>3. ASSUME GoOn(p, "ready", command[p].config, NoToken), Marked, UNCHANGED file, revoked \subseteq revoked',
             ~At(p, "answered")
      PROVE  LoginsInv'
  <2>1. PICK c : c = [at |-> "ready", name |-> command[p].name, host |-> command[p].host,
                      config |-> command[p].config, got |-> NoToken]
    OBVIOUS
  <2>2. command' = [command EXCEPT ![p] = c] /\ c.at # "answered" /\ c.config = command[p].config
    BY <1>3, <2>1 DEF GoOn
  <2> QED
    BY <1>3, <2>2, LoginsQuiet
<1>4. CASE NotLoggedIn(p) \/ GiveUp(p) \/ Call(p)
  <2>1. End(p) /\ UNCHANGED <<file, grants, revoked>> /\ ~At(p, "answered")
    BY <1>4 DEF NotLoggedIn, GiveUp, Call, At
  <2> QED
    BY <1>2, <1>same, <2>1
<1>5. CASE UseSaved(p)
  <2>1. GoOn(p, "ready", command[p].config, NoToken) /\ UNCHANGED <<file, grants, revoked>> /\ ~At(p, "answered")
    BY <1>5 DEF UseSaved, NeedsToken, At
  <2> QED
    BY <1>3, <1>same, <2>1
<1>6. CASE Interrupt(p)
  <2>1. End(p) /\ UNCHANGED <<file, grants, revoked>> /\ (At(p, "answered") => command[p].name = "login")
    BY <1>6 DEF Interrupt
  <2> QED
    BY <1>2, <1>same, <2>1
<1>7. CASE RefreshRefused(p)
  <2>1. /\ Saved(p) \in Tokens /\ Granted(Saved(p).grant) /\ ~grants[Saved(p).grant].live
        /\ EndGrant(Saved(p)) /\ End(p) /\ UNCHANGED <<file, revoked>> /\ ~At(p, "answered")
    <3>1. ~At(p, "none") /\ ~At(p, "answered") /\ Saved(p) # NoToken
      BY <1>7 DEF RefreshRefused, NeedsToken, At
    <3> QED
      BY <1>7, <3>1, HeldIsKnown DEF RefreshRefused
  <2>2. Marked
    BY <2>1 DEF EndGrant, Marked, SessionInv, GrantRows
  <2> QED
    BY <1>2, <2>1, <2>2
<1>8. ASSUME NEW reached \in BOOLEAN, Logout(p, reached) PROVE LoginsInv'
  <2>1. /\ ~At(p, "none") /\ ~At(p, "answered") /\ Saved(p) # NoToken /\ UNCHANGED file
        /\ GoOn(p, "ready", command[p].config, NoToken)
    BY <1>8 DEF Logout, At
  <2>2. Saved(p) \in Tokens /\ Granted(Saved(p).grant)
    BY <2>1, HeldIsKnown
  <2>3. Marked /\ revoked \subseteq revoked'
    <3>1. PICK g \in 1 .. MaxGrants : g = Saved(p).grant
      BY <2>2 DEF Granted
    <3>2. CASE reached /\ Current(Saved(p))
      <4>1. grants' = [grants EXCEPT ![g].live = FALSE] /\ revoked' = revoked \cup {g}
        BY <1>8, <3>1, <3>2 DEF Logout, RevokeTokens, EndGrant
      <4> QED
        BY <4>1 DEF Marked, SessionInv, GrantRows
    <3>3. CASE ~(reached /\ Current(Saved(p)))
      <4>1. grants' = grants /\ revoked \subseteq revoked'
        BY <1>8, <3>3 DEF Logout, RevokeTokens
      <4> QED
        BY <1>same, <4>1
    <3> QED
      BY <3>2, <3>3
  <2> QED
    BY <1>3, <2>1, <2>3
<1>9. CASE Refresh(p)
  <2>1. /\ ~At(p, "none") /\ ~At(p, "answered") /\ Saved(p) # NoToken /\ Rotate(Saved(p)) /\ Current(Saved(p))
        /\ command[p].name # "login" /\ UNCHANGED <<file, revoked>>
        /\ GoOn(p, "answered", command[p].config, Token(Saved(p).grant, Saved(p).turn + 1))
    BY <1>9 DEF Refresh, NeedsToken, At
  <2>2. Saved(p) \in Tokens /\ Granted(Saved(p).grant) /\ command[p].host \in Hosts
    BY <2>1, HeldIsKnown
  <2>3. PICK g \in 1 .. MaxGrants : g = Saved(p).grant
    BY <2>2 DEF Granted
  <2>4. PICK row : row = [grants[g] EXCEPT !.turn = @ + 1, !.aged = FALSE]
    OBVIOUS
  <2>5. PICK c : c = [at |-> "answered", name |-> command[p].name, host |-> command[p].host,
                      config |-> command[p].config, got |-> Token(Saved(p).grant, Saved(p).turn + 1)]
    OBVIOUS
  <2>6. /\ grants[g].turn \in Nat /\ grants[g].live /\ Saved(p) = [grant |-> g, turn |-> grants[g].turn]
        /\ Granted(g)
    BY <2>1, <2>2, <2>3 DEF Current, Tokens, SessionInv, GrantRows
  <2>7. /\ row.turn = grants[g].turn + 1 /\ row.turn \in Nat /\ row.live /\ row.host = grants[g].host
        /\ grants' = [grants EXCEPT ![g] = row]
    <3>1. grants[g] \in [host : Hosts \cup {NoHost}, turn : Nat, live : BOOLEAN, aged : BOOLEAN]
      BY DEF SessionInv, GrantRows
    <3>2. row.turn = grants[g].turn + 1 /\ row.turn \in Nat /\ row.live /\ row.host = grants[g].host
      BY <2>4, <2>6, <3>1
    <3>3. grants' = [grants EXCEPT ![g].turn = @ + 1, ![g].aged = FALSE]
      BY <2>1, <2>3 DEF Rotate
    <3>4. grants' = [grants EXCEPT ![g] = row]
      BY <2>4, <3>3 DEF SessionInv, GrantRows
    <3> QED
      BY <3>2, <3>4
  <2>8. OwnTokens(command[p].config) /\ grants[g].host = command[p].host
    BY <2>1, <2>2, <2>3 DEF LoginsInv, OwnTokens, Saved
  <2>9. /\ c.at = "answered" /\ c.config = command[p].config /\ c.host = command[p].host
        /\ c.name = command[p].name /\ c.got = [grant |-> g, turn |-> row.turn]
        /\ command' = [command EXCEPT ![p] = c]
    BY <2>1, <2>3, <2>5, <2>6, <2>7 DEF GoOn, Token
  <2>10. \E h \in Hosts : /\ command[p].config.hosts[h] # NoToken
                           /\ command[p].config.hosts[h] = [grant |-> g, turn |-> grants[g].turn]
    BY <2>1, <2>2, <2>6 DEF Saved
  <2> QED
    BY <2>1, <2>2, <2>6, <2>7, <2>8, <2>9, <2>10, LoginsAnswered
<1>10. ASSUME NEW g \in 1 .. MaxGrants, Grant(p, g) PROVE LoginsInv'
  <2>1. PICK row : row = [host |-> command[p].host, turn |-> 1, live |-> TRUE, aged |-> FALSE]
    OBVIOUS
  <2>2. PICK c : c = [at |-> "answered", name |-> command[p].name, host |-> command[p].host,
                      config |-> command[p].config, got |-> Token(g, 1)]
    OBVIOUS
  <2>3. /\ ~At(p, "none") /\ ~At(p, "answered") /\ ~Granted(g) /\ UNCHANGED <<file, revoked>>
        /\ grants' = [grants EXCEPT ![g] = row] /\ command' = [command EXCEPT ![p] = c]
        /\ command[p].name = "login"
    BY <1>10, <2>1, <2>2 DEF Grant, GoOn, At, Granted, NoGrant
  <2>4. /\ row.turn = 1 /\ row.turn \in Nat /\ row.live /\ row.host = command[p].host
        /\ c.at = "answered" /\ c.config = command[p].config /\ c.host = command[p].host
        /\ c.name = "login" /\ c.got = [grant |-> g, turn |-> row.turn]
    BY <2>1, <2>2, <2>3 DEF Token
  <2>5. command[p].host \in Hosts
    BY <2>3, HeldIsKnown
  <2> QED
    BY <2>3, <2>4, <2>5, LoginsAnswered
\* Steps that save: the file is what the command loaded, for nobody raced.
<1>11. ASSUME NEW config \in Configs, Save(p, config), UNCHANGED <<grants, revoked>>,
              End(p) \/ GoOn(p, "ready", config, NoToken),
              \A h \in Hosts : \/ config.hosts[h] \in {command[p].config.hosts[h], NoToken}
                               \/ /\ At(p, "answered") /\ h = command[p].host
                                  /\ config.hosts[h] = command[p].got,
              At(p, "answered") => config.hosts[command[p].host] = command[p].got,
              config.default # NoHost =>
                \/ LoggedIn(config, config.default)
                \/ config.default = command[p].config.default /\ config.hosts[config.default] = command[p].config.hosts[config.default]
       PROVE  LoginsInv'
  <2>1. file' = config /\ file = command[p].config
    BY <1>11 DEF Save
  <2>at. \A h \in Hosts : \/ config.hosts[h] \in {file.hosts[h], NoToken}
                          \/ /\ At(p, "answered") /\ h = command[p].host
                             /\ config.hosts[h] = command[p].got
    BY <1>11, <2>1
  <2>2. config.default # NoHost => LoggedIn(config, config.default)
    BY <1>11, <2>1 DEF LoginsInv, LoggedIn
  <2>own. At(p, "answered") => config.hosts[command[p].host] = command[p].got
    BY <1>11
  <2>un. UNCHANGED <<grants, revoked>>
    BY <1>11
  <2>3. CASE End(p)
    <3>1. PICK c : c = NoCommand
      OBVIOUS
    <3>2. command' = [command EXCEPT ![p] = c] /\ c.at # "answered" /\ c.config = EmptyConfig
      BY <1>none, <2>3, <3>1 DEF End
    <3> QED
      BY <2>1, <2>2, <2>at, <2>own, <2>un, <3>2, LoginsSaving
  <2>4. CASE GoOn(p, "ready", config, NoToken)
    <3>1. PICK c : c = [at |-> "ready", name |-> command[p].name, host |-> command[p].host,
                        config |-> config, got |-> NoToken]
      OBVIOUS
    <3>2. command' = [command EXCEPT ![p] = c] /\ c.at # "answered" /\ c.config = config
      BY <2>4, <3>1 DEF GoOn
    <3> QED
      BY <2>1, <2>2, <2>at, <2>own, <2>un, <3>2, LoginsSaving
  <2> QED
    BY <1>11, <2>3, <2>4
<1>got. At(p, "answered") => command[p].got # NoToken /\ ~At(p, "none")
  BY DEF LoginsInv, HoldsNewest, Granted, NoToken, Token, At
<1>12. CASE KeepRefreshed(p)
  <2>1. PICK config : config = WithToken(command[p].config, command[p].host, command[p].got)
    OBVIOUS
  <2>2. At(p, "answered") /\ Save(p, config) /\ GoOn(p, "ready", config, NoToken) /\ UNCHANGED <<grants, revoked>>
    BY <1>12, <2>1 DEF KeepRefreshed
  <2>3. /\ command[p].config \in Configs /\ command[p].host \in Hosts /\ command[p].got \in Tokens
        /\ config \in Configs
    BY <1>got, <2>1, <2>2, HeldIsKnown, WrittenIsKnown
  <2>4. /\ config.default = command[p].config.default
        /\ \A h \in Hosts : config.hosts[h] = IF h = command[p].host THEN command[p].got ELSE command[p].config.hosts[h]
    <3>1. config = [default |-> command[p].config.default,
                    hosts |-> [command[p].config.hosts EXCEPT ![command[p].host] = command[p].got]]
      BY <2>1, <2>3, WithTokenIs
    <3> QED
      BY <2>3, <3>1 DEF Configs
  <2>5. config.default # NoHost =>
          \/ LoggedIn(config, config.default)
          \/ config.default = command[p].config.default /\ config.hosts[config.default] = command[p].config.hosts[config.default]
    BY <1>got, <2>2, <2>3, <2>4 DEF LoggedIn, Configs
  <2> QED
    BY <1>11, <2>2, <2>3, <2>4, <2>5
<1>13. CASE KeepGrant(p)
  <2>1. PICK with : with = WithToken(command[p].config, command[p].host, command[p].got)
    OBVIOUS
  <2>2. PICK config : config = [with EXCEPT !.default = command[p].host]
    OBVIOUS
  <2>3. At(p, "answered") /\ Save(p, config) /\ GoOn(p, "ready", config, NoToken) /\ UNCHANGED <<grants, revoked>>
    BY <1>13, <2>1, <2>2 DEF KeepGrant
  <2>4. /\ command[p].config \in Configs /\ command[p].host \in Hosts /\ command[p].got \in Tokens
        /\ with \in Configs
    BY <1>got, <2>1, <2>3, HeldIsKnown, WrittenIsKnown
  <2>5. /\ config = [default |-> command[p].host, hosts |-> with.hosts]
        /\ with = [default |-> command[p].config.default, hosts |-> [command[p].config.hosts EXCEPT ![command[p].host] = command[p].got]]
    BY <2>1, <2>2, <2>4, WithTokenIs, WithDefaultIs
  <2>6. /\ config.default = command[p].host /\ config \in Configs
        /\ \A h \in Hosts : config.hosts[h] = IF h = command[p].host THEN command[p].got ELSE command[p].config.hosts[h]
    BY <2>4, <2>5 DEF Configs
  <2>7. LoggedIn(config, config.default)
    BY <1>got, <2>3, <2>4, <2>6 DEF LoggedIn
  <2> QED
    BY <1>11, <2>3, <2>4, <2>6, <2>7
<1>14. CASE SetWorkspace(p)
  <2>1. At(p, "ready") /\ Save(p, command[p].config) /\ End(p) /\ UNCHANGED <<grants, revoked>>
    BY <1>14 DEF SetWorkspace
  <2>2. ~At(p, "answered") /\ command[p].config \in Configs
    BY <2>1, HeldIsKnown DEF At
  <2> QED
    BY <1>11, <2>1, <2>2
<1>15. CASE ForgetHost(p)
  <2>1. PICK with : with = WithToken(command[p].config, command[p].host, NoToken)
    OBVIOUS
  <2>2. PICK default : default = IF with.default = command[p].host THEN NoHost ELSE with.default
    OBVIOUS
  <2>3. PICK config : config = [with EXCEPT !.default = default]
    OBVIOUS
  <2>4. At(p, "ready") /\ Save(p, config) /\ End(p) /\ UNCHANGED <<grants, revoked>>
    BY <1>15, <2>1, <2>2, <2>3 DEF ForgetHost, Forgotten
  <2>5. ~At(p, "answered") /\ ~At(p, "none")
    BY <2>4 DEF At
  <2>6. command[p].config \in Configs /\ command[p].host \in Hosts /\ NoToken \in Tokens /\ Known(NoToken)
    BY <2>5, HeldIsKnown, CliSessionAssumption DEF NoToken, Token, Tokens, Known
  <2>7. with \in Configs /\ with = [default |-> command[p].config.default, hosts |-> [command[p].config.hosts EXCEPT ![command[p].host] = NoToken]]
    BY <2>1, <2>5, <2>6, HeldIsKnown, WithTokenIs, WrittenIsKnown
  <2>8. default \in Hosts \cup {NoHost} /\ config = [default |-> default, hosts |-> with.hosts]
    BY <2>2, <2>3, <2>7, WithDefaultIs DEF Configs
  <2>9. /\ config \in Configs /\ config.default = default
        /\ \A h \in Hosts : config.hosts[h] = IF h = command[p].host THEN NoToken ELSE command[p].config.hosts[h]
    BY <2>6, <2>7, <2>8 DEF Configs
  <2>10. config.default # NoHost =>
           config.default = command[p].config.default /\ config.hosts[config.default] = command[p].config.hosts[config.default]
    BY <2>2, <2>7, <2>8, <2>9
  <2> QED
    BY <1>11, <2>4, <2>5, <2>9, <2>10
<1>16. CASE Switch(p)
  <2>1. PICK config : config = [command[p].config EXCEPT !.default = command[p].host]
    OBVIOUS
  <2>2. /\ At(p, "open") /\ Save(p, config) /\ End(p) /\ UNCHANGED <<grants, revoked>> /\ Saved(p) # NoToken
    BY <1>16, <2>1 DEF Switch
  <2>3. ~At(p, "answered") /\ ~At(p, "none")
    BY <2>2 DEF At
  <2>4. command[p].config \in Configs /\ command[p].host \in Hosts
    BY <2>3, HeldIsKnown
  <2>5. config = [default |-> command[p].host, hosts |-> command[p].config.hosts]
    BY <2>1, <2>4, WithDefaultIs
  <2>6. config \in Configs /\ LoggedIn(config, config.default) /\ config.hosts = command[p].config.hosts
    BY <2>2, <2>4, <2>5 DEF Configs, LoggedIn, Saved
  <2> QED
    BY <1>11, <2>2, <2>3, <2>6
<1> QED
  BY <1>1, <1>4, <1>5, <1>6, <1>7, <1>8, <1>9, <1>10, <1>12, <1>13, <1>14, <1>15, <1>16

LEMMA LoginsStep == SessionInv /\ LoginsInv /\ [SessionNext]_sessionVars => LoginsInv'
<1> SUFFICES ASSUME SessionInv, LoginsInv, [SessionNext]_sessionVars, ~raced' PROVE LoginsInv'
  BY DEF LoginsInv
<1>1. CASE UNCHANGED sessionVars
  <2>1. UNCHANGED <<file, grants, command, revoked>> /\ ~raced /\ Marked
    BY <1>1 DEF sessionVars, Marked
  <2> QED
    BY <2>1, LoginsAge
<1>2. ASSUME NEW g \in 1 .. MaxGrants, Age(g) PROVE LoginsInv'
  <2>1. UNCHANGED <<file, command, revoked>> /\ ~raced /\ Marked
    BY <1>2 DEF Age, Marked, SessionInv, GrantRows
  <2> QED
    BY <2>1, LoginsAge
<1>3. ASSUME NEW p \in Shells,
             \/ \E name \in Commands, flag \in Hosts \cup {NoHost} : Open(p, name, flag)
             \/ NotLoggedIn(p) \/ UseSaved(p) \/ Refresh(p) \/ RefreshRefused(p) \/ KeepRefreshed(p)
             \/ \E g \in 1 .. MaxGrants : Grant(p, g)
             \/ GiveUp(p) \/ KeepGrant(p) \/ SetWorkspace(p)
             \/ \E reached \in BOOLEAN : Logout(p, reached)
             \/ Call(p) \/ ForgetHost(p) \/ Switch(p) \/ Interrupt(p)
      PROVE  LoginsInv'
  <2>1. ~raced
    BY <1>3 DEF Open, NotLoggedIn, UseSaved, Refresh, RefreshRefused, KeepRefreshed, Grant, GiveUp, KeepGrant,
                SetWorkspace, Logout, Call, ForgetHost, Switch, Interrupt, Save
  <2> QED
    BY <1>3, <2>1, LoginsCommand
<1> QED
  BY <1>1, <1>2, <1>3 DEF SessionNext

\* As long as no two commands meet on the file and none dies holding a new
\* token, every entry of hosts.yml is its own server's newest token, good
\* unless a logout is ending it, and the default host is one logged in to
\* (cli/internal/session, cli/internal/config, cli/cmd/auth.go).
THEOREM SavedLoginsWorkHolds == Spec => []SavedLoginsWork
<1>1. Init => SessionInv /\ LoginsInv
  <2>1. SessionInit => LoginsInv
    BY NothingSaved
    DEF SessionInit, LoginsInv, Granted, NoGrant, NoCommand, At, OwnTokens, EmptyConfig
  <2> QED
    BY <2>1, SessionInitially DEF Init
<1>2. SessionInv /\ LoginsInv /\ [Next]_vars => (SessionInv /\ LoginsInv)'
  <2> SUFFICES ASSUME SessionInv, LoginsInv, [Next]_vars PROVE (SessionInv /\ LoginsInv)'
    OBVIOUS
  <2>1. [SessionNext]_sessionVars
    BY DEF Next, vars, sessionVars
  <2> QED
    BY <2>1, SessionStep, LoginsStep
<1>3. SessionInv /\ LoginsInv => SavedLoginsWork
  <2> SUFFICES ASSUME SessionInv, LoginsInv, ~raced PROVE SavedLoginsWork
    BY DEF SavedLoginsWork
  <2>1. ASSUME NEW h \in Hosts, file.hosts[h] # NoToken
        PROVE  /\ grants[file.hosts[h].grant].host = h
               /\ Current(file.hosts[h]) \/ InHand(file.hosts[h]) \/ file.hosts[h].grant \in revoked
    <3>1. Granted(file.hosts[h].grant) /\ file.hosts[h].grant \in 1 .. MaxGrants
      BY <2>1 DEF SessionInv, KnownConfig, Known, Granted
    <3> QED
      BY <2>1, <3>1 DEF LoginsInv, OwnTokens, Current
  <2> QED
    BY <2>1 DEF SavedLoginsWork, LoginsInv
<1> QED
  BY <1>1, <1>2, <1>3, PTL DEF Spec

-----------------------------------------------------------------------------
(* CheckWait *)

LEMMA LeastNatural ==
  ASSUME NEW S \in SUBSET Nat, S # {}
  PROVE  \E m \in S : \A k \in S : m <= k
<1>1. PICK m \in S : \A y \in S : ~ (<<y, m>> \in OpToRel(<, Nat))
  BY NatLessThanWellFounded, WFMin
<1>2. \A y \in S : ~ (y < m)
  BY <1>1 DEF OpToRel
<1> QED
  BY <1>2

LEMMA GreatestBelow ==
  ASSUME NEW n \in Nat, NEW S \in SUBSET (0 .. n), S # {}
  PROVE  \E m \in S : \A k \in S : k <= m
<1>1. PICK d \in {n - k : k \in S} : \A e \in {n - k : k \in S} : d <= e
  <2>1. \A k \in S : n - k \in Nat
    OBVIOUS
  <2>2. {n - k : k \in S} \in SUBSET Nat /\ {n - k : k \in S} # {}
    BY <2>1
  <2> QED
    BY <2>2, LeastNatural
<1>2. PICK m \in S : d = n - m
  BY <1>1
<1>3. ASSUME NEW k \in S PROVE k <= m
  <2>1. n - m <= n - k
    BY <1>1, <1>2
  <2> QED
    BY <2>1
<1> QED
  BY <1>3

Runs == [standard : Standards, status : {"running"} \cup Finished, importance : Importances, score : {0, 100}]
Checks == [commit : Nat, runs : SUBSET Runs]
WaitRows ==
  [at : {"building", "waiting", "uploaded", "judged", "timed out", "error"},
   commit : Nat, own : Nat, judged : Nat, code : {0, 1, 2}]

\* A check keeps its place and, once pinned, its commit; the check a pipeline
\* had queued for a commit it named is of that commit, so whatever is the
\* commit's newest when it answers is that check or one started after it.
WaitInv ==
  /\ head \in Nat \ {0}
  /\ checks \in Seq(Checks)
  /\ wait \in [Pipelines -> WaitRows]
  /\ \A p \in Pipelines :
       /\ wait[p].own # 0 => wait[p].own \in DOMAIN checks
       /\ wait[p].own # 0 /\ wait[p].commit # 0 => checks[wait[p].own].commit = wait[p].commit
       /\ wait[p].at = "judged" => wait[p].judged \in DOMAIN checks
  /\ ExitIsOfMyCheck

\* What the server does to the checks.
ChecksKept ==
  /\ checks' \in Seq(Checks) /\ DOMAIN checks \subseteq DOMAIN checks'
  /\ \A i \in DOMAIN checks : checks[i].commit # 0 => checks'[i].commit = checks[i].commit

LEMMA RunOfIs ==
  ASSUME NEW s \in Standards, NEW status \in {"running"} \cup Finished
  PROVE  RunOf(s, status) \in Runs
  BY CheckWaitAssumption DEF RunOf, Runs

LEMMA CodeIs ==
  ASSUME NEW k, NEW failUnder
  PROVE  Code(k, failUnder) \in {0, 1, 2}
<1>1. Outcome(k) \in {Undecided, "no_score", "failed", "scored"}
  BY DEF Outcome, Decide, Verdict
<1> QED
  BY <1>1 DEF Code, Undecided

LEMMA CheckIs ==
  ASSUME WaitInv, NEW i \in DOMAIN checks
  PROVE  checks[i] \in Checks
  BY DEF WaitInv

LEMMA NewCheckKeeps ==
  ASSUME WaitInv, NEW commit \in Nat, NEW standards \in SUBSET Standards, NewCheck(commit, standards)
  PROVE  /\ ChecksKept /\ Len(checks) + 1 \in DOMAIN checks' /\ Len(checks) \in Nat
         /\ checks'[Len(checks) + 1].commit = commit
<1>1. PICK k : k = [commit |-> commit, runs |-> {RunOf(s, "running") : s \in standards}]
  OBVIOUS
<1>2. k \in Checks /\ k.commit = commit
  BY <1>1, RunOfIs DEF Checks
<1>3. checks' = Append(checks, k)
  BY <1>1 DEF NewCheck
<1> QED
  BY <1>2, <1>3 DEF WaitInv, ChecksKept

LEMMA OneCheckKeeps ==
  ASSUME WaitInv, NEW i \in DOMAIN checks, NEW k \in Checks, checks' = [checks EXCEPT ![i] = k],
         checks[i].commit # 0 => k.commit = checks[i].commit
  PROVE  ChecksKept
  BY DEF WaitInv, ChecksKept

LEMMA ServerKeeps ==
  ASSUME WaitInv,
         \/ \E checked \in BOOLEAN : PushCommit(checked)
         \/ \E i \in DOMAIN checks :
              \/ PinCheck(i)
              \/ \E r \in checks[i].runs, status \in Finished : FinishRun(i, r, status)
  PROVE  ChecksKept /\ head' \in Nat \ {0} /\ UNCHANGED wait
<1>1. ASSUME NEW checked \in BOOLEAN, PushCommit(checked) PROVE ChecksKept /\ head' \in Nat \ {0} /\ UNCHANGED wait
  <2>1. head' = head + 1 /\ UNCHANGED wait /\ head \in Nat /\ head + 1 \in Nat \ {0}
    BY <1>1 DEF PushCommit, WaitInv
  <2>2. CASE NewCheck(head + 1, Standards)
    BY <2>1, <2>2, NewCheckKeeps
  <2>3. CASE UNCHANGED checks
    BY <2>1, <2>3 DEF WaitInv, ChecksKept
  <2> QED
    BY <1>1, <2>1, <2>2, <2>3 DEF PushCommit
<1>2. ASSUME NEW i \in DOMAIN checks, PinCheck(i) PROVE ChecksKept /\ head' \in Nat \ {0} /\ UNCHANGED wait
  <2>1. PICK k : k = [checks[i] EXCEPT !.commit = head]
    OBVIOUS
  <2>2. k \in Checks /\ checks' = [checks EXCEPT ![i] = k] /\ checks[i].commit = 0
    BY <1>2, <2>1, CheckIs DEF PinCheck, WaitInv, Checks
  <2> QED
    BY <1>2, <2>2, OneCheckKeeps DEF PinCheck, WaitInv
<1>3. ASSUME NEW i \in DOMAIN checks, NEW r \in checks[i].runs, NEW status \in Finished, FinishRun(i, r, status)
      PROVE  ChecksKept /\ head' \in Nat \ {0} /\ UNCHANGED wait
  <2>1. PICK k : k = [checks[i] EXCEPT !.runs = (@ \ {r}) \cup {RunOf(r.standard, status)}]
    OBVIOUS
  <2>2. checks[i] \in Checks /\ r \in Runs /\ RunOf(r.standard, status) \in Runs
    <3>1. checks[i] \in Checks /\ r \in Runs /\ r.standard \in Standards
      BY <1>3, CheckIs DEF Checks, Runs
    <3> QED
      BY <3>1, RunOfIs
  <2>3. k \in Checks /\ k.commit = checks[i].commit
    BY <2>1, <2>2 DEF Checks
  <2>4. checks' = [checks EXCEPT ![i] = k]
    BY <1>3, <2>1 DEF FinishRun
  <2> QED
    BY <1>3, <2>3, <2>4, OneCheckKeeps DEF FinishRun, WaitInv
<1> QED
  BY <1>1, <1>2, <1>3

\* What every pipeline knows stays so while only the server moves; a step of
\* one pipeline has its own row to account for.
LEMMA OnePipeline ==
  ASSUME WaitInv, ChecksKept, head' \in Nat \ {0}, NEW p \in Pipelines, NEW w \in WaitRows,
         wait' = [wait EXCEPT ![p] = w],
         w.own # 0 => w.own \in DOMAIN checks',
         w.own # 0 /\ w.commit # 0 => checks'[w.own].commit = w.commit,
         w.at = "judged" => w.judged \in DOMAIN checks',
         w.at = "judged" /\ w.commit # 0 /\ w.own # 0
           => w.judged >= w.own /\ checks'[w.judged].commit = w.commit
  PROVE  WaitInv'
<1>1. ASSUME NEW q \in Pipelines
      PROVE  /\ wait'[q].own # 0 => wait'[q].own \in DOMAIN checks'
             /\ wait'[q].own # 0 /\ wait'[q].commit # 0 => checks'[wait'[q].own].commit = wait'[q].commit
             /\ wait'[q].at = "judged" => wait'[q].judged \in DOMAIN checks'
             /\ wait'[q].at = "judged" /\ wait'[q].commit # 0 /\ wait'[q].own # 0
                  => wait'[q].judged >= wait'[q].own /\ checks'[wait'[q].judged].commit = wait'[q].commit
  <2>1. CASE q = p
    <3>1. wait'[q] = w
      BY <2>1 DEF WaitInv
    <3> QED
      BY <3>1
  <2>2. CASE q # p
    <3>1. wait'[q] = wait[q]
      BY <2>2 DEF WaitInv
    <3> QED
      BY <3>1 DEF WaitInv, ChecksKept, ExitIsOfMyCheck
  <2> QED
    BY <2>1, <2>2
<1>2. wait' \in [Pipelines -> WaitRows]
  BY DEF WaitInv
<1> QED
  BY <1>1, <1>2 DEF WaitInv, ChecksKept, ExitIsOfMyCheck

LEMMA ServerStep ==
  ASSUME WaitInv, ChecksKept, head' \in Nat \ {0}, UNCHANGED wait
  PROVE  WaitInv'
  BY DEF WaitInv, ChecksKept, ExitIsOfMyCheck

\* A commit's newest check is none older than any check of it.
LEMMA NewestIsLast ==
  ASSUME WaitInv, NEW commit, NEW own \in OfCommit(commit)
  PROVE  NewestOf(commit) \in OfCommit(commit) /\ \A j \in OfCommit(commit) : j <= NewestOf(commit)
<1>1. Len(checks) \in Nat /\ OfCommit(commit) \in SUBSET (0 .. Len(checks)) /\ OfCommit(commit) # {}
  BY DEF WaitInv, OfCommit
<1>2. \E i \in OfCommit(commit) : \A j \in OfCommit(commit) : j <= i
  BY <1>1, GreatestBelow
<1> QED
  BY <1>2 DEF NewestOf

LEMMA PipelineStep ==
  ASSUME WaitInv, NEW p \in Pipelines,
         \/ \E commit \in 0 .. head : AskForCheck(p, commit)
         \/ Upload(p) \/ Poll(p) \/ TimeOut(p) \/ Fail(p)
  PROVE  WaitInv'
<1>0. DOMAIN checks = 1 .. Len(checks) /\ Len(checks) \in Nat
  BY DEF WaitInv
<1>row. /\ wait[p] \in WaitRows /\ wait[p].judged \in Nat /\ wait[p].code \in {0, 1, 2}
        /\ Len(checks) + 1 \in Nat /\ \A i \in DOMAIN checks : i \in Nat
  <2>1. wait[p] \in WaitRows
    BY DEF WaitInv
  <2>2. wait[p].judged \in Nat /\ wait[p].code \in {0, 1, 2}
    BY <2>1 DEF WaitRows
  <2>3. Len(checks) + 1 \in Nat /\ \A i \in DOMAIN checks : i \in Nat
    BY <1>0
  <2> QED
    BY <2>1, <2>2, <2>3
<1>1. ASSUME NEW commit \in 0 .. head, AskForCheck(p, commit) PROVE WaitInv'
  <2>1. commit \in Nat /\ Standards \ InFlight \in SUBSET Standards /\ UNCHANGED head
        /\ wait[p].at = "building"
    <3>1. commit \in Nat
      BY DEF WaitInv
    <3> QED
      BY <1>1, <3>1 DEF AskForCheck
  <2>2. CASE Standards \ InFlight # {}
    <3>1. NewCheck(commit, Standards \ InFlight)
      BY <1>1, <2>2 DEF AskForCheck
    <3>2. PICK w : w = [wait[p] EXCEPT !.at = "waiting", !.commit = commit, !.own = Len(checks) + 1]
      OBVIOUS
    <3>3. wait' = [wait EXCEPT ![p] = w]
      BY <1>1, <2>2, <3>2 DEF AskForCheck, WaitInv
    <3>4. w = [at |-> "waiting", commit |-> commit, own |-> Len(checks) + 1,
               judged |-> wait[p].judged, code |-> wait[p].code]
      BY ZenonT(60), <3>2 DEF WaitInv, WaitRows
    <3>5. w.at = "waiting" /\ w.commit = commit /\ w.own = Len(checks) + 1 /\ w \in WaitRows
      BY <1>row, <2>1, <3>4 DEF WaitRows
    <3> QED
      BY <1>0, <2>1, <3>1, <3>3, <3>5, NewCheckKeeps, OnePipeline DEF WaitInv
  <2>3. CASE Standards \ InFlight = {}
    <3>1. UNCHANGED checks /\ ChecksKept
      BY <1>1, <2>3 DEF AskForCheck, WaitInv, ChecksKept
    <3>2. PICK w : w = [wait[p] EXCEPT !.at = "waiting", !.commit = commit, !.own = 0]
      OBVIOUS
    <3>3. wait' = [wait EXCEPT ![p] = w]
      BY <1>1, <2>3, <3>2 DEF AskForCheck, WaitInv
    <3>4. w = [at |-> "waiting", commit |-> commit, own |-> 0,
               judged |-> wait[p].judged, code |-> wait[p].code]
      BY ZenonT(60), <3>2 DEF WaitInv, WaitRows
    <3>5. w.at = "waiting" /\ w.commit = commit /\ w.own = 0 /\ w \in WaitRows
      BY <1>row, <2>1, <3>4 DEF WaitRows
    <3> QED
      BY <1>0, <2>1, <3>1, <3>3, <3>5, OnePipeline DEF WaitInv
  <2> QED
    BY <2>2, <2>3
<1>2. CASE Upload(p)
  <2>1. head + 1 \in Nat \ {0} /\ head' = head + 1 /\ NewCheck(head + 1, Standards)
    BY <1>2 DEF Upload, WaitInv
  <2>2. PICK w : w = [wait[p] EXCEPT !.at = "uploaded", !.commit = head + 1, !.own = Len(checks) + 1]
    OBVIOUS
  <2>3. wait' = [wait EXCEPT ![p] = w]
    BY <1>2, <2>2 DEF Upload, WaitInv
  <2>4. w = [at |-> "uploaded", commit |-> head + 1, own |-> Len(checks) + 1,
             judged |-> wait[p].judged, code |-> wait[p].code]
    BY <2>2 DEF WaitInv, WaitRows
  <2>5. w.at = "uploaded" /\ w.commit = head + 1 /\ w.own = Len(checks) + 1 /\ w \in WaitRows
    BY <1>row, <2>1, <2>4 DEF WaitRows
  <2> QED
    BY <1>0, <2>1, <2>3, <2>5, NewCheckKeeps, OnePipeline
<1>3. ASSUME NEW why \in {"judged", "timed out", "error"}, NEW judged \in Nat, NEW code \in {0, 1, 2}, Exit(p, why, judged, code), why # "judged" \/
               (/\ judged \in DOMAIN checks
                /\ wait[p].commit # 0 /\ wait[p].own # 0
                     => judged >= wait[p].own /\ checks[judged].commit = wait[p].commit)
      PROVE  WaitInv'
  <2>1. PICK w : w = [wait[p] EXCEPT !.at = why, !.judged = judged, !.code = code]
    OBVIOUS
  <2>2. wait' = [wait EXCEPT ![p] = w] /\ UNCHANGED <<head, checks>>
    BY <1>3, <2>1 DEF Exit, WaitInv
  <2>3. w = [at |-> why, commit |-> wait[p].commit, own |-> wait[p].own, judged |-> judged, code |-> code]
    BY ZenonT(60), <2>1 DEF WaitInv, WaitRows
  <2>4. w.at = why /\ w.commit = wait[p].commit /\ w.own = wait[p].own /\ w.judged = judged
        /\ w \in WaitRows
    BY <2>3 DEF WaitInv, WaitRows
  <2>5. ChecksKept /\ head' \in Nat \ {0} 
        /\ (wait[p].own # 0 => wait[p].own \in DOMAIN checks')
        /\ (wait[p].own # 0 /\ wait[p].commit # 0 => checks'[wait[p].own].commit = wait[p].commit)
    BY <2>2 DEF WaitInv, ChecksKept
  <2> QED
    BY <1>3, <2>2, <2>4, <2>5, OnePipeline
<1>4. CASE Poll(p)
  <2>1. CASE wait[p].commit = 0
    <3>1. PICK i \in DOMAIN checks : Exit(p, "judged", i, Code(checks[i], FailUnder[p]))
      BY <1>4, <2>1 DEF Poll, HeadAnswers
    <3>2. PICK code \in {0, 1, 2} : code = Code(checks[i], FailUnder[p])
      BY CodeIs
    <3> QED
      BY <1>row, <1>3, <2>1, <3>1, <3>2
  <2>2. CASE wait[p].commit # 0
    <3>1. PICK i \in AnswersFor(p) : Exit(p, "judged", i, Code(checks[i], FailUnder[p]))
      BY <1>4, <2>2 DEF Poll
    <3>2. i \in DOMAIN checks /\ i = NewestOf(wait[p].commit) /\ checks[i].commit = wait[p].commit
      BY <3>1 DEF AnswersFor, OfCommit
    <3>3. wait[p].own # 0 => i >= wait[p].own
      <4>1. ASSUME wait[p].own # 0 PROVE wait[p].own \in OfCommit(wait[p].commit)
        BY <2>2, <4>1 DEF WaitInv, OfCommit
      <4> QED
        BY <1>0, <3>2, <4>1, NewestIsLast DEF WaitInv
    <3> QED
      <4>1. PICK code \in {0, 1, 2} : code = Code(checks[i], FailUnder[p])
        BY CodeIs
      <4> QED
        BY <1>row, <1>3, <3>1, <3>2, <3>3, <4>1
  <2> QED
    BY <2>1, <2>2
<1>5. CASE TimeOut(p) \/ Fail(p)
  BY <1>3, <1>5 DEF TimeOut, Fail
<1> QED
  BY <1>1, <1>2, <1>4, <1>5

LEMMA WaitStep == WaitInv /\ [WaitNext]_waitVars => WaitInv'
<1> SUFFICES ASSUME WaitInv, [WaitNext]_waitVars PROVE WaitInv'
  OBVIOUS
<1>1. CASE UNCHANGED waitVars
  BY <1>1 DEF waitVars, WaitInv, ExitIsOfMyCheck
<1> QED
  BY <1>1, ServerKeeps, ServerStep, PipelineStep DEF WaitNext

\* A pipeline that names its commit and got a check queued exits by that check
\* or a later one of the commit, never by an older answer (cli/cmd/check.go
\* waitForCommit, domain/scoring).
THEOREM ExitIsOfMyCheckHolds == Spec => []ExitIsOfMyCheck
<1>1. Init => WaitInv
  BY DEF Init, WaitInit, WaitInv, WaitRows, NotAsked, ExitIsOfMyCheck
<1>2. WaitInv /\ [Next]_vars => WaitInv'
  BY WaitStep DEF Next, vars, waitVars
<1>3. WaitInv => ExitIsOfMyCheck
  BY DEF WaitInv
<1> QED
  BY <1>1, <1>2, <1>3, PTL DEF Spec
=============================================================================
