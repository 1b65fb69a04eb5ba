----------------------------- MODULE CliSession -----------------------------
(***************************************************************************)
(* What the command line client keeps between commands: hosts.yml, read    *)
(* whole when a command opens its session and written whole by whatever    *)
(* saves (cli/internal/config), the OAuth tokens in it, refreshed when     *)
(* about to expire (cli/internal/session, cli/internal/auth), and the      *)
(* commands that change it (cli/cmd/auth.go, workspace.go).                *)
(*                                                                         *)
(* The server rotates a refresh token on every use and ends the whole      *)
(* grant when a rotated one is used again (OAUTH2_PROVIDER of settings).   *)
(* A token is the grant it came from and the turn of the rotation: it      *)
(* stands for the access token, the refresh token and the expiry, which    *)
(* are saved together.                                                     *)
(***************************************************************************)
EXTENDS Naturals, FiniteSets

CONSTANTS Hosts, NoHost,
          Shells,       \* where commands are run, one at a time in each
          MaxGrants,    \* logins the servers ever grant
          MaxTurns      \* rotations of one grant's refresh token

ASSUME CliSessionAssumption ==
  NoHost \notin Hosts /\ MaxGrants \in Nat /\ MaxTurns \in Nat \ {0}

VARIABLES file,     \* hosts.yml: the default host, and per host a token
          grants,   \* the servers' side of the tokens
          command,  \* the command each shell is running
          revoked,  \* grants a logout has asked its server to end
          raced     \* two commands met on one file or token, or one died holding a new token

sessionVars == <<file, grants, command, revoked, raced>>

Token(g, turn) == [grant |-> g, turn |-> turn]
NoToken == Token(0, 0)
EmptyConfig == [default |-> NoHost, hosts |-> [h \in Hosts |-> NoToken]]
NoGrant == [host |-> NoHost, turn |-> 0, live |-> FALSE, aged |-> FALSE]
NoCommand == [at |-> "none", name |-> "none", host |-> NoHost, config |-> EmptyConfig, got |-> NoToken]
Commands == {"call", "use", "login", "logout", "switch"}

SessionInit ==
  /\ file = EmptyConfig
  /\ grants = [g \in 1 .. MaxGrants |-> NoGrant]
  /\ command = [p \in Shells |-> NoCommand]
  /\ revoked = {}
  /\ raced = FALSE

-----------------------------------------------------------------------------
(* One command *)

Saved(p) == command[p].config.hosts[command[p].host]
LoggedIn(config, h) == config.hosts[h] # NoToken
At(p, where) == command[p].at = where
GoOn(p, where, config, got) ==
  command' = [command EXCEPT ![p] =
                [at |-> where, name |-> @.name, host |-> @.host, config |-> config, got |-> got]]
End(p) == command' = [command EXCEPT ![p] = NoCommand]
WithToken(config, h, token) == [config EXCEPT !.hosts[h] = token]

\* Open: the whole file is loaded; the host is --host's, else the default.
\* (Bound: no command starts once commands have raced; nothing is promised
\* from there on.)
ResolveHost(flag, config) == IF flag # NoHost THEN flag ELSE config.default

Open(p, name, flag) ==
  LET host == ResolveHost(flag, file)
  IN /\ ~raced /\ At(p, "none") /\ host # NoHost
     /\ command' = [command EXCEPT ![p] = [at |-> "open", name |-> name, host |-> host, config |-> file, got |-> NoToken]]
     /\ UNCHANGED <<file, grants, revoked, raced>>

\* Save replaces the file with what this command has in memory.
Save(p, config) ==
  /\ file' = config
  /\ raced' = (raced \/ file # command[p].config)

-----------------------------------------------------------------------------
(* The token endpoint *)

\* Within a minute of its expiry; a rotated token was.
Aged(token) == grants[token.grant].aged \/ token.turn < grants[token.grant].turn
Current(token) == grants[token.grant].live /\ token.turn = grants[token.grant].turn

\* The access token is about to expire.
Age(g) ==
  /\ grants[g].live /\ ~grants[g].aged /\ grants[g].turn < MaxTurns
  /\ grants' = [grants EXCEPT ![g].aged = TRUE]
  /\ UNCHANGED <<file, command, revoked, raced>>

Rotate(token) ==
  grants' = [grants EXCEPT ![token.grant].turn = @ + 1, ![token.grant].aged = FALSE]
EndGrant(token) == grants' = [grants EXCEPT ![token.grant].live = FALSE]

\* Token of a command that calls the API: a saved token, refreshed when aged.
NeedsToken(p) == command[p].name \in {"call", "use"} /\ At(p, "open")
NotLoggedIn(p) ==
  /\ At(p, "open") /\ command[p].name # "login" /\ Saved(p) = NoToken
  /\ End(p) /\ UNCHANGED <<file, grants, revoked, raced>>
UseSaved(p) ==
  /\ NeedsToken(p) /\ Saved(p) # NoToken /\ ~Aged(Saved(p))
  /\ GoOn(p, "ready", command[p].config, NoToken) /\ UNCHANGED <<file, grants, revoked, raced>>
Refresh(p) ==
  /\ NeedsToken(p) /\ Saved(p) # NoToken /\ Aged(Saved(p)) /\ Current(Saved(p))
  /\ Rotate(Saved(p))
  /\ GoOn(p, "answered", command[p].config, Token(Saved(p).grant, Saved(p).turn + 1))
  /\ UNCHANGED <<file, revoked, raced>>
\* invalid_grant: "your session has expired".
RefreshRefused(p) ==
  /\ NeedsToken(p) /\ Saved(p) # NoToken /\ Aged(Saved(p)) /\ ~Current(Saved(p))
  /\ EndGrant(Saved(p))
  /\ raced' = (raced \/ grants[Saved(p).grant].live)
  /\ End(p) /\ UNCHANGED <<file, revoked>>

\* Mutant of KeepRefreshed: the new token is used, the saved one kept.
UseRefreshed(p) ==
  /\ At(p, "answered") /\ command[p].name # "login"
  /\ GoOn(p, "ready", command[p].config, NoToken)
  /\ UNCHANGED <<file, grants, revoked, raced>>

KeepRefreshed(p) ==
  LET config == WithToken(command[p].config, command[p].host, command[p].got)
  IN /\ At(p, "answered") /\ command[p].name # "login"
     /\ Save(p, config)
     /\ GoOn(p, "ready", config, NoToken)
     /\ UNCHANGED <<grants, revoked>>

-----------------------------------------------------------------------------
(* The commands *)

\* `auth login`: the browser flow ends in a new grant, or times out.
Grant(p, g) ==
  /\ At(p, "open") /\ command[p].name = "login"
  /\ grants[g] = NoGrant /\ \A other \in 1 .. g - 1 : grants[other] # NoGrant
  /\ grants' = [grants EXCEPT ![g] = [host |-> command[p].host, turn |-> 1, live |-> TRUE, aged |-> FALSE]]
  /\ GoOn(p, "answered", command[p].config, Token(g, 1))
  /\ UNCHANGED <<file, revoked, raced>>
GiveUp(p) ==
  /\ At(p, "open") /\ command[p].name = "login"
  /\ End(p) /\ UNCHANGED <<file, grants, revoked, raced>>
KeepGrant(p) ==
  LET config == [WithToken(command[p].config, command[p].host, command[p].got)
                   EXCEPT !.default = command[p].host]
  IN /\ At(p, "answered") /\ command[p].name = "login"
     /\ Save(p, config)
     /\ GoOn(p, "ready", config, NoToken)
     /\ UNCHANGED <<grants, revoked>>

\* `auth login` and `workspace use` keep the workspace GET /me/ names (left
\* out of the entry): the file is saved once more.
SetWorkspace(p) ==
  /\ At(p, "ready") /\ command[p].name \in {"login", "use"} /\ Current(Saved(p))
  /\ Save(p, command[p].config) /\ End(p) /\ UNCHANGED <<grants, revoked>>
\* An API call changes nothing here; neither does `workspace use` of a name
\* /me/ does not list, or a login whose /me/ fails.
Call(p) ==
  /\ At(p, "ready") /\ command[p].name # "logout"
  /\ End(p) /\ UNCHANGED <<file, grants, revoked, raced>>

\* `auth logout`: the refresh token's revocation takes the access token too.
RevokeTokens(p) == IF Current(Saved(p)) THEN EndGrant(Saved(p)) ELSE UNCHANGED grants
Logout(p, reached) ==
  /\ At(p, "open") /\ command[p].name = "logout" /\ Saved(p) # NoToken
  /\ IF reached
     THEN /\ RevokeTokens(p)
          /\ revoked' = revoked \cup {Saved(p).grant}
          /\ raced' = (raced \/ (grants[Saved(p).grant].live /\ ~Current(Saved(p))))
     ELSE UNCHANGED <<grants, revoked, raced>>
  /\ GoOn(p, "ready", command[p].config, NoToken) /\ UNCHANGED file

Forgotten(config, h) ==
  [WithToken(config, h, NoToken) EXCEPT !.default = IF @ = h THEN NoHost ELSE @]
ForgetHost(p) ==
  /\ At(p, "ready") /\ command[p].name = "logout"
  /\ Save(p, Forgotten(command[p].config, command[p].host))
  /\ End(p) /\ UNCHANGED <<grants, revoked>>

\* `auth switch`.
Switch(p) ==
  /\ At(p, "open") /\ command[p].name = "switch" /\ Saved(p) # NoToken
  /\ Save(p, [command[p].config EXCEPT !.default = command[p].host])
  /\ End(p) /\ UNCHANGED <<grants, revoked>>

\* The process dies, or the server's answer never reaches it.
Interrupt(p) ==
  /\ ~At(p, "none")
  /\ raced' = (raced \/ (At(p, "answered") /\ command[p].name # "login"))
  /\ End(p) /\ UNCHANGED <<file, grants, revoked>>

SessionNext ==
  \/ \E p \in Shells :
       \/ \E name \in Commands, flag \in Hosts \cup {NoHost} : Open(p, name, flag)
       \/ NotLoggedIn(p) \/ UseSaved(p) \/ Refresh(p) \/ RefreshRefused(p) \/ KeepRefreshed(p)
       \/ \E g \in 1 .. MaxGrants : Grant(p, g)
       \/ GiveUp(p) \/ KeepGrant(p)
       \/ SetWorkspace(p)
       \/ \E reached \in BOOLEAN : Logout(p, reached)
       \/ Call(p) \/ ForgetHost(p) \/ Switch(p) \/ Interrupt(p)
  \/ \E g \in 1 .. MaxGrants : Age(g)

-----------------------------------------------------------------------------
(* Properties *)

\* A token rotated in an answer some command has not saved yet.
InHand(token) == \E p \in Shells : At(p, "answered") /\ command[p].got.grant = token.grant

\* As long as no two commands meet and none dies holding a new token, what
\* hosts.yml says is true: each entry's token is its own server's newest, still
\* good unless a logout is ending it, and the default host is one logged in to.
\* (KeepRefreshed must save what Refresh rotated, for every command that may
\* come next, and logout and switch must leave the other hosts alone.)
SavedLoginsWork ==
  ~raced =>
    /\ \A h \in Hosts : LET token == file.hosts[h] IN
         token # NoToken =>
           /\ grants[token.grant].host = h
           /\ Current(token) \/ InHand(token) \/ token.grant \in revoked
    /\ file.default # NoHost => LoggedIn(file, file.default)

\* A logout that reached its server leaves nothing of the login it ended: no
\* token of that grant, older or newer, is accepted any more.
LogoutEndsTheGrant == ~raced => \A g \in revoked : ~grants[g].live
=============================================================================
