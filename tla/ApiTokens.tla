----------------------------- MODULE ApiTokens -----------------------------
(***************************************************************************)
(* The long-lived API tokens (APIToken of app/domain/models.py, issued and *)
(* revoked by presentation/views/token_views.py) and what a call made with *)
(* one may do (application/api_token_service.py, presentation/api): a      *)
(* personal token acts as its user, in each of their workspaces; a         *)
(* workspace token acts in its workspace, with no person behind it.        *)
(* Who sits where is changed by the steps of module People, reduced here   *)
(* to their effect on seats and accounts.                                  *)
(***************************************************************************)
EXTENDS Naturals, FiniteSets

CONSTANTS Staff, Workspaces, Nobody,
          MaxTokens   \* tokens ever issued

ASSUME ApiTokensAssumption == Nobody \notin Staff \cup Workspaces /\ MaxTokens \in Nat

VARIABLES standing,  \* per person: "active", "inactive" or "deleted"
          seats,     \* <<person, workspace, "admin" or "member">>
          tokens,    \* the rows of api_tokens
          issued,    \* how many were issued
          wanted     \* workspace tokens nobody with the right to has taken back

tokenVars == <<standing, seats, tokens, issued, wanted>>

TokensInit ==
  /\ standing = [u \in Staff |-> "active"]
  /\ seats = {<<u, w, "admin">> : u \in Staff, w \in Workspaces}
  /\ tokens = {} /\ wanted = {}
  /\ issued = 0

SitsIn(u, w) == \E role \in {"admin", "member"} : <<u, w, role>> \in seats
IsAdmin(u, w) == standing[u] = "active" /\ <<u, w, "admin">> \in seats

\* APIToken.issue: personal tokens have a user, workspace tokens a workspace.
Issue(user, workspace, by) ==
  /\ issued < MaxTokens
  /\ issued' = issued + 1
  /\ tokens' = tokens \cup {[id |-> issued + 1, user |-> user, workspace |-> workspace, by |-> by]}
  /\ wanted' = IF user = Nobody THEN wanted \cup {issued + 1} ELSE wanted
  /\ UNCHANGED <<standing, seats>>
CreatePersonalToken(u) == standing[u] = "active" /\ Issue(u, Nobody, u)
CreateWorkspaceToken(u, w) == IsAdmin(u, w) /\ Issue(Nobody, w, u)

Revoke(t) ==
  /\ tokens' = tokens \ {t} /\ wanted' = wanted \ {t.id}
  /\ UNCHANGED <<standing, seats, issued>>
RevokePersonalToken(u, t) == standing[u] = "active" /\ t.user = u /\ Revoke(t)
RevokeWorkspaceToken(u, t) == t.user = Nobody /\ IsAdmin(u, t.workspace) /\ Revoke(t)

-----------------------------------------------------------------------------
(* People come and go *)

LeaveWorkspace(u, w) ==
  /\ SitsIn(u, w)
  /\ seats' = seats \ {<<u, w, "admin">>, <<u, w, "member">>}
  /\ UNCHANGED <<standing, tokens, issued, wanted>>
ChangeRole(u, w, role) ==
  /\ SitsIn(u, w) /\ <<u, w, role>> \notin seats
  /\ seats' = (seats \ {<<u, w, "admin">>, <<u, w, "member">>}) \cup {<<u, w, role>>}
  /\ UNCHANGED <<standing, tokens, issued, wanted>>
SetActive(u, status) ==
  /\ standing[u] \notin {status, "deleted"}
  /\ standing' = [standing EXCEPT ![u] = status]
  /\ UNCHANGED <<seats, tokens, issued, wanted>>

\* A deleted account takes its personal tokens along; the workspace tokens it
\* created only forget who created them.
\* Mutant of OutlivingTheirUser: created_by cascades like user.
OutlivingEveryone(u) == {t \in tokens : t.user # u /\ t.by # u}
OutlivingTheirUser(u) ==
  {[t EXCEPT !.by = IF @ = u THEN Nobody ELSE @] : t \in {t \in tokens : t.user # u}}
DeleteAccount(u) ==
  /\ standing[u] # "deleted"
  /\ standing' = [standing EXCEPT ![u] = "deleted"]
  /\ seats' = {seat \in seats : seat[1] # u}
  /\ tokens' = OutlivingTheirUser(u)
  /\ UNCHANGED <<issued, wanted>>
DeleteWorkspace(w) ==
  /\ \E u \in Staff : IsAdmin(u, w)
  /\ seats' = {seat \in seats : seat[2] # w}
  /\ tokens' = {t \in tokens : t.workspace # w}
  /\ wanted' = wanted \ {t.id : t \in {t \in tokens : t.workspace = w}}
  /\ UNCHANGED <<standing, issued>>

TokensNext ==
  \/ \E u \in Staff :
       \/ CreatePersonalToken(u) \/ DeleteAccount(u)
       \/ \E w \in Workspaces :
            \/ CreateWorkspaceToken(u, w) \/ LeaveWorkspace(u, w)
            \/ \E role \in {"admin", "member"} : ChangeRole(u, w, role)
       \/ \E t \in tokens : RevokePersonalToken(u, t) \/ RevokeWorkspaceToken(u, t)
       \/ \E status \in {"active", "inactive"} : SetActive(u, status)
  \/ \E w \in Workspaces : DeleteWorkspace(w)

-----------------------------------------------------------------------------
(* What a call with a token may do *)

\* resolve_api_token and APITokenAuthentication: a row, and for a personal
\* token its user still active.
Resolves(t) == t \in tokens /\ (t.user # Nobody => standing[t.user] = "active")
\* WorkspaceAPIView._workspace: its own workspace, or one its user sits in.
Reaches(t, w) == Resolves(t) /\ IF t.user = Nobody THEN t.workspace = w ELSE SitsIn(t.user, w)
\* What GET /me/ lists for it.
Listed(t) == IF t.user = Nobody THEN {t.workspace} ELSE {w \in Workspaces : SitsIn(t.user, w)}

-----------------------------------------------------------------------------
(* Properties *)

\* "automation doesn't break when a person leaves": whatever happens to the
\* people, a workspace token nobody with the right to has revoked is still
\* there and still reaches its workspace.  And a token reaches exactly what
\* /me/ lists for it, which is what the CLI picks a workspace from.
AutomationSurvivesPeople ==
  /\ \A id \in wanted : \E t \in tokens : t.id = id /\ Reaches(t, t.workspace)
  /\ \A t \in tokens : Resolves(t) => Listed(t) = {w \in Workspaces : Reaches(t, w)}
=============================================================================
