-------------------------- MODULE WorkspaceSession --------------------------
(***************************************************************************)
(* Which workspace a signed-in user's requests act in: the session of one  *)
(* user, TenantMiddleware, workspace_access and the handlers that change   *)
(* the session, with the GitHub App's flows that park GitHub's answers in  *)
(* it (views/github_app_views.py) and the App's own deliveries             *)
(* (views/base_webhook.py).                                                *)
(*                                                                         *)
(* A request loads the session, is resolved to a workspace, acts, and      *)
(* saves the session whole: requests of two tabs overwrite each other.     *)
(***************************************************************************)
EXTENDS Integers, FiniteSets, FiniteSetsExt

CONSTANTS NumWorkspaces, Installations, Tabs, Nothing,
          Parts   \* sets of the parts in use, followed separately

VARIABLES parts,
          world,     \* of a workspace: "unborn", "live" or "deleted"
          role, super,   \* the user's membership in each, and their flag
          session,   \* what is stored
          tabs,      \* requests under way
          entered,   \* ghost: support views entered since the last login
          states,    \* workspaces an unexpired install state was signed for
          reach, installed,  \* GitHub: what the user may reach, what exists
          connections,
          projects,  \* one repository of each installation, as a project
          granted,   \* installations whose repository the App may still read
          events, missed,  \* deliveries under way, and lost
          vouched, late    \* ghosts: GitHub's answers; answers outlived

gitHub == <<states, reach, installed, granted, events, missed, vouched>>
links == <<connections, projects, late>>
people == <<role, super, world>>
sessionVars == <<parts, people, session, tabs, entered, gitHub, links>>

\* Workspaces in the order they were created.
Workspaces == 1..NumWorkspaces
ASSUME SessionAssumption == NumWorkspaces \in Nat /\ Nothing \notin Workspaces
Live == {w \in Workspaces : world[w] = "live"}
Mine == {w \in Live : role[w] # "none"}
Empty == [active |-> Nothing, support |-> Nothing, install |-> Nothing, choices |-> Nothing]
Idle == [pc |-> "idle"]

-----------------------------------------------------------------------------
(* The session and the middleware *)

\* enter_support_view and leave_support_view.  The marker is the entry time
\* in the code; here it says which workspace was entered.
Enter(s, w) == [s EXCEPT !.active = w, !.support = w]
Leave(s) == IF s.support = Nothing THEN s
            ELSE [s EXCEPT !.active = Nothing, !.support = Nothing]
Home(s, w) == [Leave(s) EXCEPT !.active = w]

ResolveSupportTenant(s) == super /\ s.support # Nothing

At(copy, w, support, dirty) ==
  [pc |-> "at", copy |-> copy, ws |-> w, support |-> support, dirty |-> dirty,
   old |-> FALSE, inst |-> Nothing]

\* Everything but a membership or an entered support view falls back to the
\* user's oldest workspace.
FallBack(s) ==
  LET kept == IF s.active # Nothing /\ ResolveSupportTenant(s) THEN Leave(s) ELSE s
  IN IF Mine = {} THEN At(kept, Nothing, FALSE, kept # s)
     ELSE At([kept EXCEPT !.active = Min(Mine), !.support = Nothing], Min(Mine), FALSE, TRUE)

Resolve(s) ==
  IF s.active \in Mine THEN At([s EXCEPT !.support = Nothing], s.active, FALSE, TRUE)
  ELSE IF s.active \in Live /\ ResolveSupportTenant(s) THEN At(s, s.active, TRUE, FALSE)
  ELSE FallBack(s)

Arrive(t) ==
  /\ tabs[t] = Idle
  /\ tabs' = [tabs EXCEPT ![t] = Resolve(session)]
  /\ UNCHANGED <<parts, people, session, entered, gitHub, links>>

\* The response saves the session as the request leaves it, if it touched it
\* and the session still exists.
Respond(t, copy) ==
  /\ session' = IF ~tabs[t].old /\ (tabs[t].dirty \/ copy # tabs[t].copy) THEN copy ELSE session
  /\ tabs' = [tabs EXCEPT ![t] = Idle]
  /\ UNCHANGED parts

JustRespond(t) ==
  /\ tabs[t].pc = "at" /\ tabs[t].dirty
  /\ Respond(t, tabs[t].copy)
  /\ UNCHANGED <<people, entered, gitHub, links>>

\* workspace_switcher_list: what a user may switch to.
Rows == {w \in Live : super \/ role[w] # "none"}

\* Mutant of SwitchTenant: the support view is not left.
SwitchWithoutLeaving(t, w) ==
  /\ tabs[t].pc = "at" /\ w \in Rows
  /\ Respond(t, IF role[w] # "none" THEN [tabs[t].copy EXCEPT !.active = w]
                ELSE Enter(tabs[t].copy, w))
  /\ entered' = entered \union {w}
  /\ UNCHANGED <<people, gitHub, links>>

SwitchTenant(t, w) ==
  /\ tabs[t].pc = "at" /\ w \in Rows
  /\ \/ /\ role[w] # "none"
        /\ Respond(t, Home(tabs[t].copy, w)) /\ UNCHANGED entered
     \/ /\ role[w] = "none"
        /\ Respond(t, Enter(tabs[t].copy, w)) /\ entered' = entered \union {w}
  /\ UNCHANGED <<people, gitHub, links>>

LeaveSupportView(t) ==
  /\ tabs[t].pc = "at" /\ tabs[t].copy.support # Nothing
  /\ Respond(t, Leave(tabs[t].copy))
  /\ UNCHANGED <<people, entered, gitHub, links>>

LeaveWorkspaceView(t) ==
  /\ "people" \in parts /\ tabs[t].pc = "at" /\ tabs[t].ws \in Mine
  /\ role' = [role EXCEPT ![tabs[t].ws] = "none"]
  /\ Respond(t, [tabs[t].copy EXCEPT !.active = Nothing])
  /\ UNCHANGED <<super, world, entered, gitHub, links>>

\* What goes with a workspace.
Erase(w) ==
  /\ world' = [world EXCEPT ![w] = "deleted"]
  /\ role' = [role EXCEPT ![w] = "none"]
  /\ connections' = {c \in connections : c[1] # w}
  /\ projects' = {c \in projects : c[1] # w}
  /\ late' = {c \in late : c[1] # w}
  /\ UNCHANGED super

DeleteActiveWorkspace(t) ==
  /\ "people" \in parts /\ tabs[t].pc = "at" /\ tabs[t].ws \in Live
  /\ super \/ role[tabs[t].ws] = "admin"
  /\ Erase(tabs[t].ws)
  /\ Respond(t, Leave([tabs[t].copy EXCEPT !.active = Nothing]))
  /\ UNCHANGED <<entered, gitHub>>

\* CreateTenantView.form_valid: for oneself, or for somebody else.
CreateTenantView(t, w) ==
  /\ tabs[t].pc = "at" /\ super /\ world[w] = "unborn"
  /\ world' = [world EXCEPT ![w] = "live"]
  /\ \/ /\ role' = [role EXCEPT ![w] = "admin"]
        /\ Respond(t, Home(tabs[t].copy, w)) /\ UNCHANGED entered
     \/ /\ Respond(t, Enter(tabs[t].copy, w)) /\ entered' = entered \union {w}
        /\ UNCHANGED role
  /\ UNCHANGED <<super, gitHub, links>>

\* Accepting an invitation, then enter_workspace.
EnterByInvitation(t, w) ==
  /\ "people" \in parts /\ tabs[t].pc = "at" /\ w \in Live \ Mine
  /\ role' = [role EXCEPT ![w] = "member"]
  /\ Respond(t, Home(tabs[t].copy, w))
  /\ UNCHANGED <<super, world, entered, gitHub, links>>

\* reset_support_view, on user_logged_in.  Django changes the session's key:
\* a request under way can no longer save.
AtLogin(s) == Leave(s)
Orphan == tabs' = [t \in Tabs |-> IF tabs[t] = Idle THEN Idle ELSE [tabs[t] EXCEPT !.old = TRUE]]
Login ==
  /\ "people" \in parts
  /\ session' = AtLogin(session)
  /\ Orphan /\ entered' = {}
  /\ UNCHANGED <<parts, people, gitHub, links>>

-----------------------------------------------------------------------------
(* Other people: roles, the superuser flag, the workspace itself *)

Appoint(w, r) ==
  /\ "people" \in parts /\ w \in Live /\ role[w] # r
  /\ role' = [role EXCEPT ![w] = r]
  /\ UNCHANGED <<parts, super, world, session, tabs, entered, gitHub, links>>
FlipSuperuser ==
  /\ "people" \in parts
  /\ super' = ~super
  /\ UNCHANGED <<parts, role, world, session, tabs, entered, gitHub, links>>
DeletedByAnother(w) ==
  /\ "people" \in parts /\ w \in Live
  /\ Erase(w)
  /\ UNCHANGED <<parts, session, tabs, entered, gitHub>>

-----------------------------------------------------------------------------
(* Connecting an installation *)

IsWorkspaceAdmin(w) == w \in Live /\ (super \/ role[w] = "admin")
Acting(t) ==
  /\ tabs[t].pc = "at" /\ tabs[t].ws # Nothing /\ IsWorkspaceAdmin(tabs[t].ws)

\* github_app_install and github_app_install_new both sign a state.
SignState(w) == states' = states \union {w}
GithubAppInstall(t) ==
  /\ "connect" \in parts /\ Acting(t) /\ SignState(tabs[t].ws)
  /\ Respond(t, tabs[t].copy)
  /\ UNCHANGED <<people, entered, reach, installed, granted, events, missed, vouched, links>>
ExpireState(w) ==
  /\ w \in states
  /\ states' = states \ {w}
  /\ UNCHANGED <<parts, people, session, tabs, entered, reach, installed, granted, events,
                 missed, vouched, links>>

\* The state a callback carries, if any, is unexpired and names w.
StateIsAcceptable(s, w) == s = Nothing \/ (s \in states /\ s = w)

\* GitHub's answer to the user's code.
ListUserInstallations == reach \intersect installed
Vouch(w, insts) == vouched' = vouched \union ({w} \X insts)

OfferReachable(t, s) ==
  /\ "connect" \in parts /\ Acting(t) /\ StateIsAcceptable(s, tabs[t].ws)
  /\ LET w == tabs[t].ws
     IN IF ListUserInstallations = {}
        THEN /\ SignState(w) /\ UNCHANGED vouched
             /\ Respond(t, tabs[t].copy)
        ELSE /\ Vouch(IF s = Nothing THEN w ELSE s, ListUserInstallations)
             /\ Respond(t, [tabs[t].copy EXCEPT !.choices = [ws |-> w, insts |-> ListUserInstallations]])
             /\ UNCHANGED states
  /\ UNCHANGED <<people, entered, reach, installed, granted, events, missed, links>>

\* The callback of an installation, with a code: connected at once when a
\* state says where, else parked for the user to confirm.
UserIsEntitled(i) == i \in ListUserInstallations
Callback(t, s, i) ==
  /\ "connect" \in parts /\ Acting(t) /\ StateIsAcceptable(s, tabs[t].ws) /\ UserIsEntitled(i)
  /\ Vouch(IF s = Nothing THEN tabs[t].ws ELSE s, {i})
  /\ \/ /\ s # Nothing
        /\ tabs' = [tabs EXCEPT ![t].pc = "record", ![t].inst = i]
        /\ UNCHANGED <<parts, session>>
     \/ /\ s = Nothing
        /\ Respond(t, [tabs[t].copy EXCEPT !.install = [ws |-> tabs[t].ws, inst |-> i]])
  /\ UNCHANGED <<people, entered, states, reach, installed, granted, events, missed, links>>

\* Without a code: only what this workspace already holds.
ExistingConnection(w, i) == <<w, i>> \in connections
RefreshWithoutCode(t, i) ==
  /\ "connect" \in parts /\ Acting(t) /\ ExistingConnection(tabs[t].ws, i) /\ i \in installed
  /\ tabs' = [tabs EXCEPT ![t].pc = "record", ![t].inst = i]
  /\ UNCHANGED <<parts, people, session, entered, gitHub, links>>

\* Connections to an installation that is gone, its deletion already dealt with.
RecordConnection(w, i) ==
  /\ connections' = connections \union {<<w, i>>}
  /\ late' = IF i \notin installed /\ ~\E e \in events : e.inst = i /\ e.kind = "deleted"
             THEN late \union {<<w, i>>} ELSE late
  /\ UNCHANGED projects

Connected(t) ==
  /\ tabs[t].pc = "record"
  /\ IF tabs[t].ws \in Live THEN RecordConnection(tabs[t].ws, tabs[t].inst) ELSE UNCHANGED links
  /\ Respond(t, tabs[t].copy)
  /\ UNCHANGED <<people, entered, gitHub>>

\* Mutant of SameWorkspace: the parked answer goes to whichever workspace is
\* active by now.
AnyWorkspace(parked, w) == TRUE

SameWorkspace(parked, w) == parked.ws = w

Choose(t, i) ==
  /\ Acting(t) /\ tabs[t].copy.choices # Nothing
  /\ LET parked == tabs[t].copy.choices
     IN IF SameWorkspace(parked, tabs[t].ws) /\ i \in parked.insts
        THEN RecordConnection(tabs[t].ws, i) ELSE UNCHANGED links
  /\ Respond(t, [tabs[t].copy EXCEPT !.choices = Nothing])
  /\ UNCHANGED <<people, entered, gitHub>>

GithubAppConfirm(t) ==
  /\ Acting(t) /\ tabs[t].copy.install # Nothing
  /\ LET parked == tabs[t].copy.install
     IN IF SameWorkspace(parked, tabs[t].ws)
        THEN RecordConnection(tabs[t].ws, parked.inst) ELSE UNCHANGED links
  /\ Respond(t, [tabs[t].copy EXCEPT !.install = Nothing])
  /\ UNCHANGED <<people, entered, gitHub>>

\* remove_connection: its projects go with it.
Drop(dropped) ==
  /\ connections' = connections \ dropped
  /\ projects' = projects \ dropped
  /\ late' = late \ dropped
DeleteConnection(t, i) ==
  /\ "repositories" \in parts /\ Acting(t) /\ ExistingConnection(tabs[t].ws, i)
  /\ Drop({<<tabs[t].ws, i>>})
  /\ Respond(t, tabs[t].copy)
  /\ UNCHANGED <<people, entered, gitHub>>

\* add_project, by anyone at the workspace: it reads the repository through the
\* connection.
AddProject(t, i) ==
  /\ "repositories" \in parts /\ tabs[t].pc = "at" /\ tabs[t].ws # Nothing
  /\ ExistingConnection(tabs[t].ws, i)
  /\ i \in installed \intersect granted
  /\ projects' = projects \union {<<tabs[t].ws, i>>}
  /\ Respond(t, tabs[t].copy)
  /\ UNCHANGED <<people, entered, gitHub, connections, late>>

-----------------------------------------------------------------------------
(* GitHub *)

Tell(kind, i) == events' = events \union {[kind |-> kind, inst |-> i]}
Uninstall(i) ==
  /\ parts \intersect {"connect", "repositories"} # {} /\ i \in installed
  /\ installed' = installed \ {i}
  /\ Tell("deleted", i)
  /\ UNCHANGED <<parts, people, session, tabs, entered, states, reach, granted, missed,
                 vouched, links>>
RemoveRepository(i) ==
  /\ "repositories" \in parts /\ i \in installed \intersect granted
  /\ granted' = granted \ {i}
  /\ Tell("removed", i)
  /\ UNCHANGED <<parts, people, session, tabs, entered, states, reach, installed, missed,
                 vouched, links>>
LoseReach(i) ==
  /\ "connect" \in parts /\ i \in reach
  /\ reach' = reach \ {i}
  /\ UNCHANGED <<parts, people, session, tabs, entered, states, installed, granted, events,
                 missed, vouched, links>>

Holding(i) == {c \in connections : c[2] = i}

\* Mutants of the deliveries: one workspace's connection, or its project.
DeletedForOne(i) == \/ Holding(i) = {} /\ UNCHANGED links
                    \/ \E c \in Holding(i) : Drop({c})

\* _handle_installation_event and _handle_installation_repositories, in every
\* workspace that holds the installation.
InstallationDeleted(i) == Drop(Holding(i))
RepositoriesRemoved(i) ==
  /\ projects' = projects \ Holding(i)
  /\ UNCHANGED <<connections, late>>

Deliver(e) ==
  /\ events' = events \ {e}
  /\ \/ e.kind = "deleted" /\ InstallationDeleted(e.inst)
     \/ e.kind = "removed" /\ RepositoriesRemoved(e.inst)
  /\ UNCHANGED <<parts, people, session, tabs, entered, states, reach, installed, granted,
                 missed, vouched>>
\* GitHub does not send a delivery that failed again.
LoseDelivery(e) ==
  /\ "repositories" \in parts
  /\ events' = events \ {e} /\ missed' = missed \union {e.inst}
  /\ UNCHANGED <<parts, people, session, tabs, entered, states, reach, installed, granted,
                 vouched, links>>

-----------------------------------------------------------------------------
SessionInit ==
  /\ parts \in Parts
  /\ world \in [Workspaces -> {"unborn", "live"}] /\ world[1] = "live"
  /\ role \in [Workspaces -> {"none", "admin"}]
  /\ \A w \in Workspaces : world[w] = "unborn" => role[w] = "none"
  /\ super \in BOOLEAN
  /\ "people" \notin parts => Mine = Workspaces /\ ~super
  /\ session = Empty
  /\ tabs = [t \in Tabs |-> Idle]
  /\ entered = {} /\ states = {}
  /\ reach = Installations /\ installed = Installations /\ granted = Installations
  /\ connections = IF "repositories" \in parts THEN Live \X Installations ELSE {}
  /\ projects = {} /\ late = {}
  /\ events = {} /\ missed = {} /\ vouched = connections

SessionStep(t) ==
  \/ Arrive(t) \/ JustRespond(t) \/ LeaveSupportView(t) \/ LeaveWorkspaceView(t)
  \/ DeleteActiveWorkspace(t)
  \/ \E w \in Workspaces : SwitchTenant(t, w) \/ CreateTenantView(t, w) \/ EnterByInvitation(t, w)

AppStep(t) ==
  \/ GithubAppInstall(t) \/ Connected(t) \/ GithubAppConfirm(t)
  \/ \E s \in Workspaces \union {Nothing} : OfferReachable(t, s)
  \/ \E i \in Installations :
       \/ RefreshWithoutCode(t, i) \/ Choose(t, i) \/ DeleteConnection(t, i) \/ AddProject(t, i)
       \/ \E s \in Workspaces \union {Nothing} : Callback(t, s, i)

SessionNext ==
  \/ \E t \in Tabs : SessionStep(t) \/ AppStep(t)
  \/ Login \/ FlipSuperuser
  \/ \E w \in Workspaces :
       \/ DeletedByAnother(w) \/ ExpireState(w)
       \/ \E r \in {"none", "member", "admin"} : Appoint(w, r)
  \/ \E i \in Installations : Uninstall(i) \/ RemoveRepository(i) \/ LoseReach(i)
  \/ \E e \in events : Deliver(e) \/ LoseDelivery(e)

SessionSpec == SessionInit /\ [][SessionNext]_sessionVars

-----------------------------------------------------------------------------
(* Properties *)

\* The support view is as a superuser entered it: a request acts in a workspace
\* the user is no member of only if that very workspace was entered
\* (workspace_access: a bare foreign id is never honoured), and a login starts
\* in the user's own workspace (reset_support_view), not even a request under
\* way during the login bringing the view back.
SupportViewIsAsEntered ==
  /\ \A t \in Tabs : tabs[t] # Idle /\ tabs[t].support => tabs[t].copy.support = tabs[t].ws
  /\ session.support # Nothing => session.support \in entered

\* Only GitHub's word connects an installation, given on a visit the user made
\* for that workspace: an answer parked for one workspace, or a flow started
\* for it, never connects another.
ConnectionsAreVouched == connections \subseteq vouched

\* What GitHub takes back goes with its delivery, in every workspace: an
\* installation that no longer exists, and a project whose repository the App
\* may no longer read.  Not so if the delivery was lost, or the installation was
\* connected on an answer GitHub gave before.
DeliveriesAreObeyed ==
  LET coming == {e.inst : e \in events} IN
  /\ \A c \in connections \ late : c[2] \in installed \union missed \union coming
  /\ \A c \in projects : c[2] \in granted \union missed \union coming
=============================================================================
