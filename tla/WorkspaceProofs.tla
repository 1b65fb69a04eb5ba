--------------------------- MODULE WorkspaceProofs ----------------------------
(***************************************************************************)
(* Proofs about a workspace, for any number of workspaces, installations,  *)
(* tabs, standards, versions and handlers: a support view is as it was     *)
(* entered, a connection is vouched for, GitHub's deliveries are obeyed    *)
(* (WorkspaceSession); a run records what it runs, importances are kept,   *)
(* and what is quiet is settled (Standards).                               *)
(***************************************************************************)
EXTENDS WorkspaceSession, Standards, SequenceTheorems, WellFoundedInduction, TLAPS

WorkspaceOrNothing == Workspaces \cup {Nothing}
Parked == {Nothing} \cup [ws : Workspaces, inst : Installations]
ChoiceRows == {Nothing} \cup [ws : Workspaces, insts : SUBSET Installations]
Sessions == [active : WorkspaceOrNothing, support : WorkspaceOrNothing, install : Parked, choices : ChoiceRows]
Requests ==
  [pc : {"at", "record"}, copy : Sessions, ws : WorkspaceOrNothing, support : BOOLEAN, dirty : BOOLEAN,
   old : BOOLEAN, inst : Installations \cup {Nothing}]

-----------------------------------------------------------------------------
(* What a session says *)

\* Its support view is of the active workspace, or of none any more.
SupportIsActive(s) == s.support # Nothing => s.active \in {s.support, Nothing}
\* What GitHub answered, and for which workspace.
AnswersIn(s, given) ==
  /\ s.install # Nothing => <<s.install.ws, s.install.inst>> \in given
  /\ s.choices # Nothing => {s.choices.ws} \X s.choices.insts \subseteq given
Entered(s) == s.support # Nothing => s.support \in entered
SessionIs(s) == s \in Sessions /\ SupportIsActive(s) /\ AnswersIn(s, vouched)

RequestIs(r) ==
  /\ r \in Requests
  /\ SessionIs(r.copy)
  /\ r.support => r.copy.support = r.ws
  /\ ~r.old => Entered(r.copy)
  /\ r.pc = "record" => r.ws \in Workspaces /\ <<r.ws, r.inst>> \in vouched

SessionInv ==
  /\ session \in Sessions /\ \A s \in Sessions : s = session => SessionIs(s) /\ Entered(s)
  /\ tabs \in [Tabs -> Requests \cup {Idle}]
  /\ \A t \in Tabs, r \in Requests : r = tabs[t] => RequestIs(r)
  /\ connections \subseteq vouched

\* An uninstallation, and a repository taken back, is on its way or lost until
\* what it takes with it is gone.
Coming(kind) == {e.inst : e \in {e \in events : e.kind = kind}}
GitHubInv ==
  /\ \A c \in connections \ late : c[2] \in installed \cup missed \cup Coming("deleted")
  /\ \A c \in projects : c \in connections /\ c[2] \in granted \cup missed \cup Coming("removed")

-----------------------------------------------------------------------------
LEMMA Fields ==
  ASSUME NEW s \in Sessions
  PROVE  /\ s.active \in WorkspaceOrNothing /\ s.support \in WorkspaceOrNothing
         /\ s.install \in Parked /\ s.choices \in ChoiceRows
  BY DEF Sessions

\* The steps of enter_support_view, leave_support_view and enter_workspace.
LEMMA Entering ==
  ASSUME NEW s, SessionIs(s), NEW w \in Workspaces
  PROVE  SessionIs(Enter(s, w)) /\ Enter(s, w).support = w
  BY DEF SessionIs, Sessions, SupportIsActive, AnswersIn, Enter, WorkspaceOrNothing

LEMMA Leaving ==
  ASSUME NEW s, SessionIs(s)
  PROVE  SessionIs(Leave(s)) /\ Leave(s).support = Nothing
  BY DEF SessionIs, Sessions, SupportIsActive, AnswersIn, Leave, WorkspaceOrNothing

LEMMA Switching ==
  ASSUME NEW s, SessionIs(s), NEW w \in WorkspaceOrNothing
  PROVE  /\ SessionIs([s EXCEPT !.active = w, !.support = Nothing])
         /\ SessionIs([s EXCEPT !.active = Nothing]) /\ [s EXCEPT !.active = Nothing].support = s.support
         /\ SessionIs(Home(s, w)) /\ Home(s, w).support = Nothing
<1>1. /\ SessionIs([s EXCEPT !.active = w, !.support = Nothing])
      /\ SessionIs([s EXCEPT !.active = Nothing]) /\ [s EXCEPT !.active = Nothing].support = s.support
  BY DEF SessionIs, Sessions, SupportIsActive, AnswersIn, WorkspaceOrNothing
<1>2. PICK l : l = Leave(s)
  OBVIOUS
<1>3. SessionIs(l) /\ l.support = Nothing
  BY <1>2, Leaving
<1>4. PICK h : h = [l EXCEPT !.active = w]
  OBVIOUS
<1>5. h \in Sessions /\ h.support = Nothing /\ h.install = l.install /\ h.choices = l.choices
  BY <1>3, <1>4 DEF SessionIs, Sessions
<1>6. SessionIs(h)
  BY <1>3, <1>5 DEF SessionIs, SupportIsActive, AnswersIn
<1> QED
  BY <1>1, <1>2, <1>4, <1>5, <1>6 DEF Home

LEMMA Parking ==
  ASSUME NEW s, SessionIs(s)
  PROVE  /\ SessionIs([s EXCEPT !.install = Nothing]) /\ [s EXCEPT !.install = Nothing].support = s.support
         /\ SessionIs([s EXCEPT !.choices = Nothing]) /\ [s EXCEPT !.choices = Nothing].support = s.support
  BY DEF SessionIs, Sessions, SupportIsActive, AnswersIn, Parked, ChoiceRows

\* TenantMiddleware: what a request is resolved to.
LEMMA Resolving ==
  ASSUME NEW s, SessionIs(s), Entered(s), NEW r, r = Resolve(s), Mine # {} => Min(Mine) \in Mine
  PROVE  RequestIs(r)
<1>0. Mine \subseteq Workspaces /\ Live \subseteq Workspaces
  BY DEF Mine, Live
<1>1. ASSUME NEW c, SessionIs(c), c.support = s.support \/ c.support = Nothing, NEW w \in WorkspaceOrNothing,
             NEW support \in BOOLEAN, support => c.support = w, NEW dirty \in BOOLEAN, r = At(c, w, support, dirty)
      PROVE  RequestIs(r)
  <2>1. /\ r \in Requests /\ r.copy = c /\ r.support = support /\ r.ws = w /\ r.pc = "at"
    BY <1>1 DEF At, Requests, SessionIs
  <2>2. Entered(c)
    BY <1>1 DEF Entered
  <2> QED
    BY <1>1, <2>1, <2>2 DEF RequestIs
<1>2. CASE s.active \in Mine
  <2>1. PICK c : c = [s EXCEPT !.support = Nothing]
    OBVIOUS
  <2>2. SessionIs(c) /\ c.support = Nothing
    BY <2>1 DEF SessionIs, Sessions, SupportIsActive, AnswersIn, WorkspaceOrNothing
  <2>3. r = At(c, s.active, FALSE, TRUE)
    BY <1>2, <2>1 DEF Resolve
  <2> QED
    BY <1>0, <1>1, <1>2, <2>2, <2>3 DEF WorkspaceOrNothing
<1>3. CASE s.active \notin Mine /\ s.active \in Live /\ ResolveSupportTenant(s)
  <2>1. s.support = s.active
    BY <1>0, <1>3, SessionAssumption DEF SessionIs, SupportIsActive, ResolveSupportTenant
  <2>2. r = At(s, s.active, TRUE, FALSE)
    BY <1>3 DEF Resolve
  <2> QED
    BY <1>0, <1>1, <1>3, <2>1, <2>2 DEF WorkspaceOrNothing
<1>4. CASE s.active \notin Mine /\ ~(s.active \in Live /\ ResolveSupportTenant(s))
  <2>1. PICK kept : kept = IF s.active # Nothing /\ ResolveSupportTenant(s) THEN Leave(s) ELSE s
    OBVIOUS
  <2>2. SessionIs(kept) /\ (kept.support = s.support \/ kept.support = Nothing)
    BY <2>1, Leaving
  <2>3. r = IF Mine = {} THEN At(kept, Nothing, FALSE, kept # s)
            ELSE At([kept EXCEPT !.active = Min(Mine), !.support = Nothing], Min(Mine), FALSE, TRUE)
    BY <1>4, <2>1 DEF Resolve, FallBack
  <2>4. CASE Mine = {}
    BY <1>1, <2>2, <2>3, <2>4 DEF WorkspaceOrNothing
  <2>5. CASE Mine # {}
    <3>1. PICK c : c = [kept EXCEPT !.active = Min(Mine), !.support = Nothing]
      OBVIOUS
    <3>2. Min(Mine) \in WorkspaceOrNothing
      BY <1>0, <2>5 DEF WorkspaceOrNothing
    <3>3. SessionIs(c) /\ c.support = Nothing
      <4>1. SessionIs(c)
        BY <2>2, <3>1, <3>2, Switching
      <4> QED
        BY <2>2, <3>1, <4>1 DEF SessionIs, Sessions
    <3>4. r = At(c, Min(Mine), FALSE, TRUE)
      BY <2>3, <2>5, <3>1
    <3> QED
      BY <1>1, <3>2, <3>3, <3>4
  <2> QED
    BY <2>4, <2>5
<1> QED
  BY <1>2, <1>3, <1>4

-----------------------------------------------------------------------------
(* What a step leaves true of the sessions *)

LEMMA MoreIsVouched ==
  ASSUME NEW s, SessionIs(s), vouched \subseteq vouched'
  PROVE  SessionIs(s)'
<1>1. AnswersIn(s, vouched')
  BY DEF SessionIs, AnswersIn
<1> QED
  BY <1>1 DEF SessionIs

LEMMA RequestsKept ==
  ASSUME NEW r, RequestIs(r), vouched \subseteq vouched', entered \subseteq entered'
  PROVE  RequestIs(r)'
<1>1. SessionIs(r.copy)'
  BY MoreIsVouched DEF RequestIs
<1> QED
  BY <1>1 DEF RequestIs, Entered

LEMMA UnderWay ==
  ASSUME SessionInv, NEW t \in Tabs, tabs[t].pc \in {"at", "record"}
  PROVE  RequestIs(tabs[t]) /\ tabs[t] \in Requests
         /\ tabs[t].copy \in Sessions /\ SessionIs(tabs[t].copy) /\ (~tabs[t].old => Entered(tabs[t].copy))
<1>1. tabs[t] # Idle
  <2>1. Idle.pc = "idle"
    BY DEF Idle
  <2> QED
    BY <2>1
<1>2. PICK r : r = tabs[t] /\ r \in Requests
  BY <1>1 DEF SessionInv
<1>3. RequestIs(r)
  BY <1>2 DEF SessionInv
<1> QED
  BY <1>2, <1>3 DEF RequestIs, SessionIs

LEMMA SessionKept ==
  ASSUME SessionInv, vouched \subseteq vouched', entered \subseteq entered', NEW s \in Sessions, s = session
  PROVE  SessionIs(s)' /\ Entered(s)'
<1>1. SessionIs(s) /\ Entered(s)
  BY DEF SessionInv
<1> QED
  BY <1>1, MoreIsVouched DEF Entered

LEMMA RequestKept ==
  ASSUME SessionInv, vouched \subseteq vouched', entered \subseteq entered', NEW t \in Tabs, NEW r \in Requests, r = tabs[t]
  PROVE  RequestIs(r)'
<1>1. RequestIs(r)
  BY DEF SessionInv
<1> QED
  BY <1>1, RequestsKept

LEMMA IdleIsNoRequest == Idle \notin Requests
<1>1. Idle.pc = "idle"
  BY DEF Idle
<1>2. \A r \in Requests : r.pc # "idle"
  BY DEF Requests
<1> QED
  BY <1>1, <1>2

\* A request is over, and may have saved its session.
LEMMA Responding ==
  ASSUME SessionInv, NEW t \in Tabs, NEW copy, Respond(t, copy),
         SessionIs(copy)', ~tabs[t].old => Entered(copy)',
         vouched \subseteq vouched', entered \subseteq entered', connections' \subseteq vouched'
  PROVE  SessionInv'
<1>1. copy \in Sessions /\ session \in Sessions
  BY DEF SessionIs, SessionInv
<1>2. session' \in Sessions /\ ((session' = copy /\ ~tabs[t].old) \/ session' = session)
  BY <1>1 DEF Respond
<1>3. ASSUME NEW s \in Sessions, s = session' PROVE SessionIs(s)' /\ Entered(s)'
  BY <1>2, <1>3, SessionKept
<1>4. tabs' = [tabs EXCEPT ![t] = Idle] /\ tabs \in [Tabs -> Requests \cup {Idle}]
  BY DEF Respond, SessionInv
<1>5. ASSUME NEW u \in Tabs, NEW r \in Requests, r = tabs'[u] PROVE RequestIs(r)'
  <2>1. r = tabs[u]
    BY <1>4, <1>5, IdleIsNoRequest
  <2> QED
    BY <2>1, RequestKept
<1>6. tabs' \in [Tabs -> Requests \cup {Idle}]
  BY <1>4
<1> QED
  BY <1>2, <1>3, <1>5, <1>6 DEF SessionInv

\* No session is touched.
LEMMA Elsewhere ==
  ASSUME SessionInv, UNCHANGED <<session, tabs, entered>>, vouched \subseteq vouched', connections' \subseteq vouched'
  PROVE  SessionInv'
<1>1. ASSUME NEW s \in Sessions, s = session' PROVE SessionIs(s)' /\ Entered(s)'
  BY <1>1, SessionKept
<1>2. ASSUME NEW u \in Tabs, NEW r \in Requests, r = tabs'[u] PROVE RequestIs(r)'
  BY <1>2, RequestKept
<1>3. session' \in Sessions /\ tabs' \in [Tabs -> Requests \cup {Idle}]
  BY DEF SessionInv
<1> QED
  BY <1>1, <1>2, <1>3 DEF SessionInv

\* A request goes on with another record.
LEMMA GoingOn ==
  ASSUME SessionInv, NEW t \in Tabs, NEW q \in Requests, RequestIs(q)', tabs' = [tabs EXCEPT ![t] = q],
         UNCHANGED <<session, entered, connections>>, vouched \subseteq vouched'
  PROVE  SessionInv'
<1>1. ASSUME NEW s \in Sessions, s = session' PROVE SessionIs(s)' /\ Entered(s)'
  BY <1>1, SessionKept
<1>2. tabs \in [Tabs -> Requests \cup {Idle}]
  BY DEF SessionInv
<1>3. ASSUME NEW u \in Tabs, NEW r \in Requests, r = tabs'[u] PROVE RequestIs(r)'
  <2>1. CASE u = t
    BY <1>2, <1>3, <2>1
  <2>2. CASE u # t
    BY <1>2, <1>3, <2>2, RequestKept
  <2> QED
    BY <2>1, <2>2
<1>4. session' \in Sessions /\ tabs' \in [Tabs -> Requests \cup {Idle}] /\ connections' \subseteq vouched'
  BY <1>2 DEF SessionInv
<1> QED
  BY <1>1, <1>3, <1>4 DEF SessionInv

\* A request is about to record a connection.
LEMMA Recording ==
  ASSUME SessionInv, NEW t \in Tabs, tabs[t].pc = "at", NEW i \in Installations,
         tabs' = [tabs EXCEPT ![t].pc = "record", ![t].inst = i], UNCHANGED <<session, entered, connections>>,
         vouched \subseteq vouched', tabs[t].ws \in Workspaces, <<tabs[t].ws, i>> \in vouched'
  PROVE  SessionInv'
<1>1. PICK r : r = tabs[t]
  OBVIOUS
<1>2. r \in Requests /\ RequestIs(r)
  BY <1>1, UnderWay
<1>3. PICK q : q = [[r EXCEPT !.pc = "record"] EXCEPT !.inst = i]
  OBVIOUS
<1>4. /\ q \in Requests /\ q.copy = r.copy /\ q.ws = r.ws /\ q.support = r.support /\ q.old = r.old
      /\ q.pc = "record" /\ q.inst = i
  BY <1>2, <1>3 DEF Requests
<1>5. RequestIs(r)'
  BY <1>2, RequestsKept
<1>6. RequestIs(q)'
  <2>1. PICK c : c = r.copy
    OBVIOUS
  <2>2. SessionIs(c)' /\ (~q.old => Entered(c)') /\ (q.support => c.support = q.ws)
    BY <1>4, <1>5, <2>1 DEF RequestIs, SessionIs, Entered
  <2> QED
    BY <1>1, <1>4, <2>1, <2>2 DEF RequestIs
<1>7. tabs \in [Tabs -> Requests \cup {Idle}]
  BY DEF SessionInv
<1>8. tabs' = [tabs EXCEPT ![t] = q]
  BY <1>1, <1>3, <1>7
<1> QED
  BY <1>4, <1>6, <1>8, GoingOn

-----------------------------------------------------------------------------
(* The steps *)

LEMMA OldestIsMine ==
  ASSUME Mine # {}
  PROVE  Min(Mine) \in Mine
<1>1. Mine \in SUBSET Nat
  BY SessionAssumption DEF Mine, Live, Workspaces
<1>2. PICK m \in Mine : \A y \in Mine : ~ (<<y, m>> \in OpToRel(<, Nat))
  BY <1>1, NatLessThanWellFounded, WFMin
<1>3. \A y \in Mine : ~ (y < m)
  BY <1>1, <1>2 DEF OpToRel
<1>4. \A y \in Mine : m <= y
  BY <1>1, <1>3
<1> QED
  BY <1>4 DEF Min

LEMMA ActingIsSomewhere ==
  ASSUME SessionInv, NEW t \in Tabs, Acting(t)
  PROVE  tabs[t].pc = "at" /\ tabs[t].ws \in Workspaces
  BY DEF Acting, IsWorkspaceAdmin, Live

\* A response that saves the session as it was loaded, or changed in one of the
\* ways below, and vouches for nothing new.
LEMMA Answering ==
  ASSUME SessionInv, NEW t \in Tabs, tabs[t].pc \in {"at", "record"}, NEW copy, Respond(t, copy),
         UNCHANGED <<entered, vouched>>, connections' \subseteq vouched,
         SessionIs(copy), copy.support \in {tabs[t].copy.support, Nothing}
  PROVE  SessionInv'
<1>1. SessionIs(copy)'
  BY MoreIsVouched
<1>2. ~tabs[t].old => Entered(copy)'
  BY UnderWay DEF Entered
<1> QED
  BY <1>1, <1>2, Responding

LEMMA SessionSteps ==
  ASSUME SessionInv, NEW t \in Tabs, SessionStep(t)
  PROVE  SessionInv'
<1>0. connections \subseteq vouched
  BY DEF SessionInv
<1>1. CASE Arrive(t)
  <2>1. PICK s : s = session /\ s \in Sessions
    BY DEF SessionInv
  <2>2. PICK q : q = Resolve(s)
    OBVIOUS
  <2>3. RequestIs(q)
    BY <2>1, <2>2, Resolving, OldestIsMine DEF SessionInv
  <2>4. UNCHANGED <<session, entered, connections, vouched>> /\ tabs' = [tabs EXCEPT ![t] = q]
    BY <1>1, <2>1, <2>2 DEF Arrive, gitHub, links
  <2>5. q \in Requests /\ RequestIs(q)'
    BY <2>3, <2>4, RequestsKept DEF RequestIs
  <2> QED
    BY <2>4, <2>5, GoingOn
<1>2. CASE JustRespond(t)
  <2>1. PICK c : c = tabs[t].copy
    OBVIOUS
  <2>2. tabs[t].pc = "at" /\ Respond(t, c) /\ UNCHANGED <<entered, connections, vouched>>
    BY <1>2, <2>1 DEF JustRespond, gitHub, links
  <2>3. SessionIs(c)
    BY <2>1, <2>2, UnderWay
  <2> QED
    BY <1>0, <2>1, <2>2, <2>3, Answering
<1>3. CASE LeaveSupportView(t)
  <2>1. PICK c : c = Leave(tabs[t].copy)
    OBVIOUS
  <2>2. tabs[t].pc = "at" /\ Respond(t, c) /\ UNCHANGED <<entered, connections, vouched>>
    BY <1>3, <2>1 DEF LeaveSupportView, gitHub, links
  <2>3. SessionIs(c) /\ c.support = Nothing
    BY <2>1, <2>2, UnderWay, Leaving
  <2> QED
    BY <1>0, <2>2, <2>3, Answering
<1>4. CASE LeaveWorkspaceView(t)
  <2>1. PICK c : c = [tabs[t].copy EXCEPT !.active = Nothing]
    OBVIOUS
  <2>2. tabs[t].pc = "at" /\ Respond(t, c) /\ UNCHANGED <<entered, connections, vouched>>
    BY <1>4, <2>1 DEF LeaveWorkspaceView, gitHub, links
  <2>3. SessionIs(c) /\ c.support = tabs[t].copy.support
    BY <2>1, <2>2, UnderWay, Switching DEF WorkspaceOrNothing
  <2> QED
    BY <1>0, <2>2, <2>3, Answering
<1>5. CASE DeleteActiveWorkspace(t)
  <2>1. PICK c, d : d = [tabs[t].copy EXCEPT !.active = Nothing] /\ c = Leave(d)
    OBVIOUS
  <2>2. tabs[t].pc = "at" /\ Respond(t, c) /\ UNCHANGED <<entered, vouched>> /\ connections' \subseteq connections
    BY <1>5, <2>1 DEF DeleteActiveWorkspace, Erase, gitHub
  <2>3. SessionIs(c) /\ c.support = Nothing
    <3>1. SessionIs(d)
      BY <2>1, <2>2, UnderWay, Switching DEF WorkspaceOrNothing
    <3> QED
      BY <2>1, <3>1, Leaving
  <2> QED
    BY <1>0, <2>2, <2>3, Answering
\* Into a workspace of one's own, or into a support view.
<1>6. ASSUME NEW w \in Workspaces, tabs[t].pc = "at", UNCHANGED <<vouched, connections>>,
             \/ Respond(t, Home(tabs[t].copy, w)) /\ UNCHANGED entered
             \/ Respond(t, Enter(tabs[t].copy, w)) /\ entered' = entered \union {w}
      PROVE  SessionInv'
  <2>1. CASE Respond(t, Home(tabs[t].copy, w)) /\ UNCHANGED entered
    <3>1. PICK c : c = Home(tabs[t].copy, w)
      OBVIOUS
    <3>2. SessionIs(c) /\ c.support = Nothing
      BY <1>6, <3>1, UnderWay, Switching DEF WorkspaceOrNothing
    <3> QED
      BY <1>0, <1>6, <2>1, <3>1, <3>2, Answering
  <2>2. CASE Respond(t, Enter(tabs[t].copy, w)) /\ entered' = entered \union {w}
    <3>1. PICK c : c = Enter(tabs[t].copy, w)
      OBVIOUS
    <3>2. SessionIs(c) /\ c.support = w
      BY <1>6, <3>1, UnderWay, Entering
    <3>3. SessionIs(c)' /\ Entered(c)'
      BY <1>6, <2>2, <3>2, MoreIsVouched DEF Entered
    <3> QED
      BY <1>0, <1>6, <2>2, <3>1, <3>3, Responding
  <2> QED
    BY <1>6, <2>1, <2>2
<1>7. ASSUME NEW w \in Workspaces, SwitchTenant(t, w) \/ CreateTenantView(t, w) \/ EnterByInvitation(t, w) PROVE SessionInv'
  BY <1>6, <1>7 DEF SwitchTenant, CreateTenantView, EnterByInvitation, gitHub, links
<1> QED
  BY <1>1, <1>2, <1>3, <1>4, <1>5, <1>7 DEF SessionStep

\* A connection is recorded on an answer that vouches for it.
LEMMA AppSteps ==
  ASSUME SessionInv, reach \subseteq Installations, NEW t \in Tabs, AppStep(t)
  PROVE  SessionInv'
<1>0. connections \subseteq vouched
  BY DEF SessionInv
<1>1. PICK mine : mine = tabs[t].copy
  OBVIOUS
<1>2. CASE GithubAppInstall(t)
  <2>1. tabs[t].pc = "at" /\ Respond(t, mine) /\ UNCHANGED <<entered, vouched, connections>>
    BY <1>1, <1>2 DEF GithubAppInstall, Acting, links
  <2> QED
    BY <1>0, <1>1, <2>1, UnderWay, Answering
<1>3. CASE Connected(t)
  <2>1. tabs[t].pc = "record" /\ Respond(t, mine) /\ UNCHANGED <<entered, vouched>>
        /\ connections' \subseteq connections \cup {<<tabs[t].ws, tabs[t].inst>>}
    BY <1>1, <1>3 DEF Connected, RecordConnection, gitHub, links
  <2>2. <<tabs[t].ws, tabs[t].inst>> \in vouched /\ SessionIs(mine)
    BY <1>1, <2>1, UnderWay DEF RequestIs
  <2> QED
    BY <1>0, <1>1, <2>1, <2>2, Answering
<1>4. CASE GithubAppConfirm(t)
  <2>1. tabs[t].pc = "at" /\ tabs[t].ws \in Workspaces /\ SessionIs(mine)
    BY <1>1, <1>4, ActingIsSomewhere, UnderWay DEF GithubAppConfirm
  <2>2. PICK c : c = [mine EXCEPT !.install = Nothing]
    OBVIOUS
  <2>3. SessionIs(c) /\ c.support = mine.support
    BY <2>1, <2>2, Parking
  <2>4. PICK parked : parked = mine.install /\ parked # Nothing
    BY <1>1, <1>4 DEF GithubAppConfirm
  <2>5. <<parked.ws, parked.inst>> \in vouched
    BY <2>1, <2>4 DEF SessionIs, AnswersIn
  <2>6. connections' \subseteq connections \cup {<<parked.ws, parked.inst>>} /\ Respond(t, c) /\ UNCHANGED <<entered, vouched>>
    BY <1>1, <1>4, <2>2, <2>4 DEF GithubAppConfirm, SameWorkspace, RecordConnection, gitHub, links
  <2> QED
    BY <1>0, <1>1, <2>1, <2>3, <2>5, <2>6, Answering
<1>5. ASSUME NEW i \in Installations, Choose(t, i) PROVE SessionInv'
  <2>1. tabs[t].pc = "at" /\ tabs[t].ws \in Workspaces /\ SessionIs(mine)
    BY <1>1, <1>5, ActingIsSomewhere, UnderWay DEF Choose
  <2>2. PICK c : c = [mine EXCEPT !.choices = Nothing]
    OBVIOUS
  <2>3. SessionIs(c) /\ c.support = mine.support
    BY <2>1, <2>2, Parking
  <2>4. PICK parked : parked = mine.choices /\ parked # Nothing
    BY <1>1, <1>5 DEF Choose
  <2>5. {parked.ws} \X parked.insts \subseteq vouched
    BY <2>1, <2>4 DEF SessionIs, AnswersIn
  <2>6. connections' \subseteq connections \cup ({parked.ws} \X parked.insts) /\ Respond(t, c) /\ UNCHANGED <<entered, vouched>>
    BY <1>1, <1>5, <2>2, <2>4 DEF Choose, SameWorkspace, RecordConnection, gitHub, links
  <2> QED
    BY <1>0, <1>1, <2>1, <2>3, <2>5, <2>6, Answering
<1>6. ASSUME NEW s \in Workspaces \union {Nothing}, OfferReachable(t, s) PROVE SessionInv'
  <2>1. tabs[t].pc = "at" /\ tabs[t].ws \in Workspaces /\ SessionIs(mine)
    BY <1>1, <1>6, ActingIsSomewhere, UnderWay DEF OfferReachable
  <2>2. UNCHANGED <<entered, connections>> /\ (s = Nothing \/ s = tabs[t].ws)
    BY <1>6 DEF OfferReachable, StateIsAcceptable, links
  <2>3. CASE UNCHANGED vouched /\ Respond(t, mine)
    BY <1>0, <1>1, <2>1, <2>2, <2>3, Answering
  <2>4. PICK offer : offer = [ws |-> tabs[t].ws, insts |-> ListUserInstallations]
    OBVIOUS
  <2>5. PICK c : c = [mine EXCEPT !.choices = offer]
    OBVIOUS
  <2>6. CASE vouched' = vouched \union ({tabs[t].ws} \X ListUserInstallations) /\ Respond(t, c)
    <3>1. offer \in ChoiceRows /\ offer.ws = tabs[t].ws /\ offer.insts = ListUserInstallations
      BY <2>1, <2>4 DEF ChoiceRows, ListUserInstallations
    <3>2. c \in Sessions /\ c.active = mine.active /\ c.support = mine.support /\ c.install = mine.install /\ c.choices = offer
      BY <2>1, <2>5, <3>1 DEF SessionIs, Sessions
    <3>3. SupportIsActive(c) /\ AnswersIn(c, vouched')
      BY <2>1, <2>6, <3>1, <3>2 DEF SessionIs, SupportIsActive, AnswersIn
    <3>4. SessionIs(c)'
      BY <3>2, <3>3 DEF SessionIs
    <3>5. ~tabs[t].old => Entered(c)'
      BY <1>1, <2>1, <2>2, <3>2, UnderWay DEF Entered
    <3> QED
      BY <1>0, <2>2, <2>6, <3>4, <3>5, Responding
  <2> QED
    BY <1>1, <1>6, <2>2, <2>3, <2>4, <2>5, <2>6 DEF OfferReachable, Vouch
<1>7. ASSUME NEW i \in Installations, RefreshWithoutCode(t, i) PROVE SessionInv'
  <2>1. tabs[t].pc = "at" /\ tabs[t].ws \in Workspaces
    BY <1>7, ActingIsSomewhere DEF RefreshWithoutCode
  <2>2. tabs' = [tabs EXCEPT ![t].pc = "record", ![t].inst = i] /\ UNCHANGED <<session, entered, connections, vouched>>
        /\ <<tabs[t].ws, i>> \in vouched
    BY <1>0, <1>7 DEF RefreshWithoutCode, ExistingConnection, gitHub, links
  <2> QED
    BY <2>1, <2>2, Recording
<1>8. ASSUME NEW i \in Installations, DeleteConnection(t, i) \/ AddProject(t, i) PROVE SessionInv'
  <2>1. tabs[t].pc = "at" /\ Respond(t, mine) /\ UNCHANGED <<entered, vouched>> /\ connections' \subseteq connections
    BY <1>1, <1>8 DEF DeleteConnection, AddProject, Drop, Acting, gitHub
  <2> QED
    BY <1>0, <1>1, <2>1, UnderWay, Answering
<1>9. ASSUME NEW i \in Installations, NEW s \in Workspaces \union {Nothing}, Callback(t, s, i) PROVE SessionInv'
  <2>1. tabs[t].pc = "at" /\ tabs[t].ws \in Workspaces /\ SessionIs(mine)
    BY <1>1, <1>9, ActingIsSomewhere, UnderWay DEF Callback
  <2>2. UNCHANGED <<entered, connections>> /\ vouched' = vouched \union ({tabs[t].ws} \X {i})
    BY <1>9 DEF Callback, StateIsAcceptable, Vouch, links
  <2>3. PICK found : found = [ws |-> tabs[t].ws, inst |-> i]
    OBVIOUS
  <2>4. PICK c : c = [mine EXCEPT !.install = found]
    OBVIOUS
  <2>5. CASE tabs' = [tabs EXCEPT ![t].pc = "record", ![t].inst = i] /\ UNCHANGED session
    BY <2>1, <2>2, <2>5, Recording
  <2>6. CASE Respond(t, c)
    <3>1. found \in Parked /\ found.ws = tabs[t].ws /\ found.inst = i
      BY <2>1, <2>3 DEF Parked
    <3>2. c \in Sessions /\ c.active = mine.active /\ c.support = mine.support /\ c.install = found /\ c.choices = mine.choices
      BY <2>1, <2>4, <3>1 DEF SessionIs, Sessions
    <3>3. SupportIsActive(c) /\ AnswersIn(c, vouched')
      BY <2>1, <2>2, <3>1, <3>2 DEF SessionIs, SupportIsActive, AnswersIn
    <3>4. SessionIs(c)'
      BY <3>2, <3>3 DEF SessionIs
    <3>5. ~tabs[t].old => Entered(c)'
      BY <1>1, <2>1, <2>2, <3>2, UnderWay DEF Entered
    <3> QED
      BY <1>0, <2>2, <2>6, <3>4, <3>5, Responding
  <2> QED
    BY <1>1, <1>9, <2>3, <2>4, <2>5, <2>6 DEF Callback
<1> QED
  BY <1>2, <1>3, <1>4, <1>5, <1>6, <1>7, <1>8, <1>9 DEF AppStep

\* Others: a login, other people, GitHub.
LEMMA OtherSteps ==
  ASSUME SessionInv,
         \/ Login \/ FlipSuperuser
         \/ \E w \in Workspaces :
              \/ DeletedByAnother(w) \/ ExpireState(w)
              \/ \E r \in {"none", "member", "admin"} : Appoint(w, r)
         \/ \E i \in Installations : Uninstall(i) \/ RemoveRepository(i) \/ LoseReach(i)
         \/ \E e \in events : Deliver(e) \/ LoseDelivery(e)
  PROVE  SessionInv'
<1>0. connections \subseteq vouched
  BY DEF SessionInv
<1>1. CASE Login
  <2>1. PICK s : s = session /\ s \in Sessions
    BY DEF SessionInv
  <2>2. PICK c : c = Leave(s)
    OBVIOUS
  <2>3. SessionIs(c) /\ c.support = Nothing
    BY <2>1, <2>2, Leaving DEF SessionInv
  <2>4. session' = c /\ UNCHANGED <<vouched, connections>>
        /\ tabs' = [t \in Tabs |-> IF tabs[t] = Idle THEN Idle ELSE [tabs[t] EXCEPT !.old = TRUE]]
    BY <1>1, <2>1, <2>2 DEF Login, AtLogin, Orphan, gitHub, links
  <2>5. SessionIs(c)' /\ Entered(c)' /\ c \in Sessions
    BY <2>3, <2>4 DEF SessionIs, Entered
  <2>6. ASSUME NEW t \in Tabs, NEW q, q = tabs'[t], q # Idle
        PROVE  q \in Requests /\ RequestIs(q)'
    <3>1. PICK r \in Requests : r = tabs[t] /\ q = [r EXCEPT !.old = TRUE]
      BY <2>4, <2>6 DEF SessionInv
    <3>2. RequestIs(r)
      BY <3>1 DEF SessionInv
    <3>3. /\ q \in Requests /\ q.copy = r.copy /\ q.ws = r.ws /\ q.support = r.support /\ q.old
          /\ q.pc = r.pc /\ q.inst = r.inst
      BY <3>1 DEF Requests
    <3>4. SessionIs(r.copy)'
      BY <2>4, <3>2, MoreIsVouched DEF RequestIs
    <3>5. PICK d : d = r.copy /\ SessionIs(d)'
      BY <3>4 DEF SessionIs
    <3> QED
      BY <2>4, <3>2, <3>3, <3>5 DEF RequestIs
  <2>7. tabs' \in [Tabs -> Requests \cup {Idle}]
    BY <2>4, <2>6
  <2>8. \A t \in Tabs, r \in Requests : r = tabs'[t] => RequestIs(r)'
    BY <2>6, IdleIsNoRequest
  <2> QED
    BY <1>0, <2>4, <2>5, <2>7, <2>8 DEF SessionInv
<1>2. CASE ~Login
  <2>1. UNCHANGED <<session, tabs, entered, vouched>> /\ connections' \subseteq connections
    BY <1>2 DEF FlipSuperuser, DeletedByAnother, Erase, ExpireState, Appoint, Uninstall, RemoveRepository, LoseReach,
                Deliver, LoseDelivery, InstallationDeleted, RepositoriesRemoved, Drop, gitHub, links
  <2> QED
    BY <1>0, <2>1, Elsewhere
<1> QED
  BY <1>1, <1>2

-----------------------------------------------------------------------------
(* What GitHub takes back *)

LEMMA Dropping ==
  ASSUME GitHubInv, NEW D, connections' = connections \ D, projects' = projects \ D, late' = late \ D,
         UNCHANGED <<installed, granted, events, missed>>
  PROVE  GitHubInv'
  BY DEF GitHubInv, Coming

LEMMA Erasing ==
  ASSUME GitHubInv, NEW w, Erase(w), UNCHANGED <<installed, granted, events, missed>>
  PROVE  GitHubInv'
<1>1. PICK D : D = {c \in connections \cup projects \cup late : c[1] = w}
  OBVIOUS
<1>2. connections' = connections \ D /\ projects' = projects \ D /\ late' = late \ D
  BY <1>1 DEF Erase
<1> QED
  BY <1>2, Dropping

LEMMA Connecting ==
  ASSUME GitHubInv, NEW w, NEW i, RecordConnection(w, i), UNCHANGED <<installed, granted, events, missed>>
  PROVE  GitHubInv'
<1>1. ASSUME NEW c \in connections' \ late' PROVE c[2] \in installed \cup missed \cup Coming("deleted")
  <2>1. CASE c \in connections
    BY <1>1, <2>1 DEF GitHubInv, RecordConnection
  <2>2. CASE c = <<w, i>>
    <3>1. c[2] = i
      BY <2>2
    <3>2. i \in installed \/ \E e \in events : e.inst = i /\ e.kind = "deleted"
      BY <1>1, <2>2 DEF RecordConnection
    <3> QED
      BY <3>1, <3>2 DEF Coming
  <2> QED
    BY <1>1, <2>1, <2>2 DEF RecordConnection
<1> QED
  BY <1>1 DEF GitHubInv, Coming, RecordConnection

LEMMA Untaken ==
  ASSUME GitHubInv, UNCHANGED <<connections, projects, late, installed, granted, events, missed>>
  PROVE  GitHubInv'
  BY DEF GitHubInv, Coming

LEMMA GitHubAndSessions ==
  ASSUME GitHubInv, NEW t \in Tabs, SessionStep(t) \/ AppStep(t)
  PROVE  GitHubInv'
<1>1. CASE SessionStep(t) /\ ~DeleteActiveWorkspace(t)
  <2>1. UNCHANGED <<connections, projects, late, installed, granted, events, missed>>
    BY <1>1 DEF SessionStep, Arrive, JustRespond, LeaveSupportView, LeaveWorkspaceView, SwitchTenant, CreateTenantView,
                EnterByInvitation, gitHub, links
  <2> QED
    BY <2>1, Untaken
<1>2. CASE DeleteActiveWorkspace(t)
  BY <1>2, Erasing DEF DeleteActiveWorkspace, gitHub
<1>3. CASE GithubAppInstall(t) \/ \E s \in Workspaces \union {Nothing} : OfferReachable(t, s)
  BY <1>3, Untaken DEF GithubAppInstall, OfferReachable, links
<1>4. CASE Connected(t)
  BY <1>4, Connecting, Untaken DEF Connected, gitHub, links
<1>5. CASE GithubAppConfirm(t)
  BY <1>5, Connecting, Untaken DEF GithubAppConfirm, gitHub, links
<1>6. ASSUME NEW i \in Installations, Choose(t, i) PROVE GitHubInv'
  BY <1>6, Connecting, Untaken DEF Choose, gitHub, links
<1>7. ASSUME NEW i \in Installations, RefreshWithoutCode(t, i) \/ \E s \in Workspaces \union {Nothing} : Callback(t, s, i)
      PROVE  GitHubInv'
  BY <1>7, Untaken DEF RefreshWithoutCode, Callback, gitHub, links
<1>8. ASSUME NEW i \in Installations, DeleteConnection(t, i) PROVE GitHubInv'
  BY <1>8, Dropping DEF DeleteConnection, Drop, gitHub
<1>9. ASSUME NEW i \in Installations, AddProject(t, i) PROVE GitHubInv'
  <2>1. PICK c : c = <<tabs[t].ws, i>> /\ c[2] = i /\ c \in connections /\ i \in granted
    BY <1>9 DEF AddProject, ExistingConnection
  <2>2. projects' = projects \cup {c} /\ UNCHANGED <<connections, late, installed, granted, events, missed>>
    BY <1>9, <2>1 DEF AddProject, gitHub
  <2> QED
    BY <2>1, <2>2 DEF GitHubInv, Coming
<1> QED
  BY <1>1, <1>2, <1>3, <1>4, <1>5, <1>6, <1>7, <1>8, <1>9 DEF AppStep

LEMMA GitHubAndOthers ==
  ASSUME GitHubInv,
         \/ Login \/ FlipSuperuser
         \/ \E w \in Workspaces :
              \/ DeletedByAnother(w) \/ ExpireState(w)
              \/ \E r \in {"none", "member", "admin"} : Appoint(w, r)
         \/ \E i \in Installations : Uninstall(i) \/ RemoveRepository(i) \/ LoseReach(i)
         \/ \E e \in events : Deliver(e) \/ LoseDelivery(e)
  PROVE  GitHubInv'
<1>1. CASE \/ Login \/ FlipSuperuser \/ \E i \in Installations : LoseReach(i)
           \/ \E w \in Workspaces : ExpireState(w) \/ \E r \in {"none", "member", "admin"} : Appoint(w, r)
  BY <1>1, Untaken DEF Login, FlipSuperuser, LoseReach, ExpireState, Appoint, gitHub, links
<1>2. ASSUME NEW w \in Workspaces, DeletedByAnother(w) PROVE GitHubInv'
  BY <1>2, Erasing DEF DeletedByAnother, gitHub
\* What is told of an installation is on its way.
<1>3. ASSUME NEW kind \in {"deleted", "removed"}, NEW i, Tell(kind, i)
      PROVE  /\ \A k \in {"deleted", "removed"} : \A j \in Coming(k) : j \in Coming(k)'
             /\ i \in Coming(kind)'
  <2>1. PICK e : e = [kind |-> kind, inst |-> i]
    OBVIOUS
  <2>2. events' = events \cup {e} /\ e.kind = kind /\ e.inst = i
    BY <1>3, <2>1 DEF Tell
  <2> QED
    BY <2>2 DEF Coming
<1>4. ASSUME NEW i \in Installations, Uninstall(i) PROVE GitHubInv'
  <2>1. installed' = installed \ {i} /\ Tell("deleted", i) /\ UNCHANGED <<connections, projects, late, granted, missed>>
    BY <1>4 DEF Uninstall, links
  <2>2. /\ \A k \in {"deleted", "removed"} : \A j \in Coming(k) : j \in Coming(k)'
        /\ i \in Coming("deleted")'
    BY <1>3, <2>1
  <2> QED
    BY <2>1, <2>2 DEF GitHubInv
<1>5. ASSUME NEW i \in Installations, RemoveRepository(i) PROVE GitHubInv'
  <2>1. granted' = granted \ {i} /\ Tell("removed", i) /\ UNCHANGED <<connections, projects, late, installed, missed>>
    BY <1>5 DEF RemoveRepository, links
  <2>2. /\ \A k \in {"deleted", "removed"} : \A j \in Coming(k) : j \in Coming(k)'
        /\ i \in Coming("removed")'
    BY <1>3, <2>1
  <2> QED
    BY <2>1, <2>2 DEF GitHubInv
\* Only what the delivery is about stops being on its way.
<1>6. ASSUME NEW e \in events, events' = events \ {e}, NEW k, NEW j \in Coming(k)
      PROVE  j \in Coming(k)' \/ (e.kind = k /\ e.inst = j)
  BY <1>6 DEF Coming
<1>7. ASSUME NEW e \in events, LoseDelivery(e) PROVE GitHubInv'
  <2>1. events' = events \ {e} /\ missed' = missed \cup {e.inst}
        /\ UNCHANGED <<connections, projects, late, installed, granted>>
    BY <1>7 DEF LoseDelivery, links
  <2> QED
    BY <1>6, <2>1 DEF GitHubInv
<1>8. ASSUME NEW e \in events, Deliver(e), e.kind = "deleted", InstallationDeleted(e.inst) PROVE GitHubInv'
  <2>1. PICK D : D = Holding(e.inst)
    OBVIOUS
  <2>2. /\ events' = events \ {e} /\ connections' = connections \ D /\ projects' = projects \ D /\ late' = late \ D
        /\ UNCHANGED <<installed, granted, missed>>
    BY <1>8, <2>1 DEF Deliver, InstallationDeleted, Drop
  <2>3. \A c \in connections' : c[2] # e.inst
    BY <2>1, <2>2 DEF Holding
  <2> QED
    BY <1>6, <1>8, <2>2, <2>3 DEF GitHubInv
<1>9. ASSUME NEW e \in events, Deliver(e), e.kind = "removed", RepositoriesRemoved(e.inst) PROVE GitHubInv'
  <2>1. PICK D : D = Holding(e.inst)
    OBVIOUS
  <2>2. /\ events' = events \ {e} /\ projects' = projects \ D
        /\ UNCHANGED <<connections, late, installed, granted, missed>>
    BY <1>9, <2>1 DEF Deliver, RepositoriesRemoved
  <2>3. \A c \in projects' : c[2] # e.inst
    BY <2>1, <2>2 DEF Holding, GitHubInv
  <2> QED
    BY <1>6, <1>9, <2>2, <2>3 DEF GitHubInv
<1> QED
  BY <1>1, <1>2, <1>4, <1>5, <1>7, <1>8, <1>9 DEF Deliver

-----------------------------------------------------------------------------
LEMMA SessionsAlways == SessionSpec => [](SessionInv /\ reach \subseteq Installations)
<1>1. SessionInit => SessionInv /\ reach \subseteq Installations
  <2> SUFFICES ASSUME SessionInit PROVE SessionInv /\ reach \subseteq Installations
    OBVIOUS
  <2>1. /\ session = Empty /\ tabs = [t \in Tabs |-> Idle] /\ vouched = connections /\ reach = Installations
    BY DEF SessionInit
  <2>2. /\ Empty \in Sessions /\ Empty.support = Nothing /\ Empty.install = Nothing /\ Empty.choices = Nothing
    BY DEF Empty, Sessions, WorkspaceOrNothing, Parked, ChoiceRows
  <2>3. SessionIs(session) /\ Entered(session)
    BY <2>1, <2>2 DEF SessionIs, SupportIsActive, AnswersIn, Entered
  <2>4. \A t \in Tabs, r \in Requests : r # tabs[t]
    BY <2>1, IdleIsNoRequest
  <2> QED
    BY <2>1, <2>2, <2>3, <2>4 DEF SessionInv
<1>2. ASSUME SessionInv, reach \subseteq Installations, [SessionNext]_sessionVars
      PROVE  SessionInv' /\ (reach \subseteq Installations)'
  <2>1. SessionInv'
    <3>1. CASE UNCHANGED sessionVars
      <4>1. UNCHANGED <<session, tabs, entered, vouched, connections>>
        BY <3>1 DEF sessionVars, gitHub, links
      <4>2. connections \subseteq vouched
        BY <1>2 DEF SessionInv
      <4> QED
        BY <1>2, <4>1, <4>2, Elsewhere
    <3> QED
      BY <1>2, <3>1, SessionSteps, AppSteps, OtherSteps DEF SessionNext
  <2>2. reach' \subseteq reach
    <3>1. CASE UNCHANGED sessionVars
      BY <3>1 DEF sessionVars, gitHub
    <3>2. ASSUME NEW t \in Tabs, SessionStep(t) PROVE reach' \subseteq reach
      BY <3>2 DEF SessionStep, Arrive, JustRespond, LeaveSupportView, LeaveWorkspaceView, SwitchTenant, CreateTenantView,
                  EnterByInvitation, DeleteActiveWorkspace, gitHub
    <3>3. ASSUME NEW t \in Tabs, AppStep(t) PROVE reach' \subseteq reach
      BY <3>3 DEF AppStep, GithubAppInstall, Connected, GithubAppConfirm, OfferReachable, RefreshWithoutCode, Choose,
                  DeleteConnection, AddProject, Callback, gitHub
    <3>4. ASSUME \/ Login \/ FlipSuperuser
                 \/ \E w \in Workspaces :
                      DeletedByAnother(w) \/ ExpireState(w) \/ \E r \in {"none", "member", "admin"} : Appoint(w, r)
          PROVE  reach' \subseteq reach
      BY <3>4 DEF Login, FlipSuperuser, DeletedByAnother, ExpireState, Appoint, gitHub
    <3>5. ASSUME \/ \E i \in Installations : Uninstall(i) \/ RemoveRepository(i) \/ LoseReach(i)
                 \/ \E e \in events : Deliver(e) \/ LoseDelivery(e)
          PROVE  reach' \subseteq reach
      BY <3>5 DEF Uninstall, RemoveRepository, LoseReach, Deliver, LoseDelivery
    <3> QED
      BY <1>2, <3>1, <3>2, <3>3, <3>4, <3>5 DEF SessionNext
  <2> QED
    BY <1>2, <2>1, <2>2
<1> QED
  BY <1>1, <1>2, PTL DEF SessionSpec

\* A request acts in a workspace its user is no member of only as the support
\* view it entered, and a login ends the view for good (workspace_access,
\* reset_support_view).
THEOREM SupportViewIsAsEnteredHolds == SessionSpec => []SupportViewIsAsEntered
<1>1. SessionInv => SupportViewIsAsEntered
  <2> SUFFICES ASSUME SessionInv PROVE SupportViewIsAsEntered
    OBVIOUS
  <2>1. ASSUME NEW t \in Tabs, tabs[t] # Idle, tabs[t].support PROVE tabs[t].copy.support = tabs[t].ws
    BY <2>1 DEF SessionInv, RequestIs
  <2>2. session.support # Nothing => session.support \in entered
    BY DEF SessionInv, Entered
  <2> QED
    BY <2>1, <2>2 DEF SupportViewIsAsEntered
<1> QED
  BY <1>1, SessionsAlways, PTL

\* Only an answer of GitHub's, given for that workspace, connects an
\* installation to it (github_app_views.py).
THEOREM ConnectionsAreVouchedHolds == SessionSpec => []ConnectionsAreVouched
<1>1. SessionInv => ConnectionsAreVouched
  BY DEF SessionInv, ConnectionsAreVouched
<1> QED
  BY <1>1, SessionsAlways, PTL

\* An installation that is gone, and a repository taken back, go with GitHub's
\* delivery in every workspace (_handle_installation_event,
\* _handle_installation_repositories).
THEOREM DeliveriesAreObeyedHolds == SessionSpec => []DeliveriesAreObeyed
<1>1. SessionInit => GitHubInv
  BY DEF SessionInit, GitHubInv
<1>2. GitHubInv /\ [SessionNext]_sessionVars => GitHubInv'
  <2> SUFFICES ASSUME GitHubInv, [SessionNext]_sessionVars PROVE GitHubInv'
    OBVIOUS
  <2>1. CASE UNCHANGED sessionVars
    BY <2>1, Untaken DEF sessionVars, gitHub, links
  <2> QED
    BY <2>1, GitHubAndSessions, GitHubAndOthers DEF SessionNext
<1>3. GitHubInv => DeliveriesAreObeyed
  BY DEF GitHubInv, DeliveriesAreObeyed, Coming
<1> QED
  BY <1>1, <1>2, <1>3, PTL DEF SessionSpec

Definitions == Contents \cup {Offered[i] : i \in 1 .. Len(Offered)}
StandardRows == [is : {"live", "archived"}, content : Definitions, enabled : BOOLEAN, draft : BOOLEAN, source : Nat]
Stages == {"save", "number", "insert", "queue", "snapshot"}
Tasks ==
  [std : Stds, stage : Stages, row : StandardRows \cup {NoStd}, num : Nat, new : BOOLEAN, only : SUBSET AllFields]
Executions == [std : Stds, version : Nat, content : Definitions, going : BOOLEAN]

TypesInv ==
  /\ std \in [Stds -> StandardRows \cup {NoStd}]
  /\ versions \in [Stds -> Seq(Definitions)]
  /\ market \in 1 .. Len(Offered)
  /\ \A s \in DOMAIN attached : s \in Stds /\ std[s] # NoStd

\* What a handler holds is of a standard that was made; a version it means to
\* use is there.
TaskIs(t) ==
  /\ t \in Tasks /\ std[t.std] # NoStd
  /\ t.stage # "queue" => t.row \in StandardRows
  /\ t.stage = "snapshot" /\ ~t.new =>
       t.num \in 1 .. Len(versions[t.std]) /\ versions[t.std][t.num] = t.row.content

\* A run's version is there, with what it runs.
RunIs(r) ==
  r \in Executions /\ r.version \in 1 .. Len(versions[r.std]) /\ versions[r.std][r.version] = r.content

HeldInv == TypesInv /\ (\A t \in tasks : TaskIs(t)) /\ (\A r \in runs : RunIs(r))

-----------------------------------------------------------------------------
LEMMA RowFields ==
  ASSUME NEW row \in StandardRows
  PROVE  /\ row # NoStd /\ row.is \in {"live", "archived"} /\ row.content \in Definitions
         /\ row.enabled \in BOOLEAN /\ row.draft \in BOOLEAN /\ row.source \in Nat
         /\ DOMAIN row = {"is", "content", "enabled", "draft", "source"}
<1>1. row.is \in {"live", "archived"} /\ NoStd.is = "none"
  BY DEF StandardRows, NoStd
<1> QED
  BY <1>1 DEF StandardRows

LEMMA TaskFields ==
  ASSUME NEW t \in Tasks
  PROVE  /\ t.std \in Stds /\ t.stage \in Stages /\ t.row \in StandardRows \cup {NoStd} /\ t.num \in Nat
         /\ t.new \in BOOLEAN /\ t.only \in SUBSET AllFields
  BY DEF Tasks

LEMMA MadeTask ==
  ASSUME NEW s \in Stds, NEW stage \in Stages, NEW row \in StandardRows \cup {NoStd}, NEW t, t = Task(s, stage, row)
  PROVE  /\ t \in Tasks /\ t.std = s /\ t.stage = stage /\ t.row = row /\ t.num = 0 /\ t.new /\ t.only = {}
  BY DEF Task, Tasks

LEMMA MadeRow ==
  ASSUME NEW c \in Definitions, NEW enabled \in BOOLEAN, NEW draft \in BOOLEAN, NEW source \in Nat,
         NEW row, row = Row(c, enabled, draft, source)
  PROVE  /\ row \in StandardRows /\ row.is = "live" /\ row.content = c /\ row.enabled = enabled
         /\ row.draft = draft /\ row.source = source
  BY DEF Row, StandardRows

LEMMA LiveRow ==
  ASSUME TypesInv, NEW s \in LiveStandards
  PROVE  s \in Stds /\ std[s] \in StandardRows /\ std[s].is = "live"
<1>1. s \in Stds /\ std[s].is = "live" /\ NoStd.is = "none"
  BY DEF LiveStandards, NoStd
<1> QED
  BY <1>1 DEF TypesInv

VersionsStay ==
  \A x \in Stds : \A v \in 1 .. Len(versions[x]) : v \in 1 .. Len(versions'[x]) /\ versions'[x][v] = versions[x][v]

\* One more version of a standard; the others, and its earlier ones, stay.
LEMMA Appended ==
  ASSUME TypesInv, NEW s \in Stds, NEW c \in Definitions,
         versions' = [versions EXCEPT ![s] = Append(@, c)]
  PROVE  /\ versions' \in [Stds -> Seq(Definitions)] /\ VersionsStay
         /\ Latest(s)' = Latest(s) + 1 /\ Latest(s) \in Nat
         /\ Latest(s) + 1 \in 1 .. Len(versions'[s]) /\ versions'[s][Latest(s) + 1] = c
         /\ \A x \in Stds \ {s} : versions'[x] = versions[x]
<1>1. versions \in [Stds -> Seq(Definitions)] /\ versions[s] \in Seq(Definitions)
  BY DEF TypesInv
<1>2. PICK d : d = Append(versions[s], c)
  OBVIOUS
<1>3. /\ d \in Seq(Definitions) /\ Len(d) = Len(versions[s]) + 1 /\ d[Len(versions[s]) + 1] = c
      /\ \A v \in 1 .. Len(versions[s]) : d[v] = versions[s][v]
  BY <1>1, <1>2, AppendProperties
<1>4. /\ versions' \in [Stds -> Seq(Definitions)] /\ versions'[s] = d
      /\ \A x \in Stds \ {s} : versions'[x] = versions[x]
  BY <1>1, <1>2, <1>3
<1>5. Len(versions[s]) \in Nat
  BY <1>1
<1>6. VersionsStay
  <2>1. ASSUME NEW x \in Stds, NEW v \in 1 .. Len(versions[x])
        PROVE  v \in 1 .. Len(versions'[x]) /\ versions'[x][v] = versions[x][v]
    <3>1. CASE x = s
      BY <1>3, <1>4, <1>5, <2>1, <3>1
    <3>2. CASE x # s
      BY <1>4, <2>1, <3>2
    <3> QED
      BY <3>1, <3>2
  <2> QED
    BY <2>1 DEF VersionsStay
<1> QED
  BY <1>3, <1>4, <1>5, <1>6 DEF Latest

LEMMA Unversioned ==
  ASSUME TypesInv, UNCHANGED versions
  PROVE  VersionsStay /\ versions' \in [Stds -> Seq(Definitions)] /\ \A s \in Stds : Latest(s)' = Latest(s) /\ Latest(s) \in Nat
  BY DEF TypesInv, VersionsStay, Latest

\* Standards are never unmade, versions never taken back.
LEMMA HeldStays ==
  ASSUME HeldInv,
         std' \in [Stds -> StandardRows \cup {NoStd}], \A s \in Stds : std[s] # NoStd => std'[s] # NoStd,
         versions' \in [Stds -> Seq(Definitions)], VersionsStay, market' \in 1 .. Len(Offered),
         \A s \in DOMAIN attached' : s \in Stds /\ std'[s] # NoStd,
         \A t \in tasks' : t \in tasks \/ TaskIs(t)', \A r \in runs' : r \in runs \/ RunIs(r)'
  PROVE  HeldInv'
<1>1. ASSUME NEW t \in tasks PROVE TaskIs(t)'
  <2>1. TaskIs(t) /\ t.std \in Stds
    BY TaskFields DEF HeldInv, TaskIs
  <2>2. std'[t.std] # NoStd
    BY <2>1 DEF TaskIs
  <2>3. t.stage = "snapshot" /\ ~t.new =>
          t.num \in 1 .. Len(versions'[t.std]) /\ versions'[t.std][t.num] = t.row.content
    BY <2>1 DEF TaskIs, VersionsStay
  <2> QED
    BY <2>1, <2>2, <2>3 DEF TaskIs
<1>2. ASSUME NEW r \in runs PROVE RunIs(r)'
  <2>1. RunIs(r)
    BY DEF HeldInv
  <2>2. r.std \in Stds
    BY <2>1 DEF RunIs, Executions
  <2> QED
    BY <2>1, <2>2 DEF RunIs, VersionsStay
<1>3. TypesInv'
  BY DEF TypesInv
<1> QED
  BY <1>1, <1>2, <1>3 DEF HeldInv

\* When only tasks come and go.
LEMMA OnlyTasks ==
  ASSUME HeldInv, UNCHANGED <<std, versions, market, attached, runs>>,
         \A t \in tasks' : t \in tasks \/ TaskIs(t)
  PROVE  HeldInv'
<1>1. \A t \in tasks' : TaskIs(t) => TaskIs(t)'
  BY DEF TaskIs
<1> QED
  BY <1>1, Unversioned, HeldStays DEF HeldInv, TypesInv

-----------------------------------------------------------------------------
(* The steps that begin a task *)

LEMMA Making ==
  ASSUME HeldInv, NEW s \in Stds, NEW row \in StandardRows, Create(s, row)
  PROVE  HeldInv'
<1>1. /\ std' = [std EXCEPT ![s] = row] /\ UNCHANGED <<versions, market, attached, runs>>
      /\ tasks' = tasks \cup {Task(s, "number", row)}
  BY DEF Create, Begin
<1>2. PICK t : t = Task(s, "number", row)
  OBVIOUS
<1>3. t \in Tasks /\ t.std = s /\ t.stage = "number" /\ t.row = row
  BY <1>2, MadeTask DEF Stages
<1>4. std \in [Stds -> StandardRows \cup {NoStd}] /\ row # NoStd
  BY RowFields DEF HeldInv, TypesInv
<1>5. /\ std' \in [Stds -> StandardRows \cup {NoStd}] /\ std'[s] = row
      /\ \A x \in Stds : std[x] # NoStd => std'[x] # NoStd
  BY <1>1, <1>4
<1>6. TaskIs(t)'
  BY <1>3, <1>4, <1>5 DEF TaskIs
<1>7. versions' \in [Stds -> Seq(Definitions)] /\ VersionsStay /\ market' \in 1 .. Len(Offered)
      /\ \A x \in DOMAIN attached' : x \in Stds /\ std'[x] # NoStd
  BY <1>1, <1>5, Unversioned DEF HeldInv, TypesInv
<1> QED
  BY <1>1, <1>2, <1>5, <1>6, <1>7, HeldStays

LEMMA Offering ==
  ASSUME HeldInv
  PROVE  Offered[market] \in Definitions /\ market \in Nat
  BY StandardsAssumption DEF HeldInv, TypesInv, Definitions

LEMMA BeginningToSave ==
  ASSUME HeldInv, NEW s, NEW row \in StandardRows, NEW only \in SUBSET AllFields, BeginSave(s, row, only)
  PROVE  HeldInv' /\ s \in LiveStandards
<1>1. /\ UNCHANGED <<std, versions, market, attached, runs>> /\ s \in LiveStandards
      /\ tasks' = tasks \cup {[Task(s, "save", row) EXCEPT !.only = only]}
  BY DEF BeginSave, Begin
<1>2. s \in Stds /\ std[s] # NoStd
  BY <1>1, LiveRow, RowFields DEF HeldInv
<1>3. PICK t, u : t = Task(s, "save", row) /\ u = [t EXCEPT !.only = only]
  OBVIOUS
<1>4. t \in Tasks /\ t.std = s /\ t.stage = "save" /\ t.row = row
  BY <1>2, <1>3, MadeTask DEF Stages
<1>5. u \in Tasks /\ u.std = s /\ u.stage = "save" /\ u.row = row
  BY <1>3, <1>4 DEF Tasks
<1>6. TaskIs(u)
  BY <1>2, <1>5 DEF TaskIs
<1> QED
  BY <1>1, <1>3, <1>6, OnlyTasks

\* The rows that handlers make and load.
LEMMA Changed ==
  ASSUME HeldInv, NEW s \in LiveStandards
  PROVE  /\ \A c \in Definitions, on, draft \in BOOLEAN : Row(c, on /\ ~draft, draft, std[s].source) \in StandardRows
         /\ \A c \in Definitions : [std[s] EXCEPT !.content = c] \in StandardRows
         /\ \A c \in Definitions, m \in Nat : [std[s] EXCEPT !.content = c, !.source = m] \in StandardRows
         /\ \A on \in BOOLEAN : [std[s] EXCEPT !.enabled = on] \in StandardRows
         /\ [std[s] EXCEPT !.is = "archived"] \in StandardRows
<1>1. PICK row : row = std[s]
  OBVIOUS
<1>2. row \in StandardRows /\ row.source \in Nat
  BY <1>1, LiveRow, RowFields DEF HeldInv
<1>3. ASSUME NEW c \in Definitions, NEW on \in BOOLEAN, NEW draft \in BOOLEAN
      PROVE  Row(c, on /\ ~draft, draft, row.source) \in StandardRows
  <2>1. (on /\ ~draft) \in BOOLEAN
    OBVIOUS
  <2>2. \A e \in BOOLEAN : Row(c, e, draft, row.source) \in StandardRows
    BY <1>2, MadeRow
  <2> QED
    BY <2>1, <2>2, Zenon
<1>4. /\ \A c \in Definitions : [row EXCEPT !.content = c] \in StandardRows
      /\ \A c \in Definitions, m \in Nat : [row EXCEPT !.content = c, !.source = m] \in StandardRows
      /\ \A on \in BOOLEAN : [row EXCEPT !.enabled = on] \in StandardRows
      /\ [row EXCEPT !.is = "archived"] \in StandardRows
  BY <1>2 DEF StandardRows
<1> QED
  BY <1>1, <1>3, <1>4

\* Of UpdateStandard.
Sent(s, fields, c, on, draft) ==
  [std[s] EXCEPT !.content = IF "content" \in fields THEN c ELSE @,
                 !.draft = IF "draft" \in fields THEN draft ELSE @,
                 !.enabled = IF "enabled" \in fields THEN on ELSE @]

LEMMA SentIs ==
  ASSUME HeldInv, NEW s \in LiveStandards, NEW fields, NEW c \in Definitions, NEW on \in BOOLEAN, NEW draft \in BOOLEAN,
         NEW row, row = Sent(s, fields, c, on, draft)
  PROVE  /\ row \in StandardRows
         /\ row.content = IF "content" \in fields THEN c ELSE std[s].content
         /\ row.draft = IF "draft" \in fields THEN draft ELSE std[s].draft
         /\ row.enabled = IF "enabled" \in fields THEN on ELSE std[s].enabled
<1>1. PICK old : old = std[s]
  OBVIOUS
<1>2. old \in StandardRows
  BY <1>1, LiveRow DEF HeldInv
<1>3. PICK x, y, z : /\ x = (IF "content" \in fields THEN c ELSE old.content) /\ x \in Definitions
                     /\ y = (IF "draft" \in fields THEN draft ELSE old.draft) /\ y \in BOOLEAN
                     /\ z = (IF "enabled" \in fields THEN on ELSE old.enabled) /\ z \in BOOLEAN
  BY <1>2, RowFields
<1>4. row = [old EXCEPT !.content = x, !.draft = y, !.enabled = z]
  BY <1>1, <1>2, <1>3 DEF Sent, StandardRows
<1> QED
  BY <1>1, <1>2, <1>3, <1>4 DEF StandardRows

LEMMA SentRow ==
  ASSUME HeldInv, NEW s \in LiveStandards, NEW fields, NEW c \in Definitions, NEW on \in BOOLEAN, NEW draft \in BOOLEAN
  PROVE  Sent(s, fields, c, on, draft) \in StandardRows
<1>1. PICK old : old = std[s]
  OBVIOUS
<1>2. old \in StandardRows
  BY <1>1, LiveRow DEF HeldInv
<1>3. PICK x, y, z : /\ x = (IF "content" \in fields THEN c ELSE old.content) /\ x \in Definitions
                     /\ y = (IF "draft" \in fields THEN draft ELSE old.draft) /\ y \in BOOLEAN
                     /\ z = (IF "enabled" \in fields THEN on ELSE old.enabled) /\ z \in BOOLEAN
  BY <1>2, RowFields
<1>4. Sent(s, fields, c, on, draft) = [old EXCEPT !.content = x, !.draft = y, !.enabled = z]
  BY <1>1, <1>2, <1>3 DEF Sent, StandardRows
<1>5. [old EXCEPT !.content = x, !.draft = y, !.enabled = z] \in StandardRows
  BY <1>2, <1>3 DEF StandardRows
<1> QED
  BY <1>4, <1>5

-----------------------------------------------------------------------------
(* Every step keeps what is held *)

LEMMA Starting ==
  ASSUME StandardsInit
  PROVE  HeldInv
<1>1. /\ market = 1 /\ tasks = {} /\ Len(Offered) \in Nat \ {0} /\ Offered[1] \in Definitions
      /\ market \in 1 .. Len(Offered)
  BY StandardsAssumption DEF StandardsInit, Definitions
<1>2. CASE use = "attach"
  <2>1. /\ std = [s \in Stds |-> NoStd] /\ versions = [s \in Stds |-> <<>>] /\ attached = <<>> /\ runs = {}
    BY <1>2 DEF StandardsInit
  <2>2. versions \in [Stds -> Seq(Definitions)] /\ DOMAIN attached = {}
    BY <2>1
  <2> QED
    BY <1>1, <2>1, <2>2 DEF HeldInv, TypesInv
<1>3. CASE use # "attach"
  <2> DEFINE c == Offered[1]
  <2>1. PICK s \in Stds :
          /\ std = [x \in Stds |-> IF x = s THEN Row(c, TRUE, FALSE, 1) ELSE NoStd]
          /\ versions = [x \in Stds |-> IF x = s THEN <<c>> ELSE <<>>]
          /\ attached = [x \in {s} |-> 1]
          /\ runs = {[std |-> s, version |-> 1, content |-> c, going |-> FALSE]}
    BY <1>3 DEF StandardsInit
  <2>2. PICK row : row = Row(c, TRUE, FALSE, 1)
    OBVIOUS
  <2>3. row \in StandardRows
    BY <1>1, <2>2 DEF Row, StandardRows
  <2>4. std \in [Stds -> StandardRows \cup {NoStd}] /\ std[s] # NoStd /\ DOMAIN attached = {s}
    <3>1. row # NoStd
      BY <2>3, RowFields
    <3> QED
      BY <2>1, <2>2, <2>3, <3>1
  <2>5. PICK one : one = <<c>>
    OBVIOUS
  <2>8. one \in Seq(Definitions) /\ Len(one) = 1 /\ one[1] = c
    BY <1>1, <2>5
  <2>6. versions \in [Stds -> Seq(Definitions)] /\ Len(versions[s]) = 1 /\ versions[s][1] = c
    <3>1. <<>> \in Seq(Definitions)
      OBVIOUS
    <3> QED
      BY <2>1, <2>5, <2>8, <3>1
  <2>7. \A r \in runs : RunIs(r)
    <3>1. PICK r : r = [std |-> s, version |-> 1, content |-> c, going |-> FALSE]
      OBVIOUS
    <3>2. r \in Executions /\ r.std = s /\ r.version = 1 /\ r.content = c
      BY <1>1, <3>1 DEF Executions
    <3>4. r.version \in 1 .. Len(versions[r.std]) /\ versions[r.std][r.version] = r.content
      <4>1. Len(versions[s]) = 1 /\ versions[s][1] = r.content
        BY <2>6, <3>2
      <4> QED
        BY <3>2, <4>1
    <3>3. RunIs(r)
      BY <3>2, <3>4 DEF RunIs
    <3> QED
      BY <2>1, <3>1, <3>3
  <2> QED
    BY <1>1, <2>4, <2>6, <2>7 DEF HeldInv, TypesInv
<1> QED
  BY <1>2, <1>3

\* save() of a handler that loaded the standard before.
LEMMA Merged ==
  ASSUME NEW old \in StandardRows, NEW t \in Tasks, t.row \in StandardRows
  PROVE  /\ Merge(old, t) \in StandardRows
         /\ \A f \in {"content", "enabled", "draft", "source"} :
              Merge(old, t)[f] = IF f \in t.only THEN t.row[f] ELSE old[f]
         /\ old.is = "live" => Merge(old, t).is = "live"
<1>1. DOMAIN old = {"is", "content", "enabled", "draft", "source"} /\ old.is \in {"live", "archived"}
  BY RowFields
<1>2. /\ t.row.content \in Definitions /\ t.row.enabled \in BOOLEAN /\ t.row.draft \in BOOLEAN /\ t.row.source \in Nat
      /\ old.content \in Definitions /\ old.enabled \in BOOLEAN /\ old.draft \in BOOLEAN /\ old.source \in Nat
  BY RowFields
<1>3. Merge(old, t) =
        [f \in {"is", "content", "enabled", "draft", "source"} |->
           IF f = "is" THEN IF t.only = AllFields THEN "live" ELSE old.is
           ELSE IF f \in t.only THEN t.row[f] ELSE old[f]]
  BY <1>1 DEF Merge
<1>4. Merge(old, t) \in StandardRows
  BY <1>1, <1>2, <1>3 DEF StandardRows
<1> QED
  BY <1>1, <1>3, <1>4

\* A task that goes on to u, or ends.
LEMMA MovingOn ==
  ASSUME HeldInv, NEW t \in tasks, NEW u, TaskIs(u), tasks' \subseteq tasks \cup {u},
         UNCHANGED <<std, versions, market, attached, runs>>
  PROVE  HeldInv'
<1>1. \A o \in tasks' : o \in tasks \/ TaskIs(o)
  OBVIOUS
<1> QED
  BY <1>1, OnlyTasks

LEMMA Fewer ==
  ASSUME HeldInv, tasks' \subseteq tasks, UNCHANGED <<std, versions, market, attached, runs>>
  PROVE  HeldInv'
<1>1. \A o \in tasks' : o \in tasks \/ TaskIs(o)
  OBVIOUS
<1> QED
  BY <1>1, OnlyTasks

LEMMA Saving ==
  ASSUME HeldInv, NEW t \in tasks, Save(t)
  PROVE  HeldInv'
<1>1. /\ t.stage = "save" /\ std' = [std EXCEPT ![t.std] = Merge(@, t)]
      /\ tasks' = (tasks \ {t}) \cup {[t EXCEPT !.stage = "number", !.only = {}]}
      /\ UNCHANGED <<versions, market, attached, runs>>
  BY DEF Save, Move
<1>2. TaskIs(t) /\ t \in Tasks /\ t.std \in Stds /\ t.row \in StandardRows /\ std[t.std] # NoStd
  BY <1>1, TaskFields DEF HeldInv, TaskIs
<1>3. std \in [Stds -> StandardRows \cup {NoStd}] /\ std[t.std] \in StandardRows
  BY <1>2 DEF HeldInv, TypesInv
<1>4. PICK new : new = Merge(std[t.std], t)
  OBVIOUS
<1>5. new \in StandardRows /\ new # NoStd
  BY <1>2, <1>3, <1>4, Merged, RowFields
<1>6. /\ std' \in [Stds -> StandardRows \cup {NoStd}] /\ std'[t.std] # NoStd
      /\ \A x \in Stds : std[x] # NoStd => std'[x] # NoStd
  BY <1>1, <1>2, <1>3, <1>4, <1>5
<1>7. PICK u, v : u = [t EXCEPT !.stage = "number"] /\ v = [u EXCEPT !.only = {}]
  OBVIOUS
<1>8. v = [t EXCEPT !.stage = "number", !.only = {}]
  BY <1>7
<1>9. u \in Tasks /\ u.std = t.std /\ u.stage = "number" /\ u.row = t.row
  BY <1>2, <1>7 DEF Tasks, Stages
<1>10. v \in Tasks /\ v.std = t.std /\ v.stage = "number" /\ v.row = t.row
  BY <1>7, <1>9 DEF Tasks
<1>11. TaskIs(v)'
  BY <1>2, <1>6, <1>10 DEF TaskIs
<1>12. versions' \in [Stds -> Seq(Definitions)] /\ VersionsStay /\ market' \in 1 .. Len(Offered)
      /\ \A x \in DOMAIN attached' : x \in Stds /\ std'[x] # NoStd
  BY <1>1, <1>6, Unversioned DEF HeldInv, TypesInv
<1>13. \A o \in tasks' : o \in tasks \/ TaskIs(o)'
  BY <1>1, <1>8, <1>11
<1>14. \A r \in runs' : r \in runs
  BY <1>1
<1> QED
  BY <1>6, <1>12, <1>13, <1>14, HeldStays

LEMMA Numbering ==
  ASSUME HeldInv, NEW t \in tasks, Number(t)
  PROVE  HeldInv'
<1>1. /\ t.stage = "number" /\ UNCHANGED <<std, versions, market, attached, runs>>
      /\ tasks' = (tasks \ {t}) \cup {[t EXCEPT !.stage = "insert", !.num = Latest(t.std) + 1]}
  BY DEF Number, Move
<1>2. TaskIs(t) /\ t \in Tasks /\ t.std \in Stds /\ t.row \in StandardRows /\ std[t.std] # NoStd
  BY <1>1, TaskFields DEF HeldInv, TaskIs
<1>3. Latest(t.std) + 1 \in Nat
  BY <1>2 DEF HeldInv, TypesInv, Latest
<1>4. PICK n \in Nat : n = Latest(t.std) + 1
  BY <1>3
<1>5. PICK u, v : u = [t EXCEPT !.stage = "insert"] /\ v = [u EXCEPT !.num = n]
  OBVIOUS
<1>6. v = [t EXCEPT !.stage = "insert", !.num = n]
  BY <1>5
<1>7. u \in Tasks /\ u.std = t.std /\ u.stage = "insert" /\ u.row = t.row
  BY <1>2, <1>5 DEF Tasks, Stages
<1>8. v \in Tasks /\ v.std = t.std /\ v.stage = "insert" /\ v.row = t.row
  BY <1>4, <1>5, <1>7 DEF Tasks
<1>9. TaskIs(v)
  BY <1>2, <1>8 DEF TaskIs
<1> QED
  BY <1>1, <1>4, <1>6, <1>9, MovingOn

\* A task that is to queue a standard.
LEMMA ToQueue ==
  ASSUME HeldInv, NEW s \in Stds, std[s] # NoStd, NEW u, u = Task(s, "queue", NoStd)
  PROVE  TaskIs(u)
<1>1. u \in Tasks /\ u.std = s /\ u.stage = "queue"
  BY MadeTask DEF Stages
<1> QED
  BY <1>1 DEF TaskIs

LEMMA Inserting ==
  ASSUME HeldInv, NEW t \in tasks, Insert(t)
  PROVE  HeldInv'
<1>1. /\ t.stage = "insert" /\ UNCHANGED <<std, market, attached, runs>>
  BY DEF Insert
<1>2. TaskIs(t) /\ t \in Tasks /\ t.std \in Stds /\ t.row \in StandardRows /\ std[t.std] # NoStd /\ t.row.content \in Definitions
  BY <1>1, TaskFields, RowFields DEF HeldInv, TaskIs
<1>3. PICK u : u = Task(t.std, "queue", NoStd)
  OBVIOUS
<1>4. TaskIs(u)
  BY <1>2, <1>3, ToQueue
<1>5. CASE t.num = Latest(t.std) + 1
  <2>1. versions' = [versions EXCEPT ![t.std] = Append(@, t.row.content)] /\ tasks' \subseteq tasks \cup {u}
    BY <1>3, <1>5 DEF Insert, Move, End
  <2>2. versions' \in [Stds -> Seq(Definitions)] /\ VersionsStay
    BY <1>2, <2>1, Appended DEF HeldInv
  <2>3. TaskIs(u)'
    <3>1. u \in Tasks /\ u.std = t.std /\ u.stage = "queue" /\ u.row = NoStd
      BY <1>2, <1>3, MadeTask DEF Stages
    <3> QED
      BY <1>1, <1>2, <3>1 DEF TaskIs
  <2>4. \A o \in tasks' : o \in tasks \/ TaskIs(o)'
    BY <2>1, <2>3
  <2>5. /\ std' \in [Stds -> StandardRows \cup {NoStd}] /\ \A x \in Stds : std[x] # NoStd => std'[x] # NoStd
        /\ market' \in 1 .. Len(Offered) /\ \A x \in DOMAIN attached' : x \in Stds /\ std'[x] # NoStd
    BY <1>1 DEF HeldInv, TypesInv
  <2> QED
    BY <1>1, <2>2, <2>4, <2>5, HeldStays
<1>6. CASE t.num # Latest(t.std) + 1
  <2>1. UNCHANGED versions /\ tasks' \subseteq tasks
    BY <1>6 DEF Insert, End
  <2> QED
    BY <1>1, <2>1, Fewer
<1> QED
  BY <1>5, <1>6

\* version_to_run picks a version that is the definition, or a new one.
LEMMA Picked ==
  ASSUME HeldInv, NEW t \in Tasks, NEW row, row \in StandardRows, row = std[t.std],
         NEW u, u = ToRun(t, row)
  PROVE  /\ TaskIs(u) /\ u.std = t.std /\ u.stage = "snapshot" /\ u.row = row
         /\ u.new => u.num = Latest(t.std) + 1
         /\ ~u.new => u.num = Latest(t.std) /\ Latest(t.std) > 0
<1>1. /\ t.std \in Stds /\ versions[t.std] \in Seq(Definitions) /\ Latest(t.std) \in Nat /\ row # NoStd
      /\ Latest(t.std) = Len(versions[t.std])
  BY TaskFields, RowFields DEF HeldInv, TypesInv, Latest
<1>2. PICK kept \in BOOLEAN : kept = (Latest(t.std) > 0 /\ IsDefinition(versions[t.std][Latest(t.std)], row.content))
  OBVIOUS
<1>3. PICK n : n = (IF kept THEN Latest(t.std) ELSE Latest(t.std) + 1)
  OBVIOUS
<1>4. n \in Nat
  BY <1>1, <1>3
<1>5. PICK a, b, c, d : /\ a = [t EXCEPT !.stage = "snapshot"] /\ b = [a EXCEPT !.row = row]
                        /\ c = [b EXCEPT !.new = ~kept] /\ d = [c EXCEPT !.num = n]
  OBVIOUS
<1>6. u = [t EXCEPT !.stage = "snapshot", !.row = row, !.new = ~kept, !.num = n]
  BY <1>2, <1>3 DEF ToRun
<1>7. u = d
  BY <1>5, <1>6
<1>8. a \in Tasks /\ a.std = t.std /\ a.stage = "snapshot"
  BY <1>5 DEF Tasks, Stages
<1>9. b \in Tasks /\ b.std = t.std /\ b.stage = "snapshot" /\ b.row = row
  BY <1>5, <1>8 DEF Tasks
<1>10. c \in Tasks /\ c.std = t.std /\ c.stage = "snapshot" /\ c.row = row /\ c.new = ~kept
  BY <1>2, <1>5, <1>9 DEF Tasks
<1>11. d \in Tasks /\ d.std = t.std /\ d.stage = "snapshot" /\ d.row = row /\ d.new = ~kept /\ d.num = n
  BY <1>4, <1>5, <1>10 DEF Tasks
<1>12. kept => Latest(t.std) > 0 /\ versions[t.std][Latest(t.std)] = row.content
  BY <1>2 DEF IsDefinition
<1>13. ~u.new => u.num \in 1 .. Len(versions[u.std]) /\ versions[u.std][u.num] = u.row.content
  <2>1. ASSUME kept
        PROVE  n = Latest(t.std) /\ n \in 1 .. Len(versions[t.std]) /\ versions[t.std][n] = row.content
    <3>1. n = Latest(t.std) /\ n > 0 /\ versions[t.std][n] = row.content
      BY <1>3, <1>12, <2>1
    <3> QED
      BY <1>1, <3>1
  <2>2. ~u.new => kept
    BY <1>2, <1>7, <1>11
  <2> QED
    BY <1>7, <1>11, <2>1, <2>2
<1>14. TaskIs(u)
  BY <1>1, <1>7, <1>11, <1>13 DEF TaskIs
<1> QED
  BY <1>1, <1>3, <1>7, <1>11, <1>12, <1>14

LEMMA Queueing ==
  ASSUME HeldInv, NEW t \in tasks, Queue(t)
  PROVE  HeldInv'
<1>1. t.stage = "queue" /\ UNCHANGED <<std, versions, market, attached, runs>>
  BY DEF Queue
<1>2. PICK row : row = std[t.std]
  OBVIOUS
<1>3. \/ tasks' \subseteq tasks
      \/ row.is = "live" /\ tasks' = (tasks \ {t}) \cup {ToRun(t, row)}
  BY <1>2 DEF Queue, End, Move
<1>4. CASE tasks' \subseteq tasks
  BY <1>1, <1>4, Fewer
<1>5. CASE row.is = "live" /\ tasks' = (tasks \ {t}) \cup {ToRun(t, row)}
  <2>1. TaskIs(t) /\ t \in Tasks /\ t.std \in Stds
    BY TaskFields DEF HeldInv, TaskIs
  <2>2. row \in StandardRows
    BY <1>2, <2>1, <1>5 DEF HeldInv, TypesInv, TaskIs
  <2>3. PICK u : u = ToRun(t, row)
    OBVIOUS
  <2>4. TaskIs(u)
    BY <1>2, <2>1, <2>2, <2>3, Picked
  <2> QED
    BY <1>1, <1>5, <2>3, <2>4, MovingOn
<1> QED
  BY <1>3, <1>4, <1>5

\* A webhook's run and the Run button: the standard is live.
LEMMA Running ==
  ASSUME HeldInv, NEW s \in Stds, std[s].is = "live", UNCHANGED <<std, versions, market, attached, runs>>,
         Begin(ToRun(Task(s, "snapshot", std[s]), std[s]))
  PROVE  HeldInv'
<1>1. PICK row : row = std[s]
  OBVIOUS
<1>2. s \in LiveStandards /\ row \in StandardRows
  BY <1>1, LiveRow DEF HeldInv, LiveStandards
<1>3. PICK t : t = Task(s, "snapshot", row)
  OBVIOUS
<1>4. t \in Tasks /\ t.std = s
  BY <1>2, <1>3, MadeTask DEF Stages
<1>5. PICK u : u = ToRun(t, row)
  OBVIOUS
<1>6. TaskIs(u)
  BY <1>1, <1>2, <1>4, <1>5, Picked
<1>7. tasks' = tasks \cup {u}
  BY <1>1, <1>3, <1>5 DEF Begin
<1> QED
  BY <1>6, <1>7, OnlyTasks

LEMMA RunningForEvent ==
  ASSUME HeldInv, NEW s \in Stds, EnqueueForEvent(s)
  PROVE  HeldInv'
  BY Running DEF EnqueueForEvent, Runnable, Applies

\* What is attached is live or archived; an archived standard is attached no
\* longer, but a standard that is off is not run either.
LEMMA RunningOnRequest ==
  ASSUME HeldInv, NEW s \in Stds, RunProjectStandards(s)
  PROVE  HeldInv'
<1>1. PICK row : row = std[s]
  OBVIOUS
<1>2. row \in StandardRows
  BY <1>1 DEF RunProjectStandards, Attached, HeldInv, TypesInv
<1>3. PICK t : t = Task(s, "snapshot", row)
  OBVIOUS
<1>4. t \in Tasks /\ t.std = s
  BY <1>2, <1>3, MadeTask DEF Stages
<1>5. PICK u : u = ToRun(t, row)
  OBVIOUS
<1>6. TaskIs(u)
  BY <1>1, <1>2, <1>4, <1>5, Picked
<1>7. tasks' = tasks \cup {u} /\ UNCHANGED <<std, versions, market, attached, runs>>
  BY <1>1, <1>3, <1>5 DEF Begin, RunProjectStandards
<1> QED
  BY <1>6, <1>7, OnlyTasks

LEMMA Snapshotting ==
  ASSUME HeldInv, NEW t \in tasks, Snapshot(t)
  PROVE  HeldInv'
<1>1. /\ t.stage = "snapshot" /\ UNCHANGED <<std, market, attached>>
      /\ versions' = (IF t.new THEN [versions EXCEPT ![t.std] = Append(@, t.row.content)] ELSE versions)
      /\ ~t.new \/ t.num = Latest(t.std) + 1
      /\ runs' = runs \cup {Execution(t)} /\ tasks' \subseteq tasks
  BY DEF Snapshot, End
<1>2. TaskIs(t) /\ t \in Tasks /\ t.std \in Stds /\ t.row \in StandardRows /\ t.num \in Nat
      /\ t.row.content \in Definitions
  BY <1>1, TaskFields, RowFields DEF HeldInv, TaskIs
<1>3. PICK r : r = [std |-> t.std, version |-> t.num, content |-> t.row.content, going |-> TRUE]
  OBVIOUS
<1>4. r \in Executions /\ r.std = t.std /\ r.version = t.num /\ r.content = t.row.content
  BY <1>2, <1>3 DEF Executions
<1>5. /\ versions' \in [Stds -> Seq(Definitions)] /\ VersionsStay
      /\ t.num \in 1 .. Len(versions'[t.std]) /\ versions'[t.std][t.num] = t.row.content
  <2>1. CASE t.new
    <3>1. versions' = [versions EXCEPT ![t.std] = Append(@, t.row.content)] /\ t.num = Latest(t.std) + 1
      BY <1>1, <2>1
    <3>2. /\ versions' \in [Stds -> Seq(Definitions)] /\ VersionsStay
          /\ Latest(t.std) + 1 \in 1 .. Len(versions'[t.std]) /\ versions'[t.std][Latest(t.std) + 1] = t.row.content
      BY <1>2, <3>1, Appended DEF HeldInv
    <3> QED
      BY <3>1, <3>2
  <2>2. CASE ~t.new
    BY <1>1, <1>2, <2>2, Unversioned DEF HeldInv, TaskIs
  <2> QED
    BY <2>1, <2>2
<1>6. RunIs(r)'
  BY <1>4, <1>5 DEF RunIs
<1>7. \A x \in runs' : x \in runs \/ RunIs(x)'
  BY <1>1, <1>3, <1>6 DEF Execution
<1>8. /\ std' \in [Stds -> StandardRows \cup {NoStd}] /\ \A x \in Stds : std[x] # NoStd => std'[x] # NoStd
      /\ market' \in 1 .. Len(Offered) /\ \A x \in DOMAIN attached' : x \in Stds /\ std'[x] # NoStd
  BY <1>1 DEF HeldInv, TypesInv
<1>9. \A o \in tasks' : o \in tasks
  BY <1>1
<1> QED
  BY <1>5, <1>7, <1>8, <1>9, HeldStays

LEMMA Ending ==
  ASSUME HeldInv, NEW r \in runs, RunEnds(r)
  PROVE  HeldInv'
<1>1. /\ runs' = (runs \ {r}) \cup {[r EXCEPT !.going = FALSE]} /\ UNCHANGED <<std, versions, market, attached, tasks>>
  BY DEF RunEnds
<1>2. PICK e : e = [r EXCEPT !.going = FALSE]
  OBVIOUS
<1>3. RunIs(r)
  BY DEF HeldInv
<1>4. e \in Executions /\ e.std = r.std /\ e.version = r.version /\ e.content = r.content
  BY <1>2, <1>3 DEF RunIs, Executions
<1>5. RunIs(e)'
  BY <1>1, <1>3, <1>4 DEF RunIs
<1>6. \A x \in runs' : x \in runs \/ RunIs(x)'
  BY <1>1, <1>2, <1>5
<1>7. /\ std' \in [Stds -> StandardRows \cup {NoStd}] /\ \A x \in Stds : std[x] # NoStd => std'[x] # NoStd
      /\ market' \in 1 .. Len(Offered) /\ \A x \in DOMAIN attached' : x \in Stds /\ std'[x] # NoStd
      /\ VersionsStay /\ versions' \in [Stds -> Seq(Definitions)] /\ \A o \in tasks' : o \in tasks
  BY <1>1, Unversioned DEF HeldInv, TypesInv
<1> QED
  BY <1>6, <1>7, HeldStays

\* A standard is queued by its row being turned on.
LEMMA SwitchingOnOff ==
  ASSUME HeldInv, NEW s \in Stds, NEW on \in BOOLEAN, SetEnabled(s, on)
  PROVE  HeldInv'
<1>1. /\ s \in LiveStandards /\ std' = [std EXCEPT ![s].enabled = on] /\ UNCHANGED <<versions, market, attached, runs>>
      /\ IF on THEN Begin(Task(s, "queue", NoStd)) ELSE UNCHANGED <<tasks, disturbed>>
  BY DEF SetEnabled
<1>2. PICK row : row = [std[s] EXCEPT !.enabled = on]
  OBVIOUS
<1>3. row \in StandardRows /\ row # NoStd
  BY <1>1, <1>2, Changed, RowFields
<1>4. std \in [Stds -> StandardRows \cup {NoStd}]
  BY DEF HeldInv, TypesInv
<1>5. /\ std' \in [Stds -> StandardRows \cup {NoStd}] /\ std'[s] = row
      /\ \A x \in Stds : std[x] # NoStd => std'[x] # NoStd
  BY <1>1, <1>2, <1>3, <1>4
<1>6. PICK u : u = Task(s, "queue", NoStd)
  OBVIOUS
<1>7. u \in Tasks /\ u.std = s /\ u.stage = "queue"
  BY <1>6, MadeTask DEF Stages
<1>8. TaskIs(u)'
  BY <1>3, <1>5, <1>7 DEF TaskIs
<1>9. \A o \in tasks' : o \in tasks \/ TaskIs(o)'
  BY <1>1, <1>6, <1>8 DEF Begin
<1>10. /\ VersionsStay /\ versions' \in [Stds -> Seq(Definitions)] /\ market' \in 1 .. Len(Offered)
       /\ \A x \in DOMAIN attached' : x \in Stds /\ std'[x] # NoStd
       /\ \A x \in runs' : x \in runs
  BY <1>1, <1>5, Unversioned DEF HeldInv, TypesInv
<1> QED
  BY <1>5, <1>9, <1>10, HeldStays

LEMMA Deleting ==
  ASSUME HeldInv, NEW s \in Stds, DeleteStandard(s)
  PROVE  HeldInv'
<1>1. /\ s \in LiveStandards /\ std' = [std EXCEPT ![s].is = "archived"] /\ UNCHANGED <<versions, market, runs, tasks>>
      /\ attached' = [x \in DOMAIN attached \ {s} |-> attached[x]]
  BY DEF DeleteStandard, Archive
<1>2. PICK row : row = [std[s] EXCEPT !.is = "archived"]
  OBVIOUS
<1>3. row \in StandardRows /\ row # NoStd
  BY <1>1, <1>2, Changed, RowFields
<1>4. std \in [Stds -> StandardRows \cup {NoStd}]
  BY DEF HeldInv, TypesInv
<1>5. /\ std' \in [Stds -> StandardRows \cup {NoStd}] /\ std'[s] = row
      /\ \A x \in Stds : std[x] # NoStd => std'[x] # NoStd
  BY <1>1, <1>2, <1>3, <1>4
<1>6. /\ VersionsStay /\ versions' \in [Stds -> Seq(Definitions)] /\ market' \in 1 .. Len(Offered)
      /\ \A x \in DOMAIN attached' : x \in Stds /\ std'[x] # NoStd
      /\ (\A x \in runs' : x \in runs) /\ \A o \in tasks' : o \in tasks
  BY <1>1, <1>5, Unversioned DEF HeldInv, TypesInv
<1> QED
  BY <1>5, <1>6, HeldStays

LEMMA Attaching ==
  ASSUME HeldInv, NEW some \in SUBSET Stds, SetProjectStandards(some)
  PROVE  HeldInv'
<1> DEFINE new == {s \in some \ DOMAIN attached : Runnable(std[s])}
<1>1. /\ some \subseteq LiveStandards /\ DOMAIN attached' = some
      /\ tasks' = tasks \cup {Task(s, "queue", NoStd) : s \in new} /\ UNCHANGED <<std, versions, market, runs>>
  BY DEF SetProjectStandards, SetAttached, RunNewlyAttached
<1>2. \A s \in some : s \in Stds /\ std[s] # NoStd
  BY <1>1, LiveRow, RowFields DEF HeldInv
<1>3. ASSUME NEW u \in tasks', u \notin tasks
      PROVE  TaskIs(u)'
  <2>1. PICK s \in new : u = Task(s, "queue", NoStd)
    BY <1>1, <1>3
  <2>2. TaskIs(u)
    BY <1>2, <2>1, ToQueue
  <2> QED
    BY <1>1, <2>2 DEF TaskIs
<1>4. /\ VersionsStay /\ versions' \in [Stds -> Seq(Definitions)] /\ market' \in 1 .. Len(Offered)
      /\ (\A x \in DOMAIN attached' : x \in Stds /\ std'[x] # NoStd) /\ (\A x \in runs' : x \in runs)
      /\ std' \in [Stds -> StandardRows \cup {NoStd}] /\ \A x \in Stds : std[x] # NoStd => std'[x] # NoStd
  BY <1>1, <1>2, Unversioned DEF HeldInv, TypesInv
<1> QED
  BY <1>3, <1>4, HeldStays

LEMMA Weighing ==
  ASSUME HeldInv, \/ \E s, i : SetImportance(s, i)
                  \/ PublishOnMarketplace
                  \/ UNCHANGED standardsVars
  PROVE  HeldInv'
<1>1. UNCHANGED <<std, versions, runs, tasks>> /\ DOMAIN attached' = DOMAIN attached
  BY DEF SetImportance, PublishOnMarketplace, standardsVars
<1>2. market' \in 1 .. Len(Offered)
  BY StandardsAssumption DEF HeldInv, TypesInv, SetImportance, PublishOnMarketplace, standardsVars
<1>3. /\ VersionsStay /\ versions' \in [Stds -> Seq(Definitions)]
      /\ (\A x \in DOMAIN attached' : x \in Stds /\ std'[x] # NoStd) /\ (\A x \in runs' : x \in runs)
      /\ std' \in [Stds -> StandardRows \cup {NoStd}] /\ \A x \in Stds : std[x] # NoStd => std'[x] # NoStd
      /\ \A o \in tasks' : o \in tasks
  BY <1>1, Unversioned DEF HeldInv, TypesInv
<1> QED
  BY <1>2, <1>3, HeldStays

\* What the handlers of a standard's definition save.
LEMMA Defining ==
  ASSUME HeldInv, NEW s \in Stds, Define(s)
  PROVE  HeldInv'
<1>1. CASE InstallStandard(s)
  <2>1. PICK row : row = Row(Offered[market], TRUE, FALSE, market)
    OBVIOUS
  <2>2. row \in StandardRows
    BY <2>1, Offering DEF Row, StandardRows
  <2> QED
    BY <1>1, <2>1, <2>2, Making DEF InstallStandard
<1>2. CASE RevertStandardVersion(s)
  <2>1. PICK v \in 1 .. Latest(s) : BeginSave(s, [std[s] EXCEPT !.content = versions[s][v]], AllFields)
    BY <1>2 DEF RevertStandardVersion
  <2>2. s \in LiveStandards
    BY <2>1 DEF BeginSave
  <2>3. versions[s][v] \in Definitions
    BY <2>1 DEF HeldInv, TypesInv, Latest
  <2>4. [std[s] EXCEPT !.content = versions[s][v]] \in StandardRows
    BY <2>2, <2>3, Changed
  <2> QED
    BY <2>1, <2>4, BeginningToSave
<1>3. CASE UpdateFromMarketplace(s)
  <2>1. BeginSave(s, [std[s] EXCEPT !.content = Offered[market], !.source = market], AllFields) /\ s \in LiveStandards
    BY <1>3 DEF UpdateFromMarketplace, BeginSave
  <2>2. [std[s] EXCEPT !.content = Offered[market], !.source = market] \in StandardRows
    BY <2>1, Offering, Changed
  <2> QED
    BY <2>1, <2>2, BeginningToSave
<1>4. CASE DeleteStandard(s)
  BY <1>4, Deleting
<1>5. CASE ToggleStandard(s)
  <2>1. s \in LiveStandards /\ SetEnabled(s, ~std[s].enabled)
    BY <1>5 DEF ToggleStandard, SetEnabled
  <2>2. (~std[s].enabled) \in BOOLEAN
    OBVIOUS
  <2> QED
    BY <2>1, <2>2, SwitchingOnOff
<1>6. ASSUME NEW c \in Contents, NEW on \in BOOLEAN, NEW draft \in BOOLEAN,
             \/ CreateStandard(s, c, draft)
             \/ CreateStandardView(s, c, on, draft)
      PROVE  HeldInv'
  <2>1. c \in Definitions
    BY DEF Definitions
  <2>2. PICK e \in BOOLEAN : Create(s, Row(c, e, draft, 0))
    BY <1>6 DEF CreateStandard, CreateStandardView
  <2>3. Row(c, e, draft, 0) \in StandardRows
    BY <2>1 DEF Row, StandardRows
  <2> QED
    BY <2>2, <2>3, Making
<1>7. ASSUME NEW c \in Contents, NEW on \in BOOLEAN, NEW draft \in BOOLEAN, EditStandardView(s, c, on, draft)
      PROVE  HeldInv'
  <2>1. c \in Definitions
    BY DEF Definitions
  <2>2. BeginSave(s, Row(c, on /\ ~draft, draft, std[s].source), AllFields) /\ s \in LiveStandards
    BY <1>7 DEF EditStandardView, BeginSave
  <2>3. Row(c, on /\ ~draft, draft, std[s].source) \in StandardRows
    BY <2>1, <2>2, Changed
  <2> QED
    BY <2>2, <2>3, BeginningToSave
<1>8. ASSUME NEW c \in Contents, NEW on \in BOOLEAN, NEW draft \in BOOLEAN, NEW fields \in SUBSET {"content", "draft"},
             UpdateStandard(s, fields, c, on, draft)
      PROVE  HeldInv'
  <2>1. c \in Definitions
    BY DEF Definitions
  <2>2. PICK row : row = Sent(s, fields, c, on, draft)
    OBVIOUS
  <2>3. PICK only \in SUBSET AllFields : \E off \in BOOLEAN : BeginSave(s, [row EXCEPT !.enabled = @ /\ ~off], only)
    <3>1. PICK off \in BOOLEAN : off = (row.draft /\ row.enabled)
      OBVIOUS
    <3>2. PICK only : only = (IF off THEN fields \cup {"enabled"} ELSE fields)
      OBVIOUS
    <3>3. BeginSave(s, [row EXCEPT !.enabled = @ /\ ~off], only)
      BY <1>8, <2>2, <3>1, <3>2 DEF UpdateStandard, Sent
    <3>4. only \in SUBSET AllFields
      BY <3>2 DEF AllFields
    <3> QED
      BY <3>3, <3>4
  <2>4. PICK off \in BOOLEAN : BeginSave(s, [row EXCEPT !.enabled = @ /\ ~off], only)
    BY <2>3
  <2>5. s \in LiveStandards
    BY <2>4 DEF BeginSave
  <2>6. row \in StandardRows
    BY <2>1, <2>2, <2>5, SentRow
  <2>7. [row EXCEPT !.enabled = @ /\ ~off] \in StandardRows
    BY <2>6 DEF StandardRows
  <2> QED
    BY <2>4, <2>7, BeginningToSave
<1>9. ASSUME NEW on \in BOOLEAN, SetEnabled(s, on) PROVE HeldInv'
  BY <1>9, SwitchingOnOff
<1> QED
  BY <1>1, <1>2, <1>3, <1>4, <1>5, <1>6, <1>7, <1>8, <1>9 DEF Define

LEMMA HeldHolds == StandardsSpec => []HeldInv
<1>1. StandardsInit => HeldInv
  BY Starting
<1>2. ASSUME HeldInv, [StandardsNext]_standardsVars
      PROVE  HeldInv'
  <2>1. ASSUME NEW s \in Stds, Define(s) \/ EnqueueForEvent(s) \/ RunProjectStandards(s)
        PROVE  HeldInv'
    BY <1>2, <2>1, Defining, RunningForEvent, RunningOnRequest
  <2>2. ASSUME NEW some \in SUBSET Stds,
               SetProjectStandards(some) \/ AttachStandards(some) \/ DetachStandards(some)
        PROVE  HeldInv'
    <3>1. PICK wanted \in SUBSET Stds : SetProjectStandards(wanted)
      BY <1>2, <2>2 DEF AttachStandards, DetachStandards, HeldInv, TypesInv
    <3> QED
      BY <1>2, <3>1, Attaching
  <2>3. ASSUME NEW t \in tasks, Save(t) \/ Number(t) \/ Insert(t) \/ Queue(t) \/ Snapshot(t) \/ SnapshotFails(t)
        PROVE  HeldInv'
    <3>1. SnapshotFails(t) => tasks' \subseteq tasks /\ UNCHANGED <<std, versions, market, attached, runs>>
      BY DEF SnapshotFails, End
    <3> QED
      BY <1>2, <2>3, <3>1, Saving, Numbering, Inserting, Queueing, Snapshotting, Fewer
  <2>4. ASSUME NEW r \in runs, RunEnds(r) PROVE HeldInv'
    BY <1>2, <2>4, Ending
  <2>5. CASE \/ \E s, i : SetImportance(s, i)
             \/ PublishOnMarketplace
             \/ UNCHANGED standardsVars
    BY <1>2, <2>5, Weighing
  <2> QED
    BY <1>2, <2>1, <2>2, <2>3, <2>4, <2>5 DEF StandardsNext
<1> QED
  BY <1>1, <1>2, PTL DEF StandardsSpec

\* The version a run records is the definition it was queued with, whatever is
\* saved, numbered and run meanwhile.
THEOREM RunsRecordWhatTheyRunHolds == StandardsSpec => []RunsRecordWhatTheyRun
<1>1. HeldInv => RunsRecordWhatTheyRun
  BY DEF HeldInv, RunIs, RunsRecordWhatTheyRun
<1> QED
  BY <1>1, HeldHolds, PTL

\* What stays attached keeps its importance when what is attached changes.
THEOREM ImportancesAreKeptHolds == StandardsSpec => ImportancesAreKept
<1> DEFINE Kept ==
      DOMAIN attached' # DOMAIN attached =>
        \A s \in DOMAIN attached \intersect DOMAIN attached' : attached'[s] = attached[s]
<1>1. ASSUME [StandardsNext]_standardsVars PROVE Kept
  <2>1. ASSUME NEW s, DeleteStandard(s) PROVE Kept
    BY <2>1 DEF DeleteStandard, Archive
  <2>2. ASSUME NEW some, SetProjectStandards(some) PROVE Kept
    BY <2>2 DEF SetProjectStandards, SetAttached
  <2>3. ASSUME NEW s, NEW i, SetImportance(s, i) PROVE Kept
    BY <2>3 DEF SetImportance
  <2>4. CASE UNCHANGED attached
    BY <2>4
  <2>5. ASSUME NEW s, Define(s) PROVE DeleteStandard(s) \/ UNCHANGED attached
    <3>1. \A row : Create(s, row) => UNCHANGED attached
      BY DEF Create
    <3>2. \A row, only : BeginSave(s, row, only) => UNCHANGED attached
      BY DEF BeginSave
    <3>3. \A on : SetEnabled(s, on) => UNCHANGED attached
      BY DEF SetEnabled
    <3>4. \A c, on, draft : CreateStandard(s, c, draft) \/ CreateStandardView(s, c, on, draft) => UNCHANGED attached
      BY <3>1 DEF CreateStandard, CreateStandardView
    <3>5. \A c, on, draft, fields : EditStandardView(s, c, on, draft) \/ UpdateStandard(s, fields, c, on, draft)
                                      => UNCHANGED attached
      BY <3>2 DEF EditStandardView, UpdateStandard
    <3>6. InstallStandard(s) \/ RevertStandardVersion(s) \/ UpdateFromMarketplace(s) \/ ToggleStandard(s) => UNCHANGED attached
      BY <3>1, <3>2, <3>3 DEF InstallStandard, RevertStandardVersion, UpdateFromMarketplace, ToggleStandard
    <3> QED
      BY <2>5, <3>3, <3>4, <3>5, <3>6, Zenon DEF Define
  <2>6. ASSUME NEW s, EnqueueForEvent(s) \/ RunProjectStandards(s) PROVE UNCHANGED attached
    BY <2>6 DEF EnqueueForEvent, RunProjectStandards
  <2>7. ASSUME NEW t, Save(t) \/ Number(t) \/ Insert(t) \/ Queue(t) \/ Snapshot(t) \/ SnapshotFails(t)
        PROVE  UNCHANGED attached
    BY <2>7 DEF Save, Number, Insert, Queue, Snapshot, SnapshotFails
  <2>8. ASSUME PublishOnMarketplace \/ (\E r \in runs : RunEnds(r)) \/ UNCHANGED standardsVars PROVE UNCHANGED attached
    BY <2>8 DEF PublishOnMarketplace, RunEnds, standardsVars
  <2> QED
    BY <1>1, <2>1, <2>2, <2>3, <2>4, <2>5, <2>6, <2>7, <2>8
    DEF StandardsNext, AttachStandards, DetachStandards
<1> QED
  BY <1>1, PTL DEF StandardsSpec, ImportancesAreKept

-----------------------------------------------------------------------------
(* What is quiet is settled *)

HandlersOf(s) == {t \in tasks : t.std = s}
Ran(s) == {r.content : r \in {e \in runs : e.std = s}}

\* vs: a standard's versions; ran: what its runs ran; mine: its handlers.
Current(row, vs) == Len(vs) > 0 /\ vs[Len(vs)] = row.content
SettledIs(row, vs, at, ran) == Current(row, vs) /\ (at /\ Runnable(row) => row.content \in ran)

\* A handler has yet to save what it leaves of the row, to number what was
\* saved, or to queue the current version.
OnItsWay(t, row, vs) ==
  /\ t.stage = "save" =>
       /\ "content" \in t.only \/ row.content = t.row.content
       /\ "draft" \in t.only \/ row.draft = t.row.draft
       /\ "enabled" \in t.only \/ (row.enabled => t.row.enabled)
  /\ t.stage \in {"number", "insert"} =>
       row.content = t.row.content /\ (row.enabled /\ ~row.draft => t.row.enabled /\ ~t.row.draft)
  /\ t.stage \in {"queue", "snapshot"} => Current(row, vs)
  /\ t.stage = "snapshot" => ~t.new /\ t.row.content = row.content

QuietIs(row, vs, at, ran, mine, off) ==
  off \/ /\ \A t, o \in mine : t = o
         /\ row.is # "live" => mine = {}
         /\ row.is = "live" =>
              (\A t \in mine : OnItsWay(t, row, vs)) /\ (mine = {} => SettledIs(row, vs, at, ran))

QuietInv(s) == QuietIs(std[s], versions[s], s \in DOMAIN attached, Ran(s), HandlersOf(s), s \in disturbed)
AttachedLive == DOMAIN attached \subseteq LiveStandards
SettleInv == HeldInv /\ AttachedLive /\ \A s \in Stds : QuietInv(s)

\* What a step leaves of a standard alone.
LEMMA StandardElsewhere ==
  ASSUME SettleInv, NEW x \in Stds, std'[x] = std[x], versions'[x] = versions[x],
         x \in DOMAIN attached' => x \in DOMAIN attached,
         \A r \in runs : \E e \in runs' : e.std = r.std /\ e.content = r.content,
         \A t : t.std = x => (t \in tasks' <=> t \in tasks),
         disturbed \subseteq disturbed'
  PROVE  QuietInv(x)'
<1>1. PICK row, vs, at, ran, mine, off, at2, ran2, mine2, off2 :
        /\ row = std[x] /\ vs = versions[x] /\ at = (x \in DOMAIN attached) /\ ran = Ran(x) /\ mine = HandlersOf(x)
        /\ off = (x \in disturbed)
        /\ at2 = (x \in DOMAIN attached') /\ ran2 = Ran(x)' /\ mine2 = HandlersOf(x)' /\ off2 = (x \in disturbed')
  OBVIOUS
<1>2. mine2 = mine /\ ran \subseteq ran2 /\ (at2 => at) /\ (off => off2)
  BY <1>1 DEF HandlersOf, Ran
<1>3. QuietIs(row, vs, at, ran, mine, off)
  BY <1>1 DEF SettleInv, QuietInv
<1>4. QuietIs(row, vs, at2, ran2, mine2, off2)
  BY <1>2, <1>3 DEF QuietIs, SettledIs
<1> QED
  BY <1>1, <1>4 DEF QuietInv

\* A handler of s that begins while another is at it disturbs s.
LEMMA Began ==
  ASSUME NEW t, Begin(t)
  PROVE  /\ disturbed \subseteq disturbed' /\ \A o : o.std # t.std => (o \in tasks' <=> o \in tasks)
         /\ t.std \in disturbed' \/ (HandlersOf(t.std) = {} /\ HandlersOf(t.std)' = {t})
         /\ t.std \in disturbed => t.std \in disturbed'
<1>1. tasks' = tasks \cup {t} /\ disturbed \subseteq disturbed'
  BY DEF Begin
<1>2. CASE \E o \in tasks : o.std = t.std
  BY <1>1, <1>2 DEF Begin
<1>3. CASE ~\E o \in tasks : o.std = t.std
  BY <1>1, <1>3 DEF HandlersOf
<1> QED
  BY <1>1, <1>2, <1>3

\* The only handler of a standard goes on to u, or ends.
LEMMA Gone ==
  ASSUME SettleInv, NEW t \in tasks, NEW us, tasks' = (tasks \ {t}) \cup us, \A u \in us : u.std = t.std,
         disturbed \subseteq disturbed'
  PROVE  /\ \A o : o.std # t.std => (o \in tasks' <=> o \in tasks)
         /\ t.std \in Stds
         /\ t.std \in disturbed' \/ (HandlersOf(t.std)' = us /\ (std[t.std].is = "live" /\ OnItsWay(t, std[t.std], versions[t.std])))
<1>1. t.std \in Stds /\ QuietInv(t.std) /\ t \in HandlersOf(t.std)
  BY TaskFields DEF SettleInv, HeldInv, TaskIs, HandlersOf
<1>2. CASE t.std \in disturbed
  BY <1>1, <1>2
<1>3. CASE t.std \notin disturbed
  <2>1. /\ HandlersOf(t.std) = {t} /\ OnItsWay(t, std[t.std], versions[t.std]) /\ std[t.std].is = "live"
    <3>1. PICK row, vs, at, ran, mine, off :
            /\ row = std[t.std] /\ vs = versions[t.std] /\ at = (t.std \in DOMAIN attached) /\ ran = Ran(t.std) /\ mine = HandlersOf(t.std)
            /\ off = (t.std \in disturbed) /\ QuietIs(row, vs, at, ran, mine, off)
      BY <1>1 DEF QuietInv
    <3>2. t \in mine /\ ~off
      BY <1>1, <1>3, <3>1
    <3>3. (\A a, b \in mine : a = b) /\ row.is = "live" /\ OnItsWay(t, row, vs)
      BY <3>1, <3>2 DEF QuietIs
    <3> QED
      BY <3>1, <3>2, <3>3
  <2>2. HandlersOf(t.std)' = us
    BY <2>1 DEF HandlersOf
  <2> QED
    BY <1>1, <2>1, <2>2
<1> QED
  BY <1>1, <1>2, <1>3

LEMMA GoesOn ==
  ASSUME SettleInv, NEW t \in tasks, NEW u, tasks' = (tasks \ {t}) \cup {u}, u.std = t.std,
         disturbed \subseteq disturbed', NEW s, s = t.std, NEW row, row = std[s]
  PROVE  /\ \A o : o.std # s => (o \in tasks' <=> o \in tasks)
         /\ s \in disturbed' \/ (HandlersOf(s)' = {u} /\ (row.is = "live" /\ OnItsWay(t, row, versions[s])))
<1>1. PICK us : us = {u}
  OBVIOUS
<1>2. tasks' = (tasks \ {t}) \cup us /\ \A v \in us : v.std = t.std
  BY <1>1
<1>3. /\ \A o : o.std # t.std => (o \in tasks' <=> o \in tasks)
      /\ \/ t.std \in disturbed'
         \/ (HandlersOf(t.std)' = us /\ (std[t.std].is = "live" /\ OnItsWay(t, std[t.std], versions[t.std])))
  BY <1>2, Gone
<1> QED
  BY <1>1, <1>3

LEMMA GoesAway ==
  ASSUME SettleInv, NEW t \in tasks, tasks' = tasks \ {t},
         disturbed \subseteq disturbed', NEW s, s = t.std, NEW row, row = std[s]
  PROVE  /\ \A o : o.std # s => (o \in tasks' <=> o \in tasks)
         /\ s \in disturbed' \/ (HandlersOf(s)' = {} /\ (row.is = "live" /\ OnItsWay(t, row, versions[s])))
<1>1. PICK us : us = {}
  OBVIOUS
<1>2. tasks' = (tasks \ {t}) \cup us /\ \A v \in us : v.std = t.std
  BY <1>1
<1>3. /\ \A o : o.std # t.std => (o \in tasks' <=> o \in tasks)
      /\ \/ t.std \in disturbed'
         \/ (HandlersOf(t.std)' = us /\ (std[t.std].is = "live" /\ OnItsWay(t, std[t.std], versions[t.std])))
  BY <1>2, Gone
<1> QED
  BY <1>1, <1>3

\* When s has one handler, or none, after the step.
LEMMA OneLeft ==
  ASSUME NEW s, NEW t, HandlersOf(s)' = {t}, std'[s].is = "live", OnItsWay(t, std'[s], versions'[s])
  PROVE  QuietInv(s)'
<1>1. PICK row, vs, at, ran, off :
        row = std'[s] /\ vs = versions'[s] /\ at = (s \in DOMAIN attached') /\ ran = Ran(s)' /\ off = (s \in disturbed')
  OBVIOUS
<1>2. QuietIs(row, vs, at, ran, {t}, off)
  BY <1>1 DEF QuietIs
<1> QED
  BY <1>1, <1>2 DEF QuietInv

LEMMA NoneLeft ==
  ASSUME NEW s, HandlersOf(s)' = {}, std'[s].is = "live" => Current(std'[s], versions'[s]),
         s \in DOMAIN attached' /\ Runnable(std'[s]) => std'[s].content \in Ran(s)'
  PROVE  QuietInv(s)'
<1>1. PICK row, vs, at, ran, off :
        row = std'[s] /\ vs = versions'[s] /\ at = (s \in DOMAIN attached') /\ ran = Ran(s)' /\ off = (s \in disturbed')
  OBVIOUS
<1>2. Runnable(std'[s]) <=> Runnable(row)
  BY <1>1
<1>3. QuietIs(row, vs, at, ran, {}, off)
  BY <1>1, <1>2 DEF QuietIs, SettledIs
<1> QED
  BY <1>1, <1>3 DEF QuietInv

LEMMA Disturbed ==
  ASSUME NEW s, s \in disturbed'
  PROVE  QuietInv(s)'
  BY DEF QuietInv, QuietIs

\* What is known of a standard nobody disturbed and no handler is at.
LEMMA IdleStandard ==
  ASSUME SettleInv, NEW s \in Stds, HandlersOf(s) = {}, s \notin disturbed, std[s].is = "live"
  PROVE  Current(std[s], versions[s]) /\ (s \in DOMAIN attached /\ Runnable(std[s]) => std[s].content \in Ran(s))
<1>1. PICK row, vs, at, ran, mine, off :
        /\ row = std[s] /\ vs = versions[s] /\ at = (s \in DOMAIN attached) /\ ran = Ran(s) /\ mine = HandlersOf(s)
        /\ off = (s \in disturbed) /\ QuietIs(row, vs, at, ran, mine, off)
  BY DEF SettleInv, QuietInv
<1>2. SettledIs(row, vs, at, ran)
  BY <1>1 DEF QuietIs
<1>3. Runnable(std[s]) <=> Runnable(row)
  BY <1>1
<1> QED
  BY <1>1, <1>2, <1>3 DEF SettledIs

-----------------------------------------------------------------------------
(* Every step keeps it so *)

AllQuiet == \A x \in Stds : QuietInv(x)

LEMMA SettlingStart ==
  ASSUME StandardsInit
  PROVE  SettleInv
<1>1. HeldInv /\ tasks = {} /\ \A s \in Stds : HandlersOf(s) = {}
  BY Starting DEF StandardsInit, HandlersOf
<1>2. CASE use = "attach"
  <2>1. std = [s \in Stds |-> NoStd] /\ attached = <<>>
    BY <1>2 DEF StandardsInit
  <2>2. DOMAIN attached = {} /\ \A s \in Stds : std[s].is # "live"
    BY <2>1 DEF NoStd
  <2>3. ASSUME NEW s \in Stds PROVE QuietInv(s)
    <3>1. PICK row, vs, at, ran, off :
            row = std[s] /\ vs = versions[s] /\ at = (s \in DOMAIN attached) /\ ran = Ran(s) /\ off = (s \in disturbed)
      OBVIOUS
    <3>2. QuietIs(row, vs, at, ran, {}, off)
      BY <2>2, <3>1 DEF QuietIs
    <3> QED
      BY <1>1, <3>1, <3>2 DEF QuietInv
  <2> QED
    BY <1>1, <2>2, <2>3 DEF SettleInv, AttachedLive
<1>3. CASE use # "attach"
  <2> DEFINE first == Offered[1]
  <2>0. PICK s \in Stds :
          /\ std = [x \in Stds |-> IF x = s THEN Row(first, TRUE, FALSE, 1) ELSE NoStd]
          /\ versions = [x \in Stds |-> IF x = s THEN <<first>> ELSE <<>>]
          /\ attached = [x \in {s} |-> 1]
          /\ runs = {[std |-> s, version |-> 1, content |-> first, going |-> FALSE]}
    BY <1>3 DEF StandardsInit
  <2> HIDE DEF first
  <2>1. PICK c, row, one :
          /\ c = first /\ row = Row(c, TRUE, FALSE, 1) /\ one = <<c>>
          /\ std = [x \in Stds |-> IF x = s THEN row ELSE NoStd]
          /\ versions = [x \in Stds |-> IF x = s THEN one ELSE <<>>]
          /\ attached = [x \in {s} |-> 1]
          /\ runs = {[std |-> s, version |-> 1, content |-> c, going |-> FALSE]}
    BY <2>0
  <2>2. row.is = "live" /\ row.content = c /\ Len(one) = 1 /\ one[1] = c
    BY <2>1 DEF Row
  <2>3. Current(row, one)
    BY <2>2 DEF Current
  <2>4. c \in Ran(s)
    <3>1. PICK r : r = [std |-> s, version |-> 1, content |-> c, going |-> FALSE]
      OBVIOUS
    <3>2. r \in runs /\ r.std = s /\ r.content = c
      BY <2>1, <3>1
    <3> QED
      BY <3>2 DEF Ran
  <2>5. ASSUME NEW x \in Stds PROVE QuietInv(x)
    <3>1. PICK r, vs, at, ran, off :
            r = std[x] /\ vs = versions[x] /\ at = (x \in DOMAIN attached) /\ ran = Ran(x) /\ off = (x \in disturbed)
      OBVIOUS
    <3>2. CASE x = s
      <4>1. SettledIs(r, vs, at, ran)
        BY <2>1, <2>2, <2>3, <2>4, <3>1, <3>2 DEF SettledIs
      <4>2. QuietIs(r, vs, at, ran, {}, off)
        BY <4>1 DEF QuietIs
      <4> QED
        BY <1>1, <3>1, <4>2 DEF QuietInv
    <3>3. CASE x # s
      <4>1. r.is # "live"
        BY <2>1, <3>1, <3>3 DEF NoStd
      <4>2. QuietIs(r, vs, at, ran, {}, off)
        BY <4>1 DEF QuietIs
      <4> QED
        BY <1>1, <3>1, <4>2 DEF QuietInv
    <3> QED
      BY <3>2, <3>3
  <2>6. DOMAIN attached \subseteq LiveStandards
    BY <2>1, <2>2 DEF LiveStandards
  <2> QED
    BY <1>1, <2>5, <2>6 DEF SettleInv, AttachedLive
<1> QED
  BY <1>2, <1>3

LEMMA SettlingMade ==
  ASSUME SettleInv, NEW s \in Stds, NEW row \in StandardRows, row.is = "live", Create(s, row)
  PROVE  AllQuiet' /\ AttachedLive'
<1>1. /\ std[s] = NoStd /\ std' = [std EXCEPT ![s] = row] /\ UNCHANGED <<versions, market, attached, runs>>
      /\ Begin(Task(s, "number", row))
  BY DEF Create
<1>2. PICK t : t = Task(s, "number", row)
  OBVIOUS
<1>3. t \in Tasks /\ t.std = s /\ t.stage = "number" /\ t.row = row
  BY <1>2, MadeTask DEF Stages
<1>4. /\ disturbed \subseteq disturbed' /\ \A o : o.std # s => (o \in tasks' <=> o \in tasks)
      /\ s \in disturbed' \/ (HandlersOf(s) = {} /\ HandlersOf(s)' = {t})
  BY <1>1, <1>2, <1>3, Began
<1>5. std \in [Stds -> StandardRows \cup {NoStd}]
  BY DEF SettleInv, HeldInv, TypesInv
<1>6. std'[s] = row /\ \A x \in Stds \ {s} : std'[x] = std[x]
  BY <1>1, <1>5
<1>7. OnItsWay(t, row, versions'[s])
  BY <1>3 DEF OnItsWay
<1>8. QuietInv(s)'
  BY <1>4, <1>6, <1>7, OneLeft, Disturbed
<1>9. ASSUME NEW x \in Stds \ {s} PROVE QuietInv(x)'
  BY <1>1, <1>4, <1>6, <1>9, StandardElsewhere
<1>10. \A x \in DOMAIN attached : x \in Stds /\ std'[x].is = "live"
  BY <1>1, <1>6 DEF SettleInv, AttachedLive, LiveStandards
<1> QED
  BY <1>1, <1>8, <1>9, <1>10 DEF AllQuiet, AttachedLive, LiveStandards

\* A handler that saves only some fields leaves the others as it loaded them.
LEMMA SettlingLoaded ==
  ASSUME SettleInv, NEW s \in Stds, NEW row \in StandardRows, NEW only \in SUBSET AllFields, BeginSave(s, row, only),
         "content" \in only \/ std[s].content = row.content,
         "draft" \in only \/ std[s].draft = row.draft,
         "enabled" \in only \/ (std[s].enabled => row.enabled)
  PROVE  AllQuiet' /\ AttachedLive'
<1>1. /\ UNCHANGED <<std, versions, market, attached, runs>> /\ s \in LiveStandards
      /\ Begin([Task(s, "save", row) EXCEPT !.only = only])
  BY DEF BeginSave
<1>2. PICK u, t : u = Task(s, "save", row) /\ t = [u EXCEPT !.only = only]
  OBVIOUS
<1>3. u \in Tasks /\ u.std = s /\ u.stage = "save" /\ u.row = row
  BY <1>2, MadeTask DEF Stages
<1>4. t \in Tasks /\ t.std = s /\ t.stage = "save" /\ t.row = row /\ t.only = only
  BY <1>2, <1>3 DEF Tasks
<1>5. /\ disturbed \subseteq disturbed' /\ \A o : o.std # s => (o \in tasks' <=> o \in tasks)
      /\ s \in disturbed' \/ (HandlersOf(s) = {} /\ HandlersOf(s)' = {t})
  BY <1>1, <1>2, <1>4, Began
<1>6. PICK old : old = std[s]
  OBVIOUS
<1>7. OnItsWay(t, old, versions'[s])
  BY <1>4, <1>6 DEF OnItsWay
<1>8. QuietInv(s)'
  BY <1>1, <1>5, <1>6, <1>7, LiveRow, OneLeft, Disturbed DEF SettleInv, HeldInv
<1>9. ASSUME NEW x \in Stds \ {s} PROVE QuietInv(x)'
  BY <1>1, <1>5, <1>9, StandardElsewhere
<1> QED
  BY <1>1, <1>8, <1>9 DEF AllQuiet, AttachedLive, LiveStandards, SettleInv

LEMMA SettlingSaved ==
  ASSUME SettleInv, NEW t \in tasks, Save(t)
  PROVE  AllQuiet' /\ AttachedLive'
<1>1. /\ t.stage = "save" /\ std' = [std EXCEPT ![t.std] = Merge(@, t)]
      /\ tasks' = (tasks \ {t}) \cup {[t EXCEPT !.stage = "number", !.only = {}]}
      /\ UNCHANGED <<versions, market, attached, runs, disturbed>>
  BY DEF Save, Move
<1>2. /\ t \in Tasks /\ t.std \in Stds /\ t.row \in StandardRows /\ std[t.std] \in StandardRows
      /\ std \in [Stds -> StandardRows \cup {NoStd}]
  BY <1>1, TaskFields DEF SettleInv, HeldInv, TaskIs, TypesInv
<1>3. PICK old, new, s : s = t.std /\ old = std[t.std] /\ new = Merge(old, t)
  OBVIOUS
<1>4. /\ new \in StandardRows /\ old \in StandardRows /\ (old.is = "live" => new.is = "live")
      /\ new.content = (IF "content" \in t.only THEN t.row.content ELSE old.content)
      /\ new.draft = (IF "draft" \in t.only THEN t.row.draft ELSE old.draft)
      /\ new.enabled = (IF "enabled" \in t.only THEN t.row.enabled ELSE old.enabled)
  BY <1>2, <1>3, Merged
<1>5. PICK a, u : a = [t EXCEPT !.stage = "number"] /\ u = [a EXCEPT !.only = {}]
  OBVIOUS
<1>6. u = [t EXCEPT !.stage = "number", !.only = {}]
  BY <1>5
<1>7. a \in Tasks /\ a.std = s /\ a.stage = "number" /\ a.row = t.row
  BY <1>2, <1>3, <1>5 DEF Tasks, Stages
<1>8. u \in Tasks /\ u.std = s /\ u.stage = "number" /\ u.row = t.row
  BY <1>5, <1>7 DEF Tasks
<1>9. /\ \A o : o.std # s => (o \in tasks' <=> o \in tasks)
      /\ s \in disturbed' \/ (HandlersOf(s)' = {u} /\ (old.is = "live" /\ OnItsWay(t, old, versions[s])))
  <2>1. tasks' = (tasks \ {t}) \cup {u} /\ u.std = t.std /\ disturbed \subseteq disturbed'
    BY <1>1, <1>3, <1>6, <1>8
  <2> QED
    BY <1>3, <2>1, GoesOn
<1>10. std'[s] = new /\ \A x \in Stds \ {s} : std'[x] = std[x]
  BY <1>1, <1>2, <1>3
<1>11. OnItsWay(t, old, versions[s]) => OnItsWay(u, new, versions'[s])
  BY <1>1, <1>4, <1>8 DEF OnItsWay
<1>12. QuietInv(s)'
  BY <1>4, <1>9, <1>10, <1>11, OneLeft, Disturbed
<1>13. ASSUME NEW x \in Stds \ {s} PROVE QuietInv(x)'
  BY <1>1, <1>9, <1>10, <1>13, StandardElsewhere
<1>14. \A x \in DOMAIN attached : x \in Stds /\ std'[x].is = "live"
  BY <1>3, <1>4, <1>10 DEF SettleInv, AttachedLive, LiveStandards
<1> QED
  BY <1>1, <1>12, <1>13, <1>14 DEF AllQuiet, AttachedLive, LiveStandards

LEMMA SettlingNumbered ==
  ASSUME SettleInv, NEW t \in tasks, Number(t)
  PROVE  AllQuiet' /\ AttachedLive'
<1>1. /\ t.stage = "number" /\ UNCHANGED <<std, versions, market, attached, runs, disturbed>>
      /\ tasks' = (tasks \ {t}) \cup {[t EXCEPT !.stage = "insert", !.num = Latest(t.std) + 1]}
  BY DEF Number, Move
<1>2. /\ t \in Tasks /\ t.std \in Stds
  BY <1>1, TaskFields DEF SettleInv, HeldInv, TaskIs
<1>3. Latest(t.std) + 1 \in Nat
  BY <1>2 DEF SettleInv, HeldInv, TypesInv, Latest
<1>4. PICK n \in Nat : n = Latest(t.std) + 1
  BY <1>3
<1>5. PICK row, s, a, u : row = std[s] /\ s = t.std /\ a = [t EXCEPT !.stage = "insert"] /\ u = [a EXCEPT !.num = n]
  OBVIOUS
<1>6. u = [t EXCEPT !.stage = "insert", !.num = Latest(t.std) + 1]
  BY <1>4, <1>5
<1>7. a \in Tasks /\ a.std = s /\ a.stage = "insert" /\ a.row = t.row
  BY <1>2, <1>5 DEF Tasks, Stages
<1>8. u \in Tasks /\ u.std = s /\ u.stage = "insert" /\ u.row = t.row
  BY <1>4, <1>5, <1>7 DEF Tasks
<1>9. /\ \A o : o.std # s => (o \in tasks' <=> o \in tasks)
      /\ s \in disturbed' \/ (HandlersOf(s)' = {u} /\ (row.is = "live" /\ OnItsWay(t, row, versions[s])))
  <2>1. tasks' = (tasks \ {t}) \cup {u} /\ u.std = t.std /\ disturbed \subseteq disturbed'
    BY <1>1, <1>5, <1>6, <1>8
  <2> QED
    BY ZenonT(60), <1>5, <2>1, GoesOn
<1>10. OnItsWay(t, row, versions[s]) => OnItsWay(u, row, versions'[s])
  BY <1>1, <1>8 DEF OnItsWay
<1>11. QuietInv(s)'
  BY <1>1, <1>5, <1>9, <1>10, OneLeft, Disturbed
<1>12. ASSUME NEW x \in Stds \ {s} PROVE QuietInv(x)'
  BY <1>1, <1>9, <1>12, StandardElsewhere
<1> QED
  BY <1>1, <1>11, <1>12 DEF AllQuiet, AttachedLive, LiveStandards, SettleInv

LEMMA SettlingInserted ==
  ASSUME SettleInv, NEW t \in tasks, Insert(t)
  PROVE  AllQuiet' /\ AttachedLive'
<1>1. /\ t.stage = "insert" /\ UNCHANGED <<std, market, attached, runs>> /\ disturbed \subseteq disturbed'
  BY DEF Insert, Disturb
<1>2. /\ t \in Tasks /\ t.std \in Stds /\ t.row \in StandardRows /\ t.row.content \in Definitions
      /\ t.row.enabled \in BOOLEAN /\ t.row.draft \in BOOLEAN
  BY <1>1, TaskFields, RowFields DEF SettleInv, HeldInv, TaskIs
<1>3. PICK s, row : s = t.std /\ row = std[s]
  OBVIOUS
<1>4. CASE t.num = Latest(t.std) + 1
  <2>1. /\ versions' = [versions EXCEPT ![t.std] = Append(@, t.row.content)]
        /\ IF t.row.enabled /\ ~t.row.draft THEN Move(t, Task(t.std, "queue", NoStd)) ELSE End(t)
    BY <1>4 DEF Insert
  <2>2. /\ Latest(s)' = Latest(s) + 1 /\ Latest(s) \in Nat /\ versions'[s][Latest(s) + 1] = t.row.content
        /\ \A x \in Stds \ {s} : versions'[x] = versions[x]
    BY <1>2, <1>3, <2>1, Appended DEF SettleInv, HeldInv
  <2>3. ASSUME row.content = t.row.content PROVE Current(row, versions'[s])
    BY <2>2, <2>3 DEF Current, Latest
  <2>4. CASE t.row.enabled /\ ~t.row.draft
    <3>1. PICK u : u = Task(s, "queue", NoStd)
      OBVIOUS
    <3>2. u \in Tasks /\ u.std = s /\ u.stage = "queue"
      BY <1>2, <1>3, <3>1, MadeTask DEF Stages
    <3>3. tasks' = (tasks \ {t}) \cup {u} /\ u.std = t.std
      BY <1>3, <2>1, <2>4, <3>1, <3>2 DEF Move
    <3>4. /\ \A o : o.std # s => (o \in tasks' <=> o \in tasks)
          /\ s \in disturbed' \/ (HandlersOf(s)' = {u} /\ (row.is = "live" /\ OnItsWay(t, row, versions[s])))
      BY <1>1, <1>3, <3>3, GoesOn
    <3>5. OnItsWay(t, row, versions[s]) => OnItsWay(u, row, versions'[s])
      BY <1>1, <2>3, <3>2 DEF OnItsWay
    <3>6. QuietInv(s)'
      BY <1>1, <1>3, <3>4, <3>5, OneLeft, Disturbed
    <3>7. ASSUME NEW x \in Stds \ {s} PROVE QuietInv(x)'
      BY <1>1, <2>2, <3>4, <3>7, StandardElsewhere
    <3> QED
      BY <1>1, <3>6, <3>7 DEF AllQuiet, AttachedLive, LiveStandards, SettleInv
  <2>5. CASE ~(t.row.enabled /\ ~t.row.draft)
    <3>1. tasks' = tasks \ {t}
      BY <2>1, <2>5 DEF End
    <3>2. /\ \A o : o.std # s => (o \in tasks' <=> o \in tasks)
          /\ s \in disturbed' \/ (HandlersOf(s)' = {} /\ (row.is = "live" /\ OnItsWay(t, row, versions[s])))
      BY <1>1, <1>3, <3>1, GoesAway
    <3>3. OnItsWay(t, row, versions[s]) => Current(row, versions'[s]) /\ ~Runnable(row)
      BY <1>1, <2>3, <2>5 DEF OnItsWay, Runnable, Applies
    <3>4. QuietInv(s)'
      BY <1>1, <1>3, <3>2, <3>3, NoneLeft, Disturbed
    <3>5. ASSUME NEW x \in Stds \ {s} PROVE QuietInv(x)'
      BY <1>1, <2>2, <3>2, <3>5, StandardElsewhere
    <3> QED
      BY <1>1, <3>4, <3>5 DEF AllQuiet, AttachedLive, LiveStandards, SettleInv
  <2> QED
    BY <2>4, <2>5
<1>5. CASE t.num # Latest(t.std) + 1
  <2>1. UNCHANGED versions /\ tasks' = tasks \ {t} /\ s \in disturbed'
    BY <1>3, <1>5 DEF Insert, End, Disturb
  <2>2. \A o : o.std # s => (o \in tasks' <=> o \in tasks)
    BY <1>3, <2>1
  <2>3. ASSUME NEW x \in Stds \ {s} PROVE QuietInv(x)'
    BY <1>1, <2>1, <2>2, <2>3, StandardElsewhere
  <2> QED
    BY <1>1, <2>1, <2>3, Disturbed DEF AllQuiet, AttachedLive, LiveStandards, SettleInv
<1> QED
  BY <1>4, <1>5

\* A current version is run, not made anew.
LEMMA PickedCurrent ==
  ASSUME SettleInv, NEW t \in Tasks, NEW row, row \in StandardRows, row = std[t.std],
         Current(row, versions[t.std]), NEW u, u = ToRun(t, row)
  PROVE  u.std = t.std /\ OnItsWay(u, row, versions[t.std])
<1>1. u.std = t.std /\ u.stage = "snapshot" /\ u.row = row
  BY Picked DEF SettleInv
<1>2. PICK kept \in BOOLEAN : kept = (Latest(t.std) > 0 /\ IsDefinition(versions[t.std][Latest(t.std)], row.content))
  OBVIOUS
<1>3. kept
  BY <1>2 DEF Current, Latest, IsDefinition
<1>4. PICK n : n = (IF kept THEN Latest(t.std) ELSE Latest(t.std) + 1)
  OBVIOUS
<1>5. u = [t EXCEPT !.stage = "snapshot", !.row = row, !.new = ~kept, !.num = n]
  BY <1>2, <1>4 DEF ToRun
<1>6. ~u.new
  BY <1>3, <1>5 DEF Tasks
<1> QED
  BY <1>1, <1>6 DEF OnItsWay

LEMMA SettlingQueued ==
  ASSUME SettleInv, NEW t \in tasks, Queue(t)
  PROVE  AllQuiet' /\ AttachedLive'
<1>1. t.stage = "queue" /\ UNCHANGED <<std, versions, market, attached, runs>> /\ disturbed \subseteq disturbed'
  BY DEF Queue, Disturb
<1>2. t \in Tasks /\ t.std \in Stds /\ std[t.std] \in StandardRows
  BY <1>1, TaskFields DEF SettleInv, HeldInv, TaskIs, TypesInv
<1>3. PICK s, row : s = t.std /\ row = std[s]
  OBVIOUS
<1>4. \/ tasks' = tasks \ {t} /\ (row.is # "live" \/ s \notin DOMAIN attached \/ ~Runnable(row))
      \/ tasks' = tasks \ {t} /\ s \in disturbed'
      \/ tasks' = (tasks \ {t}) \cup {ToRun(t, row)}
  BY <1>3 DEF Queue, End, Move, Disturb
<1>5. CASE tasks' = tasks \ {t} /\ (s \in disturbed' \/ row.is # "live" \/ s \notin DOMAIN attached \/ ~Runnable(row))
  <2>1. /\ \A o : o.std # s => (o \in tasks' <=> o \in tasks)
        /\ s \in disturbed' \/ (HandlersOf(s)' = {} /\ (row.is = "live" /\ OnItsWay(t, row, versions[s])))
    BY <1>1, <1>3, <1>5, GoesAway
  <2>2. OnItsWay(t, row, versions[s]) => Current(row, versions[s])
    BY <1>1 DEF OnItsWay
  <2>3. QuietInv(s)'
    <3>1. CASE s \in disturbed'
      BY <3>1, Disturbed
    <3>2. CASE s \notin disturbed'
      <4>1. /\ HandlersOf(s)' = {} /\ Current(std'[s], versions'[s])
            /\ ~(s \in DOMAIN attached' /\ Runnable(std'[s]))
        BY <1>1, <1>3, <1>5, <2>1, <2>2, <3>2
      <4> QED
        BY <4>1, NoneLeft
    <3> QED
      BY <3>1, <3>2
  <2>4. ASSUME NEW x \in Stds \ {s} PROVE QuietInv(x)'
    BY <1>1, <2>1, <2>4, StandardElsewhere
  <2> QED
    BY <1>1, <2>3, <2>4 DEF AllQuiet, AttachedLive, LiveStandards, SettleInv
<1>6. CASE tasks' = (tasks \ {t}) \cup {ToRun(t, row)}
  <2>1. PICK u : u = ToRun(t, row)
    OBVIOUS
  <2>2. u.std = s
    BY <1>2, <1>3, <2>1, Picked DEF SettleInv
  <2>3. /\ \A o : o.std # s => (o \in tasks' <=> o \in tasks)
        /\ s \in disturbed' \/ (HandlersOf(s)' = {u} /\ (row.is = "live" /\ OnItsWay(t, row, versions[s])))
    BY <1>1, <1>3, <1>6, <2>1, <2>2, GoesOn
  <2>4. OnItsWay(t, row, versions[s]) => Current(row, versions[s])
    BY <1>1 DEF OnItsWay
  <2>5. OnItsWay(t, row, versions[s]) => OnItsWay(u, row, versions'[s])
    BY <1>1, <1>2, <1>3, <2>1, <2>4, PickedCurrent
  <2>6. QuietInv(s)'
    BY <1>1, <1>3, <2>3, <2>5, OneLeft, Disturbed
  <2>7. ASSUME NEW x \in Stds \ {s} PROVE QuietInv(x)'
    BY <1>1, <2>3, <2>7, StandardElsewhere
  <2> QED
    BY <1>1, <2>6, <2>7 DEF AllQuiet, AttachedLive, LiveStandards, SettleInv
<1> QED
  BY <1>4, <1>5, <1>6

LEMMA SettlingRun ==
  ASSUME SettleInv, NEW s \in Stds, EnqueueForEvent(s) \/ RunProjectStandards(s)
  PROVE  AllQuiet' /\ AttachedLive'
<1>1. /\ UNCHANGED <<std, versions, market, attached, runs>> /\ s \in LiveStandards
      /\ Begin(ToRun(Task(s, "snapshot", std[s]), std[s]))
  BY DEF EnqueueForEvent, RunProjectStandards, Attached, SettleInv, AttachedLive
<1>2. PICK row : row = std[s]
  OBVIOUS
<1>3. row \in StandardRows /\ row.is = "live"
  BY <1>1, <1>2, LiveRow DEF SettleInv, HeldInv
<1>4. PICK t : t = Task(s, "snapshot", row)
  OBVIOUS
<1>5. t \in Tasks /\ t.std = s
  BY <1>3, <1>4, MadeTask DEF Stages
<1>6. PICK u : u = ToRun(t, row)
  OBVIOUS
<1>7. u.std = s
  BY <1>2, <1>3, <1>5, <1>6, Picked DEF SettleInv
<1>8. Begin(u)
  BY <1>1, <1>2, <1>4, <1>6
<1>9. /\ disturbed \subseteq disturbed' /\ \A o : o.std # s => (o \in tasks' <=> o \in tasks)
      /\ s \in disturbed' \/ (HandlersOf(s) = {} /\ HandlersOf(s)' = {u})
  BY <1>7, <1>8, Began
<1>10. QuietInv(s)'
  <2>1. CASE s \in disturbed'
    BY <2>1, Disturbed
  <2>2. CASE s \notin disturbed'
    <3>1. s \notin disturbed /\ HandlersOf(s) = {} /\ HandlersOf(s)' = {u}
      BY <1>9, <2>2
    <3>2. Current(row, versions[s])
      BY <1>2, <1>3, <3>1, IdleStandard
    <3>3. OnItsWay(u, row, versions[s])
      BY <1>2, <1>3, <1>5, <1>6, <3>2, PickedCurrent
    <3> QED
      BY <1>1, <1>2, <1>3, <3>1, <3>3, OneLeft
  <2> QED
    BY <2>1, <2>2
<1>11. ASSUME NEW x \in Stds \ {s} PROVE QuietInv(x)'
  BY <1>1, <1>9, <1>11, StandardElsewhere
<1> QED
  BY <1>1, <1>10, <1>11 DEF AllQuiet, AttachedLive, LiveStandards, SettleInv

LEMMA SettlingSnapshot ==
  ASSUME SettleInv, NEW t \in tasks, Snapshot(t) \/ SnapshotFails(t)
  PROVE  AllQuiet' /\ AttachedLive'
<1>1. /\ t.stage = "snapshot" /\ UNCHANGED <<std, market, attached>> /\ tasks' = tasks \ {t}
      /\ disturbed \subseteq disturbed' /\ runs \subseteq runs'
  BY DEF Snapshot, SnapshotFails, End, Disturb
<1>2. /\ t \in Tasks /\ t.std \in Stds /\ t.row \in StandardRows /\ t.row.content \in Definitions
  BY <1>1, TaskFields, RowFields DEF SettleInv, HeldInv, TaskIs
<1>3. PICK s, row : s = t.std /\ row = std[s]
  OBVIOUS
<1>4. /\ \A o : o.std # s => (o \in tasks' <=> o \in tasks)
      /\ s \in disturbed' \/ (HandlersOf(s)' = {} /\ (row.is = "live" /\ OnItsWay(t, row, versions[s])))
  BY <1>1, <1>3, GoesAway
<1>5. OnItsWay(t, row, versions[s]) => Current(row, versions[s]) /\ ~t.new /\ t.row.content = row.content
  BY <1>1 DEF OnItsWay
<1>6. \A x \in Stds \ {s} : versions'[x] = versions[x]
  <2>1. CASE versions' = [versions EXCEPT ![t.std] = Append(@, t.row.content)]
    BY <1>2, <1>3, <2>1, Appended DEF SettleInv, HeldInv
  <2>2. CASE UNCHANGED versions
    BY <2>2
  <2> QED
    BY <2>1, <2>2 DEF Snapshot, SnapshotFails
<1>7. QuietInv(s)'
  <2>1. CASE s \in disturbed'
    BY <2>1, Disturbed
  <2>2. CASE s \notin disturbed'
    <3>1. HandlersOf(s)' = {} /\ Current(row, versions[s]) /\ ~t.new /\ t.row.content = row.content
      BY <1>4, <1>5, <2>2
    <3>2. Snapshot(t)
      BY <1>3, <2>2, <3>1 DEF SnapshotFails
    <3>3. UNCHANGED versions /\ runs' = runs \cup {Execution(t)}
      BY <3>1, <3>2 DEF Snapshot
    <3>4. PICK e : e = [std |-> t.std, version |-> t.num, content |-> t.row.content, going |-> TRUE]
      OBVIOUS
    <3>5. e \in runs' /\ e.std = s /\ e.content = row.content
      BY <1>3, <3>1, <3>3, <3>4 DEF Execution
    <3>6. row.content \in Ran(s)'
      BY <3>5 DEF Ran
    <3> QED
      BY <1>1, <1>3, <3>1, <3>3, <3>6, NoneLeft
  <2> QED
    BY <2>1, <2>2
<1>8. ASSUME NEW x \in Stds \ {s} PROVE QuietInv(x)'
  BY <1>1, <1>4, <1>6, <1>8, StandardElsewhere
<1> QED
  BY <1>1, <1>7, <1>8 DEF AllQuiet, AttachedLive, LiveStandards, SettleInv

LEMMA SettlingSwitched ==
  ASSUME SettleInv, NEW s \in Stds, NEW on \in BOOLEAN, SetEnabled(s, on)
  PROVE  AllQuiet' /\ AttachedLive'
<1>1. /\ s \in LiveStandards /\ std' = [std EXCEPT ![s].enabled = on] /\ UNCHANGED <<versions, market, attached, runs>>
      /\ IF on THEN Begin(Task(s, "queue", NoStd)) ELSE UNCHANGED <<tasks, disturbed>>
  BY DEF SetEnabled
<1>2. PICK old, row : old = std[s] /\ row = [old EXCEPT !.enabled = on]
  OBVIOUS
<1>3. old \in StandardRows /\ old.is = "live" /\ std \in [Stds -> StandardRows \cup {NoStd}]
  BY <1>1, <1>2, LiveRow DEF SettleInv, HeldInv, TypesInv
<1>4. row \in StandardRows /\ row.is = "live" /\ row.content = old.content /\ row.draft = old.draft /\ row.enabled = on
  BY <1>2, <1>3 DEF StandardRows
<1>5. std'[s] = row /\ \A x \in Stds \ {s} : std'[x] = std[x]
  BY <1>1, <1>2, <1>3
<1>6. Current(old, versions[s]) => Current(row, versions'[s])
  BY <1>1, <1>4 DEF Current
<1>7. /\ disturbed \subseteq disturbed' /\ \A o : o.std # s => (o \in tasks' <=> o \in tasks)
      /\ QuietInv(s)'
  <2>1. CASE on
    <3>1. PICK u : u = Task(s, "queue", NoStd)
      OBVIOUS
    <3>2. u.std = s /\ u.stage = "queue"
      BY <3>1, MadeTask DEF Stages
    <3>3. /\ disturbed \subseteq disturbed' /\ \A o : o.std # s => (o \in tasks' <=> o \in tasks)
          /\ s \in disturbed' \/ (HandlersOf(s) = {} /\ HandlersOf(s)' = {u})
      BY <1>1, <2>1, <3>1, <3>2, Began
    <3>4. CASE s \in disturbed'
      BY <3>3, <3>4, Disturbed
    <3>5. CASE s \notin disturbed'
      <4>1. Current(old, versions[s])
        BY <1>2, <1>3, <3>3, <3>5, IdleStandard
      <4>2. OnItsWay(u, row, versions'[s])
        BY <1>6, <3>2, <4>1 DEF OnItsWay
      <4> QED
        BY <1>4, <1>5, <3>3, <3>5, <4>2, OneLeft
    <3> QED
      BY <3>4, <3>5, <3>3
  <2>2. CASE ~on
    <3>1. UNCHANGED <<tasks, disturbed>>
      BY <1>1, <2>2
    <3>2. PICK vs, at, ran, mine, off :
            /\ vs = versions[s] /\ at = (s \in DOMAIN attached) /\ ran = Ran(s) /\ mine = HandlersOf(s) /\ off = (s \in disturbed)
            /\ QuietIs(old, vs, at, ran, mine, off)
      BY <1>2 DEF SettleInv, QuietInv
    <3>3. \A t \in mine : OnItsWay(t, old, vs) => OnItsWay(t, row, vs)
      BY <1>3, <1>4, <2>2 DEF OnItsWay, Current
    <3>4. SettledIs(old, vs, at, ran) => SettledIs(row, vs, at, ran)
      BY <1>4, <2>2 DEF SettledIs, Current, Runnable, Applies
    <3>5. QuietIs(row, vs, at, ran, mine, off)
      BY <1>3, <1>4, <3>2, <3>3, <3>4 DEF QuietIs
    <3>6. Ran(s)' = ran /\ HandlersOf(s)' = mine
      BY <1>1, <3>1, <3>2 DEF Ran, HandlersOf
    <3> QED
      BY <1>1, <1>5, <3>1, <3>2, <3>5, <3>6 DEF QuietInv
  <2> QED
    BY <2>1, <2>2
<1>8. ASSUME NEW x \in Stds \ {s} PROVE QuietInv(x)'
  BY <1>1, <1>5, <1>7, <1>8, StandardElsewhere
<1>9. \A x \in DOMAIN attached : x \in Stds /\ std'[x].is = "live"
  BY <1>4, <1>5 DEF SettleInv, AttachedLive, LiveStandards
<1> QED
  BY <1>1, <1>7, <1>8, <1>9 DEF AllQuiet, AttachedLive, LiveStandards

LEMMA SettlingDeleted ==
  ASSUME SettleInv, NEW s \in Stds, DeleteStandard(s)
  PROVE  AllQuiet' /\ AttachedLive'
<1>1. /\ s \in LiveStandards /\ std' = [std EXCEPT ![s].is = "archived"] /\ UNCHANGED <<versions, market, runs, tasks>>
      /\ attached' = [x \in DOMAIN attached \ {s} |-> attached[x]]
      /\ disturbed' = (IF \E o \in tasks : o.std = s THEN disturbed \cup {s} ELSE disturbed)
  BY DEF DeleteStandard, Archive
<1>2. PICK old, row : old = std[s] /\ row = [old EXCEPT !.is = "archived"]
  OBVIOUS
<1>3. old \in StandardRows /\ std \in [Stds -> StandardRows \cup {NoStd}]
  BY <1>1, <1>2, LiveRow DEF SettleInv, HeldInv, TypesInv
<1>4. row.is = "archived"
  BY <1>2, <1>3 DEF StandardRows
<1>5. std'[s] = row /\ \A x \in Stds \ {s} : std'[x] = std[x]
  BY <1>1, <1>2, <1>3
<1>6. QuietInv(s)'
  <2>1. CASE \E o \in tasks : o.std = s
    BY <1>1, <2>1, Disturbed
  <2>2. CASE ~\E o \in tasks : o.std = s
    <3>1. HandlersOf(s)' = {}
      BY <1>1, <2>2 DEF HandlersOf
    <3> QED
      BY <1>1, <1>4, <1>5, <3>1, NoneLeft
  <2> QED
    BY <2>1, <2>2
<1>7. ASSUME NEW x \in Stds \ {s} PROVE QuietInv(x)'
  <2>1. disturbed \subseteq disturbed' /\ (x \in DOMAIN attached' => x \in DOMAIN attached) /\ std'[x] = std[x]
    BY <1>1, <1>5
  <2> QED
    BY <1>1, <2>1, <1>7, StandardElsewhere
<1>8. \A x \in DOMAIN attached' : x \in Stds /\ std'[x].is = "live"
  BY <1>1, <1>5 DEF SettleInv, AttachedLive, LiveStandards
<1> QED
  BY <1>6, <1>7, <1>8 DEF AllQuiet, AttachedLive, LiveStandards

LEMMA SettlingAttached ==
  ASSUME SettleInv, NEW some \in SUBSET Stds, SetProjectStandards(some)
  PROVE  AllQuiet' /\ AttachedLive'
<1> DEFINE new == {s \in some \ DOMAIN attached : Runnable(std[s])}
<1>1. /\ some \subseteq LiveStandards /\ DOMAIN attached' = some
      /\ \A t \in tasks : t.std \notin some \ DOMAIN attached
      /\ tasks' = tasks \cup {Task(s, "queue", NoStd) : s \in new} /\ UNCHANGED <<std, versions, market, runs, disturbed>>
  BY DEF SetProjectStandards, SetAttached, RunNewlyAttached
<1>2. ASSUME NEW x \in Stds PROVE QuietInv(x)'
  <2>1. CASE x \in new
    <3>1. HandlersOf(x) = {} /\ x \in LiveStandards
      BY <1>1, <2>1 DEF HandlersOf
    <3>2. PICK u : u = Task(x, "queue", NoStd)
      OBVIOUS
    <3>3. u.std = x /\ u.stage = "queue"
      BY <3>2, MadeTask DEF Stages
    <3>4. \A s \in new : Task(s, "queue", NoStd).std = s
      BY DEF Task
    <3>5. HandlersOf(x)' = {u}
      BY <1>1, <2>1, <3>1, <3>2, <3>3, <3>4 DEF HandlersOf
    <3>6. CASE x \in disturbed
      BY <1>1, <3>6, Disturbed
    <3>7. CASE x \notin disturbed
      <4>1. Current(std[x], versions[x]) /\ std[x].is = "live"
        BY <3>1, <3>7, IdleStandard DEF LiveStandards
      <4>2. OnItsWay(u, std'[x], versions'[x])
        BY <1>1, <3>3, <4>1 DEF OnItsWay
      <4> QED
        BY <1>1, <3>5, <4>1, <4>2, OneLeft
    <3> QED
      BY <3>6, <3>7
  <2>2. CASE x \notin new
    <3>1. \A s \in new : Task(s, "queue", NoStd).std # x
      BY <2>2 DEF Task
    <3>2. \A t : t.std = x => (t \in tasks' <=> t \in tasks)
      BY <1>1, <3>1
    <3>3. CASE x \in DOMAIN attached' => x \in DOMAIN attached
      BY <1>1, <3>2, <3>3, StandardElsewhere
    <3>4. CASE x \in DOMAIN attached' /\ x \notin DOMAIN attached
      <4>1. ~Runnable(std[x]) /\ HandlersOf(x) = {} /\ x \in LiveStandards
        BY <1>1, <2>2, <3>4 DEF HandlersOf
      <4>2. HandlersOf(x)' = {} /\ ~Runnable(std'[x])
        BY <1>1, <3>2, <4>1 DEF HandlersOf
      <4>3. CASE x \in disturbed
        BY <1>1, <4>3, Disturbed
      <4>4. CASE x \notin disturbed
        <5>1. Current(std[x], versions[x])
          BY <4>1, <4>4, IdleStandard DEF LiveStandards
        <5>2. Current(std'[x], versions'[x])
          BY <1>1, <5>1
        <5> QED
          BY <4>2, <5>2, NoneLeft
      <4> QED
        BY <4>3, <4>4
    <3> QED
      BY <3>3, <3>4
  <2> QED
    BY <2>1, <2>2
<1> QED
  BY <1>1, <1>2 DEF AllQuiet, AttachedLive, LiveStandards

LEMMA SettlingElse ==
  ASSUME SettleInv,
         \/ \E s, i : SetImportance(s, i)
         \/ PublishOnMarketplace
         \/ \E r \in runs : RunEnds(r)
         \/ UNCHANGED standardsVars
  PROVE  AllQuiet' /\ AttachedLive'
<1>1. UNCHANGED <<std, versions, tasks, disturbed>> /\ DOMAIN attached' = DOMAIN attached
  BY DEF SetImportance, PublishOnMarketplace, standardsVars, RunEnds
<1>2. \A r \in runs : \E e \in runs' : e.std = r.std /\ e.content = r.content
  <2>1. CASE UNCHANGED runs
    BY <2>1
  <2>2. ASSUME NEW r \in runs, RunEnds(r)
        PROVE  \A a \in runs : \E e \in runs' : e.std = a.std /\ e.content = a.content
    <3>1. PICK e : e = [r EXCEPT !.going = FALSE]
      OBVIOUS
    <3>2. r \in Executions
      BY DEF SettleInv, HeldInv, RunIs
    <3>3. e.std = r.std /\ e.content = r.content
      BY <3>1, <3>2 DEF Executions
    <3>4. runs' = (runs \ {r}) \cup {e}
      BY <2>2, <3>1 DEF RunEnds
    <3> QED
      BY <3>3, <3>4
  <2>3. (\E r \in runs : RunEnds(r)) \/ UNCHANGED runs
    BY DEF SetImportance, PublishOnMarketplace, standardsVars
  <2> QED
    BY <2>1, <2>2, <2>3
<1>3. ASSUME NEW x \in Stds PROVE QuietInv(x)'
  BY <1>1, <1>2, <1>3, StandardElsewhere
<1> QED
  BY <1>1, <1>3 DEF AllQuiet, AttachedLive, LiveStandards, SettleInv

LEMMA SettlingDefined ==
  ASSUME SettleInv, NEW s \in Stds, Define(s)
  PROVE  AllQuiet' /\ AttachedLive'
<1>1. CASE InstallStandard(s)
  <2>1. PICK row : row = Row(Offered[market], TRUE, FALSE, market)
    OBVIOUS
  <2>2. row \in StandardRows /\ row.is = "live"
    BY <2>1, Offering DEF Row, StandardRows, SettleInv
  <2> QED
    BY <1>1, <2>1, <2>2, SettlingMade DEF InstallStandard
<1>2. CASE RevertStandardVersion(s)
  <2>1. PICK v \in 1 .. Latest(s) : BeginSave(s, [std[s] EXCEPT !.content = versions[s][v]], AllFields)
    BY <1>2 DEF RevertStandardVersion
  <2>2. s \in LiveStandards /\ versions[s][v] \in Definitions
    BY <2>1 DEF BeginSave, SettleInv, HeldInv, TypesInv, Latest
  <2>3. PICK row : row = [std[s] EXCEPT !.content = versions[s][v]] /\ row \in StandardRows
    BY <2>2, Changed DEF SettleInv
  <2>4. BeginSave(s, row, AllFields)
    BY <2>1, <2>3
  <2> QED
    BY <2>3, <2>4, SettlingLoaded DEF AllFields
<1>3. CASE UpdateFromMarketplace(s)
  <2>1. BeginSave(s, [std[s] EXCEPT !.content = Offered[market], !.source = market], AllFields) /\ s \in LiveStandards
    BY <1>3 DEF UpdateFromMarketplace, BeginSave
  <2>2. PICK row : row = [std[s] EXCEPT !.content = Offered[market], !.source = market] /\ row \in StandardRows
    BY <2>1, Offering, Changed DEF SettleInv
  <2>3. BeginSave(s, row, AllFields)
    BY <2>1, <2>2
  <2> QED
    BY <2>2, <2>3, SettlingLoaded DEF AllFields
<1>4. CASE DeleteStandard(s)
  BY <1>4, SettlingDeleted
<1>5. CASE ToggleStandard(s)
  <2>1. s \in LiveStandards /\ SetEnabled(s, ~std[s].enabled)
    BY <1>5 DEF ToggleStandard, SetEnabled
  <2>2. (~std[s].enabled) \in BOOLEAN
    OBVIOUS
  <2> QED
    BY <2>1, <2>2, SettlingSwitched
<1>6. ASSUME NEW c \in Contents, NEW on \in BOOLEAN, NEW draft \in BOOLEAN,
             \/ CreateStandard(s, c, draft)
             \/ CreateStandardView(s, c, on, draft)
      PROVE  AllQuiet' /\ AttachedLive'
  <2>1. c \in Definitions
    BY DEF Definitions
  <2>2. PICK e \in BOOLEAN : Create(s, Row(c, e, draft, 0))
    BY <1>6 DEF CreateStandard, CreateStandardView
  <2>3. PICK row : row = Row(c, e, draft, 0)
    OBVIOUS
  <2>4. row \in StandardRows /\ row.is = "live"
    BY <2>1, <2>3 DEF Row, StandardRows
  <2> QED
    BY <2>2, <2>3, <2>4, SettlingMade
<1>7. ASSUME NEW c \in Contents, NEW on \in BOOLEAN, NEW draft \in BOOLEAN, EditStandardView(s, c, on, draft)
      PROVE  AllQuiet' /\ AttachedLive'
  <2>1. c \in Definitions
    BY DEF Definitions
  <2>2. BeginSave(s, Row(c, on /\ ~draft, draft, std[s].source), AllFields) /\ s \in LiveStandards
    BY <1>7 DEF EditStandardView, BeginSave
  <2>3. PICK row : row = Row(c, on /\ ~draft, draft, std[s].source) /\ row \in StandardRows
    BY <2>1, <2>2, Changed DEF SettleInv
  <2>4. BeginSave(s, row, AllFields)
    BY <2>2, <2>3
  <2> QED
    BY <2>3, <2>4, SettlingLoaded DEF AllFields
<1>8. ASSUME NEW c \in Contents, NEW on \in BOOLEAN, NEW draft \in BOOLEAN, NEW fields \in SUBSET {"content", "draft"},
             UpdateStandard(s, fields, c, on, draft)
      PROVE  AllQuiet' /\ AttachedLive'
  <2>1. c \in Definitions
    BY DEF Definitions
  <2>2. PICK row, old : row = Sent(s, fields, c, on, draft) /\ old = std[s]
    OBVIOUS
  <2>3. PICK off, only : off = (row.draft /\ row.enabled) /\ only = (IF off THEN fields \cup {"enabled"} ELSE fields)
    OBVIOUS
  <2>4. PICK sent : sent = [row EXCEPT !.enabled = @ /\ ~off]
    OBVIOUS
  <2>5. BeginSave(s, sent, only)
    BY <1>8, <2>2, <2>3, <2>4 DEF UpdateStandard, Sent
  <2>6. only \in SUBSET AllFields /\ s \in LiveStandards
    BY <2>3, <2>5 DEF AllFields, BeginSave
  <2>7. row \in StandardRows
    BY <2>1, <2>2, <2>6, SentRow DEF SettleInv
  <2>8. old \in StandardRows
    BY <2>2, <2>6, LiveRow DEF SettleInv, HeldInv
  <2>9. sent \in StandardRows /\ sent.content = row.content /\ sent.draft = row.draft /\ (~off => sent.enabled = row.enabled)
    BY <2>4, <2>7 DEF StandardRows
  <2>10. /\ "content" \in fields \/ row.content = old.content
         /\ "draft" \in fields \/ row.draft = old.draft
         /\ row.enabled = old.enabled
    <3>1. "enabled" \notin fields
      OBVIOUS
    <3>2. row = [old EXCEPT !.content = IF "content" \in fields THEN c ELSE @,
                            !.draft = IF "draft" \in fields THEN draft ELSE @,
                            !.enabled = @]
      BY <2>2, <3>1 DEF Sent
    <3> QED
      BY <2>8, <3>2 DEF StandardRows
  <2>11. /\ "content" \in only \/ old.content = sent.content
         /\ "draft" \in only \/ old.draft = sent.draft
         /\ "enabled" \in only \/ (old.enabled => sent.enabled)
    BY <2>3, <2>9, <2>10
  <2> QED
    BY <2>2, <2>5, <2>6, <2>9, <2>11, SettlingLoaded
<1>9. ASSUME NEW on \in BOOLEAN, SetEnabled(s, on) PROVE AllQuiet' /\ AttachedLive'
  BY <1>9, SettlingSwitched
<1> QED
  BY <1>1, <1>2, <1>3, <1>4, <1>5, <1>6, <1>7, <1>8, <1>9 DEF Define

\* When a standard's handlers are through, and none overlapped or failed, its
\* current version is its definition, and that has been run if it is attached
\* and runnable.
THEOREM QuietStandardsAreSettledHolds == StandardsSpec => []QuietStandardsAreSettled
<1>1. StandardsInit => SettleInv
  BY SettlingStart
<1>2. ASSUME SettleInv, [StandardsNext]_standardsVars
      PROVE  AllQuiet' /\ AttachedLive'
  <2>1. ASSUME NEW s \in Stds, Define(s) \/ EnqueueForEvent(s) \/ RunProjectStandards(s)
        PROVE  AllQuiet' /\ AttachedLive'
    BY <1>2, <2>1, SettlingDefined, SettlingRun
  <2>2. ASSUME NEW some \in SUBSET Stds,
               SetProjectStandards(some) \/ AttachStandards(some) \/ DetachStandards(some)
        PROVE  AllQuiet' /\ AttachedLive'
    <3>1. PICK wanted \in SUBSET Stds : SetProjectStandards(wanted)
      BY <1>2, <2>2 DEF AttachStandards, DetachStandards, SettleInv, HeldInv, TypesInv
    <3> QED
      BY <1>2, <3>1, SettlingAttached
  <2>3. ASSUME NEW t \in tasks, Save(t) \/ Number(t) \/ Insert(t) \/ Queue(t) \/ Snapshot(t) \/ SnapshotFails(t)
        PROVE  AllQuiet' /\ AttachedLive'
    BY <1>2, <2>3, SettlingSaved, SettlingNumbered, SettlingInserted, SettlingQueued, SettlingSnapshot
  <2>4. CASE \/ \E s, i : SetImportance(s, i)
             \/ PublishOnMarketplace
             \/ \E r \in runs : RunEnds(r)
             \/ UNCHANGED standardsVars
    BY <1>2, <2>4, SettlingElse
  <2> QED
    BY <1>2, <2>1, <2>2, <2>3, <2>4 DEF StandardsNext
<1>3. HeldInv' /\ AllQuiet' /\ AttachedLive' => SettleInv'
  BY DEF SettleInv, AllQuiet
<1>4. ASSUME SettleInv PROVE QuietStandardsAreSettled
  <2>1. ASSUME NEW s \in LiveStandards, s \notin disturbed, \A t \in tasks : t.std # s
        PROVE  /\ Latest(s) > 0 /\ versions[s][Latest(s)] = std[s].content
               /\ s \in DOMAIN attached /\ Runnable(std[s]) =>
                    \E r \in runs : r.std = s /\ r.content = std[s].content
    <3>1. s \in Stds /\ std[s].is = "live" /\ HandlersOf(s) = {}
      BY <2>1 DEF LiveStandards, HandlersOf
    <3>2. Current(std[s], versions[s]) /\ (s \in DOMAIN attached /\ Runnable(std[s]) => std[s].content \in Ran(s))
      BY <1>4, <2>1, <3>1, IdleStandard
    <3> QED
      BY <3>2 DEF Current, Latest, Ran
  <2> QED
    BY <2>1 DEF QuietStandardsAreSettled
<1> QED
  BY <1>1, <1>2, <1>3, <1>4, HeldHolds, PTL DEF StandardsSpec
===============================================================================
