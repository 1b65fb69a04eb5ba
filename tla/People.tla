------------------------------- MODULE People -------------------------------
(***************************************************************************)
(* How people get into a deployment and its workspace, and out again:      *)
(* first-run setup and gated sign-up (application/access.py), invitations  *)
(* (application/invitations.py), membership_service, superuser_service,    *)
(* workspace_service, and the Django admin behind the guards of            *)
(* app/signals.py.  The rules themselves are WorkspaceRoles.               *)
(*                                                                         *)
(* A person is their address; one workspace at a time exists.  What a      *)
(* service does under the workspace's row lock is one step.  A handler     *)
(* that acts on a row it loaded without a lock is two: a member of tasks,  *)
(* then the write.                                                         *)
(***************************************************************************)
EXTENDS WorkspaceRoles

CONSTANTS Users, NoOne,
          RolesGiven,    \* the roles invitations and reviews give
          MaxInvites,    \* invitations ever issued
          MaxTasks,      \* handlers under way between their read and their write
          Deployments    \* settings.SIGNUP_MODE, and what is used there

ASSUME PeopleAssumption ==
  /\ NoOne \notin Users
  /\ Deployments \subseteq [signup : {"open", "approval", "onboarding"},
                             invitations : BOOLEAN, backOffice : BOOLEAN]
  /\ RolesGiven \subseteq Roles
  /\ MaxInvites \in Nat /\ MaxTasks \in Nat

VARIABLES deployment,  \* the settings, which never change
          account,   \* per person: "none", "inactive" or "active"
          supers,    \* accounts with is_superuser
          request,   \* AccessRequest of a person: status, email confirmed, form in
          told,      \* whether superusers were emailed about it
          live, seat,  \* the workspace, and the role of each person in it
          invites,   \* its invitations
          tasks,     \* handlers between their read and their write
          first,     \* who completed first-run setup
          crossed    \* what an admin's write changed on the word of an outdated guard

vars == <<deployment, account, supers, request, told, live, seat, invites, tasks, first, crossed>>

gated == deployment.signup # "open"
Active(u) == account[u] = "active"
ActiveSupers == {u \in supers : Active(u)}
NoRequest == [status |-> "none", confirmed |-> FALSE, submitted |-> FALSE]
NoInvite == [status |-> "none", to |-> NoOne, role |-> "member", open |-> FALSE,
             acceptedBy |-> NoOne]
Pending(i) == invites[i].status = "pending"

\* is_ready_for_review, and telling the superusers of a request that is.
Ready(r) == /\ r.status = "pending" /\ r.confirmed
            /\ r.submitted \/ deployment.signup # "onboarding"
\* Mutant of TellIfReady: it waits for the form on every deployment.
TellOnceSubmitted(u, r) ==
  told' = [told EXCEPT ![u] = @ \/ (Ready(r) /\ r.submitted)]

TellIfReady(u, r) ==
  told' = [told EXCEPT ![u] = @ \/ Ready(r)]

-----------------------------------------------------------------------------
(* Accounts *)

Init ==
  /\ deployment \in Deployments
  /\ account = [u \in Users |-> "none"]
  /\ supers = {}
  /\ request = [u \in Users |-> NoRequest]
  /\ told = [u \in Users |-> FALSE]
  /\ live = FALSE
  /\ seat = [u \in Users |-> NoRole]
  /\ invites = [i \in 1..MaxInvites |-> NoInvite]
  /\ tasks = {}
  /\ first = NoOne
  /\ crossed = {}

\* first_run_setup and create_first_admin: on a deployment with no users,
\* asked again under an advisory lock.
SetupRequired == \A u \in Users : account[u] = "none"
CreateFirstAdmin(u) ==
  /\ SetupRequired
  /\ account' = [account EXCEPT ![u] = "active"]
  /\ supers' = {u}
  /\ first' = u
  /\ UNCHANGED <<request, told, live, seat, invites, tasks, crossed>>
FirstRunSetup(u) == SetupRequired /\ CreateFirstAdmin(u)

\* Mutant of SignUpStatus: the gate is left open.
ActiveAtOnce == "active"

SignUpStatus == IF gated THEN "inactive" ELSE "active"

OpenAccessRequest(u, confirmed) ==
  LET r == [status |-> "pending", confirmed |-> confirmed, submitted |-> FALSE]
  IN /\ request' = [request EXCEPT ![u] = r]
     /\ TellIfReady(u, r)
Register(u, confirmed) ==
  /\ account' = [account EXCEPT ![u] = SignUpStatus]
  /\ IF gated THEN OpenAccessRequest(u, confirmed) ELSE UNCHANGED <<request, told>>
  /\ UNCHANGED <<supers, live, seat, invites, tasks, first, crossed>>

\* An unknown email on the sign-in page, and a provider's sign-up, whose
\* address the provider vouches for.
PasswordSignUp(u) == first # NoOne /\ account[u] = "none" /\ Register(u, FALSE)
ProviderSignUp(u) == first # NoOne /\ account[u] = "none" /\ Register(u, TRUE)

\* grant and revoke, under the lock on the superusers' rows.
GrantSuperuser(a, u) ==
  /\ Active(u) /\ MayGrantSuperuser(ActiveSupers, a, u) /\ u \notin supers
  /\ supers' = supers \union {u}
  /\ UNCHANGED <<account, request, told, live, seat, invites, tasks, first, crossed>>
RevokeSuperuser(a, u) ==
  /\ MayRevokeSuperuser(ActiveSupers, a, u)
  /\ supers' = supers \ {u}
  /\ UNCHANGED <<account, request, told, live, seat, invites, tasks, first, crossed>>

-----------------------------------------------------------------------------
(* The workspace *)

\* invite's renewal holds the workspace's lock between its read and its save.
Unlocked == \A t \in tasks : t.kind # "renew"

Settle == UNCHANGED <<account, supers, request, told, tasks, first, crossed>>

CreateWorkspace(u) ==
  /\ ~live
  /\ live' = TRUE
  /\ seat' = Found(Users, u)
  /\ UNCHANGED invites /\ Settle

\* CreateTenantView: a superuser names an active owner.
CreateTenant(a, u) == Active(a) /\ a \in supers /\ Active(u) /\ CreateWorkspace(u)

DeleteWorkspace ==
  /\ live /\ Unlocked
  /\ live' = FALSE
  /\ seat' = [u \in Users |-> NoRole]
  /\ invites' = [i \in 1..MaxInvites |->
                   IF invites[i].status = "none" THEN NoInvite ELSE [NoInvite EXCEPT !.status = "gone"]]
  /\ tasks' = {t \in tasks : t.kind \notin {"close", "renew", "removeSeat", "demote"}}
  /\ UNCHANGED <<account, supers, request, told, first, crossed>>

DeleteWorkspaceView(a) == Active(a) /\ ManagesOwners(seat, supers, a) /\ DeleteWorkspace

ChangeRole(a, u, r) ==
  /\ live /\ Unlocked
  /\ MayChangeRole(seat, supers, a, u, r)
  /\ seat' = [seat EXCEPT ![u] = r]
  /\ UNCHANGED <<live, invites>> /\ Settle

ChangeMemberRole(a, u, r) == Active(a) /\ ChangeRole(a, u, r)

RemoveMember(a, u) ==
  /\ live /\ Unlocked
  /\ MayRemove(seat, supers, a, u)
  /\ seat' = [seat EXCEPT ![u] = NoRole]
  /\ UNCHANGED <<live, invites>> /\ Settle

RemoveSomeone(a, u) == Active(a) /\ u # a /\ RemoveMember(a, u)
LeaveWorkspace(u) == Active(u) /\ RemoveMember(u, u)

\* What the member list and the superuser list offer a: roles to give,
\* members to remove, superusers to unmake.
MembersContext(a) ==
  [choices |-> [u \in Members(seat) |-> AssignableTo(seat, supers, a, u)],
   removable |-> {u \in Members(seat) \ {a} : MayRemove(seat, supers, a, u)},
   canLeave |-> seat[a] # NoRole /\ ~IsLastOwner(seat, a)]
SuperusersContext(a) == {u \in ActiveSupers : MayRevokeSuperuser(ActiveSupers, a, u)}

-----------------------------------------------------------------------------
(* Invitations *)

MayInvite(a, u, r) == deployment.invitations /\ live /\ Unlocked /\ Active(a) /\ MayAdd(seat, supers, a, u, r)
PendingTo(u) == {i \in DOMAIN invites : Pending(i) /\ invites[i].to = u}

\* A first invitation of that address.
InviteNew(a, u, r) ==
  /\ MayInvite(a, u, r) /\ PendingTo(u) = {}
  /\ \E i \in DOMAIN invites :
       /\ invites[i].status = "none" /\ \A j \in 1..(i - 1) : invites[j].status # "none"
       /\ invites' = [invites EXCEPT ![i] =
            [status |-> "pending", to |-> u, role |-> r, open |-> TRUE, acceptedBy |-> NoOne]]
  /\ UNCHANGED <<live, seat>> /\ Settle

Expire(i) ==
  /\ Pending(i) /\ invites[i].open
  /\ invites' = [invites EXCEPT ![i].open = FALSE]
  /\ UNCHANGED <<live, seat>> /\ Settle

\* Handlers under way at once work on one row (a bound on the instances).
SameRow(s, t) == \/ {"inv"} \subseteq DOMAIN s \cap DOMAIN t
                 \/ {"user"} \subseteq DOMAIN s \cap DOMAIN t /\ s.user = t.user
Begin(t) ==
  /\ Cardinality(tasks) < MaxTasks /\ t \notin tasks
  /\ \A s \in tasks : SameRow(s, t)
  /\ tasks' = tasks \union {t}
  /\ UNCHANGED <<account, supers, request, told, live, seat, invites, first, crossed>>

\* invite, of an address whose invitation is still pending, and resend: the
\* row that was found is saved whole, with what it held when it was read.
BeginRenew(a, u, r) ==
  /\ MayInvite(a, u, r)
  /\ \E i \in PendingTo(u) : Begin([kind |-> "renew", inv |-> i, role |-> r])
Renew(t) ==
  /\ invites' = [invites EXCEPT ![t.inv].status = "pending", ![t.inv].role = t.role,
                                ![t.inv].open = TRUE]
  /\ tasks' = tasks \ {t}
  /\ UNCHANGED <<account, supers, request, told, live, seat, first, crossed>>

\* revoke by who could have sent it, decline by whom it is for: the status
\* checked is the loaded row's, and the save takes no lock.
BeginClose(a, i) ==
  /\ live /\ Active(a) /\ Pending(i)
  /\ \/ /\ invites[i].role \in AssignableRoles(seat, supers, a)
        /\ Begin([kind |-> "close", inv |-> i, as |-> "revoked"])
     \/ /\ invites[i].to = a /\ invites[i].open
        /\ Begin([kind |-> "close", inv |-> i, as |-> "declined"])
Close(t) ==
  /\ invites' = [invites EXCEPT ![t.inv].status = t.as]
  /\ tasks' = tasks \ {t}
  /\ UNCHANGED <<account, supers, request, told, live, seat, first, crossed>>

\* Mutant of OpenFor: the row is not read again under the lock.
EverOpenFor(i, u) == invites[i].to = u /\ invites[i].status # "gone" /\ seat[u] = NoRole

OpenFor(i, u) ==
  /\ Pending(i) /\ invites[i].open
  /\ invites[i].to = u
  /\ MayAdmit(seat, u)

\* _let_in, of someone inactive: a pending request is approved with it.
LetIn(u) ==
  /\ account' = [account EXCEPT ![u] = "active"]
  /\ request' = IF account[u] = "inactive" /\ request[u].status = "pending"
                THEN [request EXCEPT ![u].status = "approved", ![u].confirmed = TRUE]
                ELSE request

Accept(i, u) ==
  /\ live /\ Unlocked /\ OpenFor(i, u)
  /\ seat' = [seat EXCEPT ![u] = invites[i].role]
  /\ invites' = [invites EXCEPT ![i].status = "accepted", ![i].acceptedBy = u]
  /\ LetIn(u)
  /\ UNCHANGED <<supers, told, live, tasks, first, crossed>>

\* By someone signed in, someone waiting for approval who signs in with the
\* link in their session, and someone new.
AcceptInvitation(i, u) == Active(u) /\ Accept(i, u)
RespondUserInactive(i, u) == account[u] = "inactive" /\ Accept(i, u)
SignUpAndAccept(i, u) == account[u] = "none" /\ Accept(i, u)

-----------------------------------------------------------------------------
(* Access requests *)

\* The person confirms their address and fills the form in; each handler
\* checks the request it loaded.
BeginConfirm(u) ==
  /\ request[u].status = "pending" /\ ~request[u].confirmed
  /\ Begin([kind |-> "confirm", user |-> u, read |-> request[u]])
Confirm(t) ==
  /\ request' = [request EXCEPT ![t.user].confirmed = TRUE]
  /\ TellIfReady(t.user, [t.read EXCEPT !.confirmed = TRUE])
  /\ tasks' = tasks \ {t}
  /\ UNCHANGED <<account, supers, live, seat, invites, first, crossed>>

NeedsForm(r) == /\ r.status = "pending" /\ r.confirmed /\ ~r.submitted
                /\ deployment.signup = "onboarding"
BeginSubmit(u) ==
  /\ NeedsForm(request[u])
  /\ Begin([kind |-> "submit", user |-> u, read |-> request[u]])
Submit(t) ==
  /\ request' = [request EXCEPT ![t.user].submitted = TRUE]
  /\ TellIfReady(t.user, [t.read EXCEPT !.submitted = TRUE])
  /\ tasks' = tasks \ {t}
  /\ UNCHANGED <<account, supers, live, seat, invites, first, crossed>>

\* review_access_request, by a superuser, of a request loaded pending.
BeginReview(a, u, r) ==
  /\ Active(a) /\ a \in supers
  /\ request[u].status = "pending" /\ request[u].confirmed
  /\ \/ Begin([kind |-> "approve", user |-> u, role |-> r])
     \/ r = "member" /\ Begin([kind |-> "reject", user |-> u])

MayAddAsSuperuser(u, r) == MayAdd(seat, Users, u, u, r)

\* The workspace half of approving: an existing one, or a new one to own.
Seated(t) ==
  \/ /\ live /\ Unlocked
     /\ MayAddAsSuperuser(t.user, t.role)
     /\ seat' = [seat EXCEPT ![t.user] = t.role]
     /\ UNCHANGED live
  \/ /\ ~live /\ t.role = "owner"
     /\ live' = TRUE
     /\ seat' = Found(Users, t.user)
Approve(t) ==
  /\ account' = [account EXCEPT ![t.user] = "active"]
  /\ request' = [request EXCEPT ![t.user].status = "approved"]
  /\ Seated(t)
  /\ tasks' = tasks \ {t}
  /\ UNCHANGED <<supers, told, invites, first, crossed>>

Rejected(u) == account' = [account EXCEPT ![u] = "inactive"]
Reject(t) ==
  /\ t.user \in ActiveSupers => SuperuserCanGo(ActiveSupers, t.user)
  /\ Rejected(t.user)
  /\ request' = [request EXCEPT ![t.user].status = "rejected"]
  /\ tasks' = tasks \ {t}
  /\ UNCHANGED <<supers, told, live, seat, invites, first, crossed>>

\* An approval whose role the roster refuses, or a rejection of the last
\* superuser: rolled back.
Refused(t) ==
  /\ \/ /\ t.kind = "approve" /\ Unlocked
        /\ IF live THEN ~MayAddAsSuperuser(t.user, t.role) ELSE t.role # "owner"
     \/ t.kind = "reject" /\ t.user \in ActiveSupers /\ ~SuperuserCanGo(ActiveSupers, t.user)
  /\ tasks' = tasks \ {t}
  /\ UNCHANGED <<account, supers, request, told, live, seat, invites, first, crossed>>

-----------------------------------------------------------------------------
(* The Django admin: the guards of app/signals.py, then the write *)

GuardOwner(u) == seat[u] = "owner" => SeatCanGo(seat, u)
GuardSuperuser(u) == u \in ActiveSupers => SuperuserCanGo(ActiveSupers, u)

Deed(kind, u) == [kind |-> kind, user |-> u, owners |-> Owners(seat), supers |-> ActiveSupers]
BeginBackOffice(u) ==
  /\ deployment.backOffice /\ account[u] # "none"
  /\ \/ GuardOwner(u) /\ GuardSuperuser(u) /\ Begin(Deed("deleteAccount", u))
     \/ Active(u) /\ GuardSuperuser(u) /\ Begin(Deed("deactivate", u))
     \/ u \in ActiveSupers /\ GuardSuperuser(u) /\ Begin(Deed("untickSuperuser", u))
     \/ seat[u] # NoRole /\ GuardOwner(u) /\ Begin(Deed("removeSeat", u))
     \/ seat[u] = "owner" /\ GuardOwner(u) /\ Begin(Deed("demote", u))

\* What the guard looked at and is no longer so.
Crossing(t) ==
  (IF t.owners = Owners(seat) THEN {} ELSE {"owners"})
  \union (IF t.supers = ActiveSupers THEN {} ELSE {"superusers"})

Concerns(t, u) == "user" \in DOMAIN t /\ t.user = u

\* The account and what hangs on it are gone; a save of a row that went with
\* it fails.
DeleteAccount(t) ==
  LET u == t.user
  IN /\ account' = [account EXCEPT ![u] = "none"]
     /\ supers' = supers \ {u}
     /\ request' = [request EXCEPT ![u] = NoRequest]
     /\ told' = [told EXCEPT ![u] = FALSE]
     /\ seat' = [seat EXCEPT ![u] = NoRole]
     /\ invites' = [i \in DOMAIN invites |->
                      [invites[i] EXCEPT !.acceptedBy = IF @ = u THEN NoOne ELSE @]]
     /\ tasks' = {s \in tasks : ~Concerns(s, u)}
     /\ first' = IF first = u THEN "deleted" ELSE first
     /\ UNCHANGED live

OnlyAccounts == UNCHANGED <<supers, seat>>
BackOfficeWrite(t) ==
  /\ crossed' = crossed \union Crossing(t)
  /\ \/ t.kind = "deleteAccount" /\ DeleteAccount(t)
     \/ /\ t.kind # "deleteAccount"
        /\ tasks' = tasks \ {t}
        /\ account' = IF t.kind = "deactivate" THEN [account EXCEPT ![t.user] = "inactive"]
                      ELSE account
        /\ supers' = IF t.kind = "untickSuperuser" THEN supers \ {t.user} ELSE supers
        /\ seat' = CASE t.kind = "removeSeat" -> [seat EXCEPT ![t.user] = NoRole]
                     [] t.kind = "demote" /\ seat[t.user] # NoRole ->
                          [seat EXCEPT ![t.user] = "member"]
                     [] OTHER -> seat
        /\ UNCHANGED <<request, told, live, invites, first>>

-----------------------------------------------------------------------------
Finish(t) ==
  \/ t.kind = "renew" /\ Renew(t)
  \/ t.kind = "close" /\ Close(t)
  \/ t.kind = "confirm" /\ Confirm(t)
  \/ t.kind = "submit" /\ Submit(t)
  \/ t.kind = "approve" /\ Approve(t)
  \/ t.kind = "reject" /\ Reject(t)
  \/ Refused(t)
  \/ /\ t.kind \in {"deleteAccount", "deactivate", "untickSuperuser", "removeSeat", "demote"}
     /\ BackOfficeWrite(t)

\* Behaviours are followed up to the first crossing.
Next == crossed = {} /\ UNCHANGED deployment /\
  (\/ \E u \in Users :
       \/ FirstRunSetup(u) \/ PasswordSignUp(u) \/ ProviderSignUp(u)
       \/ BeginConfirm(u) \/ BeginSubmit(u)
       \/ DeleteWorkspaceView(u) \/ LeaveWorkspace(u)
       \/ BeginBackOffice(u)
       \/ \E i \in 1..MaxInvites :
            \/ AcceptInvitation(i, u) \/ RespondUserInactive(i, u) \/ SignUpAndAccept(i, u)
            \/ BeginClose(u, i)
       \/ \E a \in Users :
            \/ GrantSuperuser(a, u) \/ RevokeSuperuser(a, u)
            \/ CreateTenant(a, u) \/ RemoveSomeone(a, u)
            \/ \E r \in Roles : ChangeMemberRole(a, u, r)
            \/ \E r \in RolesGiven :
                 InviteNew(a, u, r) \/ BeginRenew(a, u, r) \/ BeginReview(a, u, r)
  \/ \E i \in 1..MaxInvites : Expire(i)
  \/ \E t \in tasks : Finish(t))

Spec == Init /\ [][Next]_vars

-----------------------------------------------------------------------------
(* Properties *)

\* Somebody is in charge, through every mix of role changes, departures,
\* approvals and admin writes: a workspace has an owner (workspace_roles), and a
\* deployment that was set up an active superuser (superusers), unless an
\* admin's write went by a guard's answer that no longer held.
SomebodyIsInCharge ==
  /\ live /\ "owners" \notin crossed => Owners(seat) # {}
  /\ first # NoOne /\ "superusers" \notin crossed => ActiveSupers # {}

\* On a gated deployment an account is active only because it did first-run
\* setup, its request was approved, or it took an invitation made out to it
\* (AccessRequest: every way in refuses the others), however reviews,
\* invitations and deactivations cross.
EveryAccountIsVouchedFor ==
  gated => \A u \in Users : Active(u) =>
             \/ u = first \/ request[u].status = "approved"
             \/ \E i \in DOMAIN invites : invites[i].acceptedBy = u
             \/ \E i \in DOMAIN invites : invites[i].status = "gone"

\* Nobody gets a seat in a standing workspace unasked: an approval was under
\* way for them, or an open invitation made out to them is spent in that step,
\* and a spent one never opens again, whatever revocations and renewals are
\* under way on the row as they loaded it.
SeatsAreGivenOnce ==
  [][/\ \A u \in Users : live /\ seat[u] = NoRole /\ seat'[u] # NoRole =>
          \/ \E t \in tasks \ tasks' : t.kind = "approve" /\ t.user = u
          \/ \E i \in 1..MaxInvites :
               /\ invites[i].to = u /\ Pending(i) /\ invites[i].open
               /\ invites'[i].status = "accepted"
     /\ \A i \in 1..MaxInvites :
          invites[i].acceptedBy # NoOne => invites'[i].status # "pending"]_vars

\* A request that is ready has been put to the superusers, whichever of the
\* steps that complete it came last.
ReadyRequestsAreTold == \A u \in Users : Ready(request[u]) => told[u]

\* The pages offer nothing the services would refuse: a role, a removal, a
\* departure or a revocation a page offers is one its service accepts.
OfferedIsAllowed ==
  \A a \in Users : Active(a) =>
    LET page == MembersContext(a)
    IN /\ \A u \in DOMAIN page.choices : \A r \in page.choices[u] \ {seat[u]} :
            MayChangeRole(seat, supers, a, u, r)
       /\ \A u \in page.removable : MayRemove(seat, supers, a, u)
       /\ page.canLeave => MayRemove(seat, supers, a, a)
       /\ \A u \in SuperusersContext(a) : SuperuserCanGo(ActiveSupers, u)
=============================================================================
