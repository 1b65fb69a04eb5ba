---------------------------- MODULE PeopleProofs ----------------------------
(***************************************************************************)
(* Proofs about People, for any number of people, invitations and handlers *)
(* under way: somebody stays in charge of the workspace and of the         *)
(* deployment, and the pages offer only what the services accept.          *)
(***************************************************************************)
EXTENDS People, TLAPS

Statuses == {"none", "inactive", "active"}
IsSeating(s) == s = [u \in Users |-> s[u]]

\* What the guards saw when an admin's write, or a review, began: an owner
\* among others, a superuser among others.
OwnerGuarded(t) == t.user \in t.owners => t.owners # {t.user}
SuperuserGuarded(t) == t.user \in t.supers => t.supers # {t.user}
TaskOK(t) ==
  /\ t.kind \in {"approve", "reject", "deleteAccount", "deactivate", "untickSuperuser", "removeSeat", "demote"}
       => t.user \in Users
  /\ t.kind \in {"deleteAccount", "removeSeat", "demote"} => OwnerGuarded(t)
  /\ t.kind \in {"deleteAccount", "deactivate", "untickSuperuser"} => SuperuserGuarded(t)

ChargeInv ==
  /\ IsSeating(seat) /\ account \in [Users -> Statuses] /\ supers \subseteq Users
  /\ \A t \in tasks : TaskOK(t)
  /\ SomebodyIsInCharge

-----------------------------------------------------------------------------
\* One of several may go.
LEMMA OwnerLeaves ==
  ASSUME IsSeating(seat), NEW u \in Users, NEW r, Owners(seat) # {},
         u \in Owners(seat) => Owners(seat) # {u}
  PROVE  IsSeating([seat EXCEPT ![u] = r]) /\ Owners([seat EXCEPT ![u] = r]) # {}
<1>1. PICK v : v \in Owners(seat) /\ v # u
  OBVIOUS
<1>2. v \in Users /\ seat[v] = "owner"
  BY <1>1 DEF Owners, IsSeating
<1>3. IsSeating([seat EXCEPT ![u] = r]) /\ [seat EXCEPT ![u] = r][v] = "owner"
  BY <1>1, <1>2 DEF IsSeating
<1> QED
  BY <1>2, <1>3 DEF Owners, IsSeating

LEMMA NewcomerSits ==
  ASSUME IsSeating(seat), NEW u \in Users, NEW r, seat[u] # "owner"
  PROVE  IsSeating([seat EXCEPT ![u] = r]) /\ (Owners(seat) # {} => Owners([seat EXCEPT ![u] = r]) # {})
  BY DEF Owners, IsSeating

LEMMA SuperuserLeaves ==
  ASSUME NEW u, ActiveSupers # {}, u \in ActiveSupers => ActiveSupers # {u},
         ActiveSupers \ {u} \subseteq ActiveSupers'
  PROVE  ActiveSupers' # {}
  OBVIOUS

LEMMA Beginning == ASSUME ChargeInv, NEW t, TaskOK(t), Begin(t), UNCHANGED deployment PROVE ChargeInv'
  BY DEF ChargeInv, Begin, SomebodyIsInCharge, ActiveSupers, Active

LEMMA Founding == ASSUME NEW u \in Users PROVE IsSeating(Found(Users, u)) /\ Owners(Found(Users, u)) = {u}
  BY DEF Found, IsSeating, Owners, Roles, NoRole

-----------------------------------------------------------------------------
\* Invariant after a step that leaves seats, or accounts, in order.
SeatsInOrder == IsSeating(seat') /\ (live' /\ "owners" \notin crossed' => Owners(seat') # {})
SupersInOrder ==
  /\ account' \in [Users -> Statuses] /\ supers' \subseteq Users
  /\ first' # NoOne /\ "superusers" \notin crossed' => ActiveSupers' # {}
SeatsSame == UNCHANGED <<seat, live, crossed>>
\* Nobody stops being an active superuser.
SupersGrow ==
  /\ account' \in [Users -> Statuses] /\ supers' \subseteq Users
  /\ ActiveSupers \subseteq ActiveSupers' /\ first' = first /\ crossed' = crossed

LEMMA InOrder ==
  ASSUME ChargeInv, SeatsSame \/ SeatsInOrder, SupersGrow \/ SupersInOrder, tasks' \subseteq tasks
  PROVE  ChargeInv'
  BY DEF ChargeInv, SomebodyIsInCharge, SeatsSame, SeatsInOrder, SupersGrow, SupersInOrder

LEMMA SupersSame == ChargeInv /\ UNCHANGED <<account, supers, first, crossed>> => SupersGrow
  BY DEF ChargeInv, SupersGrow, ActiveSupers, Active

LEMMA AccountsChange ==
  ASSUME ChargeInv, NEW u \in Users, NEW s \in Statuses, account' = [account EXCEPT ![u] = s],
         s = "active" \/ u \notin ActiveSupers, UNCHANGED <<supers, first, crossed>>
  PROVE  SupersGrow
<1>1. account' \in [Users -> Statuses] /\ \A v \in Users : account'[v] = IF v = u THEN s ELSE account[v]
  BY DEF ChargeInv
<1> QED
  BY <1>1 DEF ChargeInv, SupersGrow, ActiveSupers, Active

\* Steps outside the handlers that read before they write.
LEMMA DirectStep ==
  ASSUME ChargeInv, NEW u \in Users, NEW a \in Users,
         \/ FirstRunSetup(u) \/ PasswordSignUp(u) \/ ProviderSignUp(u)
         \/ DeleteWorkspaceView(u) \/ LeaveWorkspace(u)
         \/ \E i \in 1..MaxInvites :
              AcceptInvitation(i, u) \/ RespondUserInactive(i, u) \/ SignUpAndAccept(i, u) \/ Expire(i)
         \/ GrantSuperuser(a, u) \/ RevokeSuperuser(a, u) \/ CreateTenant(a, u) \/ RemoveSomeone(a, u)
         \/ \E r \in Roles : ChangeMemberRole(a, u, r) \/ InviteNew(a, u, r)
  PROVE  ChargeInv'
<1>1. CASE FirstRunSetup(u)
  <2>1. account' = [account EXCEPT ![u] = "active"] /\ supers' = {u} /\ SeatsSame /\ UNCHANGED tasks
    BY <1>1 DEF FirstRunSetup, CreateFirstAdmin, SeatsSame
  <2>2. account' \in [Users -> Statuses] /\ account'[u] = "active"
    BY <2>1 DEF ChargeInv, Statuses
  <2>3. SupersInOrder
    BY <2>1, <2>2 DEF SupersInOrder, ActiveSupers, Active
  <2> QED
    BY <2>1, <2>3, InOrder
<1>2. CASE PasswordSignUp(u) \/ ProviderSignUp(u)
  <2>1. /\ account' = [account EXCEPT ![u] = SignUpStatus] /\ u \notin ActiveSupers
        /\ UNCHANGED <<supers, first, crossed, seat, live, tasks>>
    BY <1>2 DEF PasswordSignUp, ProviderSignUp, Register, ActiveSupers, Active
  <2> QED
    BY <2>1, AccountsChange, InOrder DEF SeatsSame, SignUpStatus, Statuses
<1>3. CASE DeleteWorkspaceView(u)
  <2>1. SeatsInOrder /\ UNCHANGED <<account, supers, first, crossed>> /\ tasks' \subseteq tasks
    BY <1>3 DEF DeleteWorkspaceView, DeleteWorkspace, SeatsInOrder, IsSeating
  <2> QED
    BY <2>1, SupersSame, InOrder
<1>4. ASSUME NEW b \in Users, RemoveMember(b, u) PROVE ChargeInv'
  <2>1. /\ live /\ Owners(seat) # {u} /\ seat' = [seat EXCEPT ![u] = NoRole]
        /\ UNCHANGED <<account, supers, first, crossed, tasks, live>>
    BY <1>4 DEF RemoveMember, MayRemove, IsLastOwner, Settle
  <2>2. SeatsInOrder
    BY <2>1, OwnerLeaves DEF SeatsInOrder, ChargeInv, SomebodyIsInCharge, IsSeating
  <2> QED
    BY <2>1, <2>2, SupersSame, InOrder
<1>5. ASSUME NEW i \in 1..MaxInvites, Accept(i, u) PROVE ChargeInv'
  <2>1. /\ seat[u] # "owner" /\ seat' = [seat EXCEPT ![u] = invites[i].role]
        /\ account' = [account EXCEPT ![u] = "active"]
        /\ UNCHANGED <<supers, first, crossed, tasks, live>>
    BY <1>5 DEF Accept, OpenFor, MayAdmit, NoRole, LetIn
  <2>2. SeatsInOrder
    BY <2>1, NewcomerSits DEF SeatsInOrder, ChargeInv, SomebodyIsInCharge
  <2> QED
    BY <2>1, <2>2, AccountsChange, InOrder DEF Statuses
<1>6. CASE GrantSuperuser(a, u)
  <2>1. supers' = supers \cup {u} /\ UNCHANGED <<account, first, crossed, seat, live, tasks>>
    BY <1>6 DEF GrantSuperuser
  <2>2. SupersGrow
    BY <2>1 DEF SupersGrow, ChargeInv, ActiveSupers, Active
  <2> QED
    BY <2>1, <2>2, InOrder DEF SeatsSame
<1>7. CASE RevokeSuperuser(a, u)
  <2>1. /\ supers' = supers \ {u} /\ ActiveSupers # {u} /\ ActiveSupers # {}
        /\ UNCHANGED <<account, first, crossed, seat, live, tasks>>
    BY <1>7 DEF RevokeSuperuser, MayRevokeSuperuser, SuperuserCanGo
  <2>2. ActiveSupers \ {u} \subseteq ActiveSupers'
    BY <2>1 DEF ActiveSupers, Active
  <2>3. SupersInOrder
    BY <2>1, <2>2, SuperuserLeaves DEF SupersInOrder, ChargeInv
  <2> QED
    BY <2>1, <2>3, InOrder DEF SeatsSame
<1>8. CASE CreateTenant(a, u)
  <2>1. SeatsInOrder /\ UNCHANGED <<account, supers, first, crossed, tasks>>
    BY <1>8, Founding DEF CreateTenant, CreateWorkspace, Settle, SeatsInOrder
  <2> QED
    BY <2>1, SupersSame, InOrder
<1>9. ASSUME NEW r \in Roles, ChangeMemberRole(a, u, r) PROVE ChargeInv'
  <2>1. /\ live /\ Owners(seat) # {u} /\ seat' = [seat EXCEPT ![u] = r]
        /\ UNCHANGED <<account, supers, first, crossed, tasks, live>>
    BY <1>9 DEF ChangeMemberRole, ChangeRole, MayChangeRole, IsLastOwner, Settle
  <2>2. SeatsInOrder
    BY <2>1, OwnerLeaves DEF SeatsInOrder, ChargeInv, SomebodyIsInCharge, IsSeating
  <2> QED
    BY <2>1, <2>2, SupersSame, InOrder
<1>10. CASE (\E i \in 1..MaxInvites : Expire(i)) \/ \E r \in Roles : InviteNew(a, u, r)
  <2>1. SeatsSame /\ UNCHANGED <<account, supers, first, crossed, tasks>>
    BY <1>10 DEF Expire, InviteNew, Settle, SeatsSame
  <2> QED
    BY <2>1, SupersSame, InOrder
<1>11. CASE LeaveWorkspace(u) \/ RemoveSomeone(a, u)
  BY <1>4, <1>11 DEF LeaveWorkspace, RemoveSomeone
<1>12. CASE \E i \in 1..MaxInvites : AcceptInvitation(i, u) \/ RespondUserInactive(i, u) \/ SignUpAndAccept(i, u)
  BY <1>5, <1>12 DEF AcceptInvitation, RespondUserInactive, SignUpAndAccept
<1> QED
  BY <1>1, <1>2, <1>3, <1>6, <1>7, <1>8, <1>9, <1>10, <1>11, <1>12

\* The reading half of a handler.
LEMMA BeginStep ==
  ASSUME ChargeInv, NEW u \in Users, NEW a \in Users, UNCHANGED deployment,
         \/ BeginConfirm(u) \/ BeginSubmit(u) \/ BeginBackOffice(u)
         \/ \E i \in 1..MaxInvites : BeginClose(u, i)
         \/ \E r \in RolesGiven : BeginRenew(a, u, r) \/ BeginReview(a, u, r)
  PROVE  ChargeInv'
<1>1. PICK t : Begin(t) /\ TaskOK(t)
  <2>1. CASE BeginConfirm(u) \/ BeginSubmit(u)
    BY <2>1 DEF BeginConfirm, BeginSubmit, TaskOK
  <2>2. CASE BeginBackOffice(u)
    <3>1. PICK kind \in {"deleteAccount", "deactivate", "untickSuperuser", "removeSeat", "demote"} :
            /\ Begin(Deed(kind, u))
            /\ kind \in {"deleteAccount", "removeSeat", "demote"} => GuardOwner(u)
            /\ kind \in {"deleteAccount", "deactivate", "untickSuperuser"} => GuardSuperuser(u)
      BY <2>2 DEF BeginBackOffice
    <3>2. GuardOwner(u) => OwnerGuarded(Deed(kind, u))
      BY DEF GuardOwner, SeatCanGo, IsLastOwner, OwnerGuarded, Deed, Owners
    <3>3. GuardSuperuser(u) => SuperuserGuarded(Deed(kind, u))
      BY DEF GuardSuperuser, SuperuserCanGo, SuperuserGuarded, Deed
    <3>4. Deed(kind, u).user = u /\ Deed(kind, u).kind = kind
      BY DEF Deed
    <3>5. TaskOK(Deed(kind, u))
      BY <3>1, <3>2, <3>3, <3>4 DEF TaskOK
    <3> QED
      BY <3>1, <3>5
  <2>3. CASE \E i \in 1..MaxInvites : BeginClose(u, i)
    BY <2>3 DEF BeginClose, TaskOK
  <2>4. CASE \E r \in RolesGiven : BeginRenew(a, u, r) \/ BeginReview(a, u, r)
    <3>1. CASE \E r \in RolesGiven : BeginRenew(a, u, r)
      BY <3>1 DEF BeginRenew, TaskOK
    <3>2. CASE \E r \in RolesGiven : BeginReview(a, u, r)
      <4>1. PICK r \in RolesGiven : \/ Begin([kind |-> "approve", user |-> u, role |-> r])
                                    \/ Begin([kind |-> "reject", user |-> u])
        BY <3>2 DEF BeginReview
      <4>2. TaskOK([kind |-> "approve", user |-> u, role |-> r]) /\ TaskOK([kind |-> "reject", user |-> u])
        BY DEF TaskOK
      <4> QED
        BY <4>1, <4>2
    <3> QED
      BY <2>4, <3>1, <3>2
  <2> QED
    BY <2>1, <2>2, <2>3, <2>4
<1> QED
  BY <1>1, Beginning

\* The admin's write: the guard's answer still holds, or the write crossed
\* another.
LEMMA BackOfficeStep ==
  ASSUME ChargeInv, crossed = {}, NEW t \in tasks, BackOfficeWrite(t),
         t.kind \in {"deleteAccount", "deactivate", "untickSuperuser", "removeSeat", "demote"}
  PROVE  ChargeInv'
<1> DEFINE u == t.user
<1>1. TaskOK(t) /\ u \in Users
  BY DEF ChargeInv, TaskOK
<1>2. /\ "owners" \notin crossed' => t.owners = Owners(seat)
      /\ "superusers" \notin crossed' => t.supers = ActiveSupers
  BY DEF BackOfficeWrite, Crossing
<1> HIDE DEF u
<1>7. ASSUME NEW r, seat' = [seat EXCEPT ![u] = r], live' = live, OwnerGuarded(t) PROVE SeatsInOrder
  <2>1. IsSeating(seat')
    BY <1>1, <1>7 DEF ChargeInv, IsSeating
  <2>2. ASSUME live', "owners" \notin crossed' PROVE Owners(seat') # {}
    <3>1. Owners(seat) # {} /\ (u \in Owners(seat) => Owners(seat) # {u})
      BY <1>2, <1>7, <2>2 DEF ChargeInv, SomebodyIsInCharge, OwnerGuarded, u
    <3> QED
      BY <1>1, <1>7, <3>1, OwnerLeaves DEF ChargeInv
  <2> QED
    BY <2>1, <2>2 DEF SeatsInOrder
<1> USE DEF u
<1>3. CASE t.kind = "deleteAccount"
  <2>1. /\ account' = [account EXCEPT ![u] = "none"] /\ supers' = supers \ {u}
        /\ seat' = [seat EXCEPT ![u] = NoRole] /\ live' = live /\ tasks' \subseteq tasks
        /\ first' # NoOne => first # NoOne
    BY <1>1, <1>3, PeopleAssumption DEF BackOfficeWrite, DeleteAccount
  <2>2. SeatsInOrder
    <3>1. OwnerGuarded(t)
      BY <1>1, <1>3 DEF TaskOK
    <3> QED
      BY <2>1, <3>1, <1>7
  <2>3. account' \in [Users -> Statuses] /\ ActiveSupers \ {u} \subseteq ActiveSupers'
    BY <2>1 DEF ChargeInv, Statuses, ActiveSupers, Active
  <2>4. SupersInOrder
    BY <1>1, <1>2, <1>3, <2>1, <2>3, SuperuserLeaves
    DEF SupersInOrder, ChargeInv, SomebodyIsInCharge, TaskOK, SuperuserGuarded
  <2> QED
    BY <2>1, <2>2, <2>4, InOrder
<1>4. CASE t.kind \in {"deactivate", "untickSuperuser"}
  <2>1. /\ account' \in {account, [account EXCEPT ![u] = "inactive"]} /\ supers' \in {supers, supers \ {u}}
        /\ UNCHANGED <<seat, live, first>> /\ tasks' \subseteq tasks
    BY <1>4 DEF BackOfficeWrite
  <2>2. SeatsInOrder
    BY <2>1 DEF SeatsInOrder, ChargeInv, SomebodyIsInCharge
  <2>3. account' \in [Users -> Statuses] /\ supers' \subseteq Users /\ ActiveSupers \ {u} \subseteq ActiveSupers'
    BY <2>1 DEF ChargeInv, Statuses, ActiveSupers, Active
  <2>4. SupersInOrder
    BY <1>1, <1>2, <1>4, <2>1, <2>3, SuperuserLeaves
    DEF SupersInOrder, ChargeInv, SomebodyIsInCharge, TaskOK, SuperuserGuarded
  <2> QED
    BY <2>1, <2>2, <2>4, InOrder
<1>5. CASE t.kind \in {"removeSeat", "demote"}
  <2>1. /\ \/ \E r : seat' = [seat EXCEPT ![u] = r]
           \/ seat' = seat
        /\ UNCHANGED <<account, supers, live, first>> /\ tasks' \subseteq tasks
    BY <1>5 DEF BackOfficeWrite
  <2>2. SeatsInOrder
    <3>1. CASE seat' = seat
      BY <2>1, <3>1 DEF SeatsInOrder, ChargeInv, SomebodyIsInCharge
    <3>2. ASSUME NEW r, seat' = [seat EXCEPT ![u] = r] PROVE SeatsInOrder
      <4>1. OwnerGuarded(t)
        BY <1>1, <1>5 DEF TaskOK
      <4> QED
        BY <2>1, <3>2, <4>1, <1>7
    <3> QED
      BY <2>1, <3>1, <3>2
  <2>3. SupersInOrder
    BY <2>1 DEF SupersInOrder, ChargeInv, SomebodyIsInCharge, ActiveSupers, Active
  <2> QED
    BY <2>1, <2>2, <2>3, InOrder
<1> QED
  BY <1>3, <1>4, <1>5

\* The writing half of a handler.
LEMMA FinishStep == ASSUME ChargeInv, crossed = {}, NEW t \in tasks, Finish(t) PROVE ChargeInv'
<1>1. CASE (t.kind = "renew" /\ Renew(t)) \/ (t.kind = "close" /\ Close(t)) \/ (t.kind = "confirm" /\ Confirm(t))
           \/ (t.kind = "submit" /\ Submit(t)) \/ Refused(t)
  <2>1. SeatsSame /\ UNCHANGED <<account, supers, first, crossed>> /\ tasks' \subseteq tasks
    BY <1>1 DEF Renew, Close, Confirm, Submit, Refused, SeatsSame
  <2> QED
    BY <2>1, SupersSame, InOrder
<1>2. CASE t.kind = "approve" /\ Approve(t)
  <2>1. /\ account' = [account EXCEPT ![t.user] = "active"] /\ UNCHANGED <<supers, first, crossed>>
        /\ t.user \in Users /\ tasks' \subseteq tasks
    BY <1>2 DEF Approve, ChargeInv, TaskOK
  <2>2. SeatsInOrder
    BY SMTT(30), <1>2, <2>1, NewcomerSits, Founding
    DEF Approve, Seated, MayAddAsSuperuser, MayAdd, NoRole, SeatsInOrder, ChargeInv, SomebodyIsInCharge
  <2> QED
    BY <2>1, <2>2, AccountsChange, InOrder DEF Statuses
<1>3. CASE t.kind = "reject" /\ Reject(t)
  <2>1. /\ account' = [account EXCEPT ![t.user] = "inactive"] /\ UNCHANGED <<supers, first, crossed, seat, live>>
        /\ t.user \in ActiveSupers => ActiveSupers # {t.user}
        /\ tasks' \subseteq tasks
    BY <1>3 DEF Reject, Rejected, SuperuserCanGo
  <2>2. account' \in [Users -> Statuses] /\ ActiveSupers \ {t.user} \subseteq ActiveSupers'
    BY <2>1 DEF ChargeInv, Statuses, ActiveSupers, Active
  <2>3. SupersInOrder
    BY <2>1, <2>2, SuperuserLeaves DEF SupersInOrder, ChargeInv, SomebodyIsInCharge
  <2> QED
    BY <2>1, <2>3, InOrder DEF SeatsSame
<1> QED
  BY <1>1, <1>2, <1>3, BackOfficeStep DEF Finish

-----------------------------------------------------------------------------
LEMMA ChargeInvariant == Spec => []ChargeInv
<1>1. Init => ChargeInv
  BY PeopleAssumption DEF Init, ChargeInv, SomebodyIsInCharge, IsSeating, Statuses
<1>2. ChargeInv /\ [Next]_vars => ChargeInv'
  <2> SUFFICES ASSUME ChargeInv, [Next]_vars PROVE ChargeInv'
    OBVIOUS
  <2>1. CASE UNCHANGED vars
    BY <2>1 DEF vars, ChargeInv, SomebodyIsInCharge, ActiveSupers, Active
  <2>2. ASSUME NEW i \in 1..MaxInvites, Expire(i) PROVE ChargeInv'
    <3>1. SeatsSame /\ UNCHANGED <<account, supers, first, crossed, tasks>>
      BY <2>2 DEF Expire, Settle, SeatsSame
    <3> QED
      BY <3>1, SupersSame, InOrder
  <2>3. CASE Next
    BY <2>2, <2>3, DirectStep, BeginStep, FinishStep, PeopleAssumption DEF Next
  <2> QED
    BY <2>1, <2>3
<1> QED
  BY <1>1, <1>2, PTL DEF Spec

\* A workspace always has an owner (workspace_roles.py) and a deployment that
\* was set up an active superuser (superusers.py), through every mix of role
\* changes, reviews and admin writes, unless an admin's write went by a guard's
\* answer that no longer held (signals.py takes no lock).
THEOREM SomebodyIsInChargeHolds == Spec => []SomebodyIsInCharge
<1>1. ChargeInv => SomebodyIsInCharge
  BY DEF ChargeInv
<1> QED
  BY <1>1, ChargeInvariant, PTL

\* What a page offers its service accepts: the roles, removals and departures of
\* the member list (members_context) and the revocations of the superuser list.
THEOREM OfferedIsAllowedHolds == Spec => []OfferedIsAllowed
<1>1. OfferedIsAllowed
  <2> SUFFICES ASSUME NEW a \in Users, Active(a)
               PROVE  LET page == MembersContext(a)
                      IN /\ \A u \in DOMAIN page.choices : \A r \in page.choices[u] \ {seat[u]} :
                              MayChangeRole(seat, supers, a, u, r)
                         /\ \A u \in page.removable : MayRemove(seat, supers, a, u)
                         /\ page.canLeave => MayRemove(seat, supers, a, a)
                         /\ \A u \in SuperusersContext(a) : SuperuserCanGo(ActiveSupers, u)
    BY DEF OfferedIsAllowed
  <2>1. ASSUME NEW u \in Members(seat), NEW r \in AssignableTo(seat, supers, a, u) \ {seat[u]}
        PROVE  MayChangeRole(seat, supers, a, u, r)
    BY DEF Members, AssignableTo, AssignableRoles, MayChangeRole
  <2>2. seat[a] # NoRole /\ ~IsLastOwner(seat, a) => MayRemove(seat, supers, a, a)
    BY DEF MayRemove
  <2>3. \A u \in SuperusersContext(a) : SuperuserCanGo(ActiveSupers, u)
    BY DEF SuperusersContext, MayRevokeSuperuser
  <2> QED
    BY <2>1, <2>2, <2>3 DEF MembersContext
<1> QED
  BY <1>1, PTL
-----------------------------------------------------------------------------
(* Invitations: a spent one never opens again *)

Invitation == [status : {"none", "pending", "accepted", "revoked", "declined", "gone"},
               to : Users \cup {NoOne}, role : Roles, open : BOOLEAN, acceptedBy : Users \cup {NoOne}]

\* A handler that loaded an invitation loaded one of the workspace that stands;
\* one that renews it holds the lock, so nobody spends it meanwhile.
InviteTaskOK(t) ==
  /\ t.kind \in {"close", "renew"} =>
       t.inv \in 1..MaxInvites /\ invites[t.inv].status \notin {"none", "gone"}
  /\ t.kind = "close" => t.as \in {"revoked", "declined"}
  /\ t.kind = "renew" => t.role \in Roles /\ invites[t.inv].acceptedBy = NoOne

InviteInv ==
  /\ invites \in [1..MaxInvites -> Invitation]
  /\ \A i \in 1..MaxInvites : invites[i].acceptedBy # NoOne => invites[i].status \notin {"none", "pending"}
  /\ \A t \in tasks : InviteTaskOK(t)

LEMMA InvitesLeft ==
  ASSUME InviteInv, UNCHANGED invites, tasks' \subseteq tasks
  PROVE  InviteInv'
BY DEF InviteInv, InviteTaskOK

LEMMA BeginInvite ==
  ASSUME InviteInv, NEW t, Begin(t), InviteTaskOK(t)
  PROVE  InviteInv'
BY DEF InviteInv, InviteTaskOK, Begin

\* A step that saves one invitation and leaves it of its workspace.
LEMMA SaveInvite ==
  ASSUME InviteInv, NEW i \in 1..MaxInvites, NEW row \in Invitation,
         invites' = [invites EXCEPT ![i] = row], tasks' \subseteq tasks,
         row.acceptedBy # NoOne => row.status \notin {"none", "pending"},
         invites[i].status \notin {"none", "gone"} => row.status \notin {"none", "gone"},
         \/ row.acceptedBy = invites[i].acceptedBy
         \/ Unlocked
  PROVE  InviteInv'
<1>1. /\ invites' \in [1..MaxInvites -> Invitation] /\ invites'[i] = row
      /\ \A j \in 1..MaxInvites \ {i} : invites'[j] = invites[j]
  BY DEF InviteInv
<1>2. \A j \in 1..MaxInvites : invites'[j].acceptedBy # NoOne => invites'[j].status \notin {"none", "pending"}
  BY <1>1 DEF InviteInv
<1>3. ASSUME NEW t \in tasks PROVE InviteTaskOK(t)'
  BY <1>1, <1>3 DEF InviteInv, InviteTaskOK, Unlocked
<1>. QED
  BY <1>1, <1>2, <1>3 DEF InviteInv

LEMMA SpendInvite ==
  ASSUME InviteInv, NEW i \in 1..MaxInvites, NEW u \in Users, Accept(i, u)
  PROVE  InviteInv'
<1>. DEFINE row == [invites[i] EXCEPT !.status = "accepted", !.acceptedBy = u]
<1>1. Unlocked /\ Pending(i) /\ invites[i] \in Invitation /\ UNCHANGED tasks
      /\ invites' = [invites EXCEPT ![i].status = "accepted", ![i].acceptedBy = u]
  BY DEF Accept, OpenFor, InviteInv
<1>2. row \in Invitation /\ row.status = "accepted"
  BY <1>1 DEF Invitation
<1>3. invites' = [invites EXCEPT ![i] = row]
  BY <1>1 DEF InviteInv, Invitation
<1>. QED
  BY <1>1, <1>2, <1>3, SaveInvite

LEMMA FinishInvite ==
  ASSUME InviteInv, NEW t \in tasks, Finish(t)
  PROVE  InviteInv'
<1>1. ASSUME NEW status, NEW role, NEW open \in BOOLEAN, NEW i \in 1..MaxInvites,
             status \in {"pending", "revoked", "declined"}, role \in Roles,
             invites' = [invites EXCEPT ![i].status = status, ![i].role = role, ![i].open = open],
             status = "pending" => invites[i].acceptedBy = NoOne,
             tasks' \subseteq tasks
      PROVE  InviteInv'
  <2>. DEFINE row == [invites[i] EXCEPT !.status = status, !.role = role, !.open = open]
  <2>1. invites[i] \in Invitation
    BY DEF InviteInv
  <2>2. row \in Invitation /\ row.status = status /\ row.acceptedBy = invites[i].acceptedBy
    BY <1>1, <2>1 DEF Invitation
  <2>3. invites' = [invites EXCEPT ![i] = row]
    BY <1>1, <2>1 DEF InviteInv, Invitation
  <2>. HIDE DEF row
  <2>. QED
    BY <1>1, <2>2, <2>3, SaveInvite
<1>2. CASE t.kind = "renew" /\ Renew(t)
  <2>1. /\ t.inv \in 1..MaxInvites /\ t.role \in Roles /\ invites[t.inv].acceptedBy = NoOne
    BY <1>2 DEF InviteInv, InviteTaskOK
  <2>. QED
    BY <1>1, <1>2, <2>1 DEF Renew
<1>3. CASE t.kind = "close" /\ Close(t)
  <2>1. /\ t.inv \in 1..MaxInvites /\ t.as \in {"revoked", "declined"}
        /\ invites[t.inv] \in Invitation
    BY <1>3 DEF InviteInv, InviteTaskOK
  <2>2. invites' = [invites EXCEPT ![t.inv].status = t.as, ![t.inv].role = invites[t.inv].role,
                                   ![t.inv].open = invites[t.inv].open]
    BY <1>3, <2>1 DEF Close, InviteInv, Invitation
  <2>3. invites[t.inv].role \in Roles /\ invites[t.inv].open \in BOOLEAN
    BY <2>1 DEF Invitation
  <2>4. tasks' \subseteq tasks
    BY <1>3 DEF Close
  <2>. QED
    BY <1>1, <2>1, <2>2, <2>3, <2>4
<1>4. ASSUME BackOfficeWrite(t), t.kind = "deleteAccount" PROVE InviteInv'
  <2>1. /\ invites' = [i \in DOMAIN invites |->
                        [invites[i] EXCEPT !.acceptedBy = IF @ = t.user THEN NoOne ELSE @]]
        /\ tasks' \subseteq tasks
    BY <1>4 DEF BackOfficeWrite, DeleteAccount
  <2>2. ASSUME NEW i \in 1..MaxInvites
        PROVE  /\ invites'[i] \in Invitation /\ invites'[i].status = invites[i].status
               /\ invites'[i].acceptedBy \in {NoOne, invites[i].acceptedBy}
    <3>1. invites[i] \in Invitation
      BY DEF InviteInv
    <3>2. invites'[i] = [invites[i] EXCEPT !.acceptedBy = IF @ = t.user THEN NoOne ELSE @]
      BY <2>1 DEF InviteInv
    <3>. QED
      BY <3>1, <3>2 DEF Invitation
  <2>3. invites' \in [1..MaxInvites -> Invitation]
    BY <2>1, <2>2 DEF InviteInv
  <2>4. ASSUME NEW s \in tasks PROVE InviteTaskOK(s)'
    <3>1. InviteTaskOK(s)
      BY DEF InviteInv
    <3>. QED
      BY <2>2, <3>1 DEF InviteTaskOK
  <2>5. \A i \in 1..MaxInvites : invites'[i].acceptedBy # NoOne => invites'[i].status \notin {"none", "pending"}
    BY <2>2 DEF InviteInv
  <2>. QED
    BY <2>1, <2>3, <2>4, <2>5 DEF InviteInv
<1>5. CASE UNCHANGED invites /\ tasks' \subseteq tasks
  BY <1>5, InvitesLeft
<1>. QED
  BY <1>2, <1>3, <1>4, <1>5 DEF Finish, Confirm, Submit, Approve, Reject, Refused, BackOfficeWrite

LEMMA InviteStep ==
  ASSUME InviteInv, [Next]_vars
  PROVE  InviteInv'
<1>1. CASE UNCHANGED vars
  BY <1>1, InvitesLeft DEF vars
<1>2. ASSUME NEW u \in Users,
             \/ FirstRunSetup(u) \/ PasswordSignUp(u) \/ ProviderSignUp(u) \/ LeaveWorkspace(u)
             \/ \E a \in Users : \/ GrantSuperuser(a, u) \/ RevokeSuperuser(a, u)
                                 \/ CreateTenant(a, u) \/ RemoveSomeone(a, u)
                                 \/ \E r \in Roles : ChangeMemberRole(a, u, r)
      PROVE  InviteInv'
  BY <1>2, InvitesLeft DEF FirstRunSetup, CreateFirstAdmin, PasswordSignUp, ProviderSignUp, Register,
     LeaveWorkspace, RemoveMember, GrantSuperuser, RevokeSuperuser, CreateTenant, CreateWorkspace,
     RemoveSomeone, ChangeMemberRole, ChangeRole, Settle
<1>3. ASSUME NEW u \in Users, DeleteWorkspaceView(u) PROVE InviteInv'
  <2>1. /\ \A t \in tasks' : t \in tasks /\ t.kind \notin {"close", "renew"}
        /\ invites' = [i \in 1..MaxInvites |->
             IF invites[i].status = "none" THEN NoInvite ELSE [NoInvite EXCEPT !.status = "gone"]]
    BY <1>3 DEF DeleteWorkspaceView, DeleteWorkspace
  <2>2. NoInvite \in Invitation /\ [NoInvite EXCEPT !.status = "gone"] \in Invitation
    BY DEF NoInvite, Invitation, Roles
  <2>3. invites' \in [1..MaxInvites -> Invitation]
    BY <2>1, <2>2
  <2>4. \A i \in 1..MaxInvites : invites'[i].acceptedBy = NoOne
    BY <2>1 DEF NoInvite
  <2>. QED
    BY <2>1, <2>3, <2>4 DEF InviteInv, InviteTaskOK
<1>4. ASSUME NEW u \in Users, NEW i \in 1..MaxInvites,
             AcceptInvitation(i, u) \/ RespondUserInactive(i, u) \/ SignUpAndAccept(i, u)
      PROVE  InviteInv'
  BY <1>4, SpendInvite DEF AcceptInvitation, RespondUserInactive, SignUpAndAccept
<1>5. ASSUME NEW i \in 1..MaxInvites, Expire(i) PROVE InviteInv'
  <2>. DEFINE row == [invites[i] EXCEPT !.open = FALSE]
  <2>1. invites[i] \in Invitation /\ UNCHANGED tasks /\ Pending(i)
        /\ invites' = [invites EXCEPT ![i].open = FALSE]
    BY <1>5 DEF Expire, Settle, InviteInv
  <2>2. /\ row \in Invitation /\ row.status = "pending" /\ row.acceptedBy = invites[i].acceptedBy
        /\ row.acceptedBy = NoOne
    BY <2>1 DEF Invitation, Pending, InviteInv
  <2>3. invites' = [invites EXCEPT ![i] = row]
    BY <2>1 DEF InviteInv
  <2>. HIDE DEF row
  <2>. QED
    BY <2>1, <2>2, <2>3, SaveInvite
<1>6. ASSUME NEW a \in Users, NEW u \in Users, NEW r \in RolesGiven, InviteNew(a, u, r)
      PROVE  InviteInv'
  <2>. DEFINE row == [status |-> "pending", to |-> u, role |-> r, open |-> TRUE, acceptedBy |-> NoOne]
  <2>1. row \in Invitation /\ row.status = "pending" /\ row.acceptedBy = NoOne
    BY PeopleAssumption DEF Invitation
  <2>2. PICK i \in DOMAIN invites : invites[i].status = "none" /\ invites' = [invites EXCEPT ![i] = row]
    BY <1>6 DEF InviteNew
  <2>3. i \in 1..MaxInvites /\ UNCHANGED tasks /\ invites[i].acceptedBy = NoOne
    BY <1>6, <2>2 DEF InviteNew, Settle, InviteInv
  <2>. HIDE DEF row
  <2>. QED
    BY <2>1, <2>2, <2>3, SaveInvite
<1>7. ASSUME NEW u \in Users, NEW a \in Users,
             \/ BeginConfirm(u) \/ BeginSubmit(u) \/ BeginBackOffice(u)
             \/ \E i \in 1..MaxInvites : BeginClose(u, i)
             \/ \E r \in RolesGiven : BeginRenew(a, u, r) \/ BeginReview(a, u, r)
      PROVE  InviteInv'
  <2>1. PICK t : Begin(t) /\ InviteTaskOK(t)
    <3>1. CASE BeginConfirm(u) \/ BeginSubmit(u)
      BY <3>1 DEF BeginConfirm, BeginSubmit, InviteTaskOK
    <3>2. CASE BeginBackOffice(u)
      BY <3>2 DEF BeginBackOffice, Deed, InviteTaskOK
    <3>3. ASSUME NEW i \in 1..MaxInvites, BeginClose(u, i)
          PROVE  \E t : Begin(t) /\ InviteTaskOK(t)
      BY <3>3 DEF BeginClose, InviteTaskOK, Pending
    <3>4. ASSUME NEW r \in RolesGiven, BeginRenew(a, u, r)
          PROVE  \E t : Begin(t) /\ InviteTaskOK(t)
      <4>1. PICK i \in PendingTo(u) : Begin([kind |-> "renew", inv |-> i, role |-> r])
        BY <3>4 DEF BeginRenew
      <4>2. i \in 1..MaxInvites /\ invites[i].status = "pending" /\ invites[i].acceptedBy = NoOne
            /\ r \in Roles
        BY PeopleAssumption DEF PendingTo, Pending, InviteInv
      <4>. QED
        BY <4>1, <4>2 DEF InviteTaskOK
    <3>5. ASSUME NEW r \in RolesGiven, BeginReview(a, u, r)
          PROVE  \E t : Begin(t) /\ InviteTaskOK(t)
      BY <3>5 DEF BeginReview, InviteTaskOK
    <3>. QED
      BY <1>7, <3>1, <3>2, <3>3, <3>4, <3>5
  <2>. QED
    BY <2>1, BeginInvite
<1>8. ASSUME NEW t \in tasks, Finish(t) PROVE InviteInv'
  BY <1>8, FinishInvite
<1>. QED
  BY <1>1, <1>2, <1>3, <1>4, <1>5, <1>6, <1>7, <1>8 DEF Next

LEMMA InviteInvariant == Spec => []InviteInv
<1>1. Init => InviteInv
  BY DEF Init, InviteInv, NoInvite, Invitation, Roles
<1>2. ASSUME InviteInv, [Next]_vars PROVE InviteInv'
  BY <1>2, InviteStep
<1>. QED
  BY <1>1, <1>2, PTL DEF Spec

\* A seat that somebody gets in a workspace that stands.
LEMMA SeatGiven ==
  ASSUME ChargeInv, [Next]_vars, NEW u \in Users, live, seat[u] = NoRole, seat'[u] # NoRole
  PROVE  \/ \E t \in tasks \ tasks' : t.kind = "approve" /\ t.user = u
         \/ \E i \in 1..MaxInvites :
              /\ invites[i].to = u /\ Pending(i) /\ invites[i].open
              /\ invites' = [invites EXCEPT ![i].status = "accepted", ![i].acceptedBy = u]
<1>1. CASE UNCHANGED seat
  BY <1>1
<1>2. ASSUME NEW v \in Users, seat' = [seat EXCEPT ![v] = NoRole] PROVE FALSE
  BY <1>2 DEF ChargeInv, IsSeating
<1>3. ASSUME NEW v \in Users, NEW a \in Users, LeaveWorkspace(v) \/ RemoveSomeone(a, v)
      PROVE  FALSE
  BY <1>2, <1>3 DEF LeaveWorkspace, RemoveSomeone, RemoveMember
<1>4. ASSUME NEW v \in Users, DeleteWorkspaceView(v) PROVE FALSE
  BY <1>4 DEF DeleteWorkspaceView, DeleteWorkspace
<1>5. ASSUME NEW v \in Users, NEW a \in Users, NEW r \in Roles, ChangeMemberRole(a, v, r)
      PROVE  FALSE
  BY <1>5 DEF ChangeMemberRole, ChangeRole, MayChangeRole, ChargeInv, IsSeating
<1>6. ASSUME NEW v \in Users, NEW a \in Users, CreateTenant(a, v) PROVE FALSE
  BY <1>6 DEF CreateTenant, CreateWorkspace
<1>7. ASSUME NEW v \in Users, NEW i \in 1..MaxInvites, Accept(i, v)
      PROVE  /\ invites[i].to = u /\ Pending(i) /\ invites[i].open
             /\ invites' = [invites EXCEPT ![i].status = "accepted", ![i].acceptedBy = u]
  <2>1. seat' = [seat EXCEPT ![v] = invites[i].role]
    BY <1>7 DEF Accept
  <2>2. u = v
    BY <2>1 DEF ChargeInv, IsSeating
  <2>. QED
    BY <1>7, <2>2 DEF Accept, OpenFor
<1>8. ASSUME NEW t \in tasks, t.kind = "approve", Approve(t)
      PROVE  t \in tasks \ tasks' /\ t.user = u
  <2>1. seat' = [seat EXCEPT ![t.user] = t.role] /\ tasks' = tasks \ {t}
    BY <1>8 DEF Approve, Seated
  <2>2. u = t.user
    BY <2>1 DEF ChargeInv, IsSeating
  <2>. QED
    BY <2>1, <2>2
<1>9. ASSUME NEW t \in tasks, BackOfficeWrite(t),
             t.kind \in {"deleteAccount", "deactivate", "untickSuperuser", "removeSeat", "demote"}
      PROVE  FALSE
  <2>1. \/ seat' = [seat EXCEPT ![t.user] = NoRole]
        \/ seat[t.user] # NoRole /\ seat' = [seat EXCEPT ![t.user] = "member"]
        \/ seat' = seat
    BY <1>9 DEF BackOfficeWrite, DeleteAccount
  <2>. QED
    BY <2>1 DEF ChargeInv, IsSeating
<1>10. ASSUME NEW t \in tasks, Finish(t)
       PROVE  (t.kind = "approve" /\ Approve(t)) \/ UNCHANGED seat
  BY <1>9, <1>10 DEF Finish, Renew, Close, Confirm, Submit, Reject, Refused
<1>11. ASSUME NEW v \in Users, NEW a \in Users,
              \/ FirstRunSetup(v) \/ PasswordSignUp(v) \/ ProviderSignUp(v)
              \/ BeginConfirm(v) \/ BeginSubmit(v) \/ BeginBackOffice(v)
              \/ \E i \in 1..MaxInvites : BeginClose(v, i) \/ Expire(i)
              \/ GrantSuperuser(a, v) \/ RevokeSuperuser(a, v)
              \/ \E r \in RolesGiven : InviteNew(a, v, r) \/ BeginRenew(a, v, r) \/ BeginReview(a, v, r)
       PROVE  UNCHANGED seat
  BY <1>11 DEF FirstRunSetup, CreateFirstAdmin, PasswordSignUp, ProviderSignUp, Register,
     BeginConfirm, BeginSubmit, BeginBackOffice, BeginClose, Expire, GrantSuperuser, RevokeSuperuser,
     InviteNew, BeginRenew, BeginReview, Begin, Settle
<1>12. CASE UNCHANGED vars
  BY <1>12 DEF vars
<1>13. CASE Next
  <2>1. CASE \E t \in tasks : Finish(t)
    BY <1>8, <1>10, <2>1
  <2>2. CASE \E v \in Users, i \in 1..MaxInvites :
               AcceptInvitation(i, v) \/ RespondUserInactive(i, v) \/ SignUpAndAccept(i, v)
    BY <1>7, <2>2 DEF AcceptInvitation, RespondUserInactive, SignUpAndAccept
  <2>3. CASE \E i \in 1..MaxInvites : Expire(i)
    BY <2>3 DEF Expire
  <2>. QED
    BY <1>3, <1>4, <1>5, <1>6, <1>11, <1>13, <2>1, <2>2, <2>3 DEF Next
<1>. QED
  BY <1>12, <1>13

\* A spent invitation is not renewed, issued again or opened.
LEMMA SpentStaysSpent ==
  ASSUME InviteInv, InviteInv', [Next]_vars, NEW i \in 1..MaxInvites, invites[i].acceptedBy # NoOne
  PROVE  invites'[i].status # "pending"
<1>1. invites[i].status \notin {"none", "pending"} /\ invites[i] \in Invitation
  BY DEF InviteInv
<1>2. CASE UNCHANGED invites
  BY <1>1, <1>2
<1>3. ASSUME NEW u \in Users, DeleteWorkspaceView(u) PROVE invites'[i].status # "pending"
  BY <1>3 DEF DeleteWorkspaceView, DeleteWorkspace, NoInvite
<1>4. ASSUME NEW u \in Users, NEW j \in 1..MaxInvites, Accept(j, u)
      PROVE  invites'[i].status # "pending"
  BY <1>1, <1>4 DEF Accept, InviteInv, Invitation
<1>5. ASSUME NEW j \in 1..MaxInvites, Expire(j) PROVE invites'[i].status # "pending"
  BY <1>1, <1>5 DEF Expire, InviteInv, Invitation
<1>6. ASSUME NEW a \in Users, NEW u \in Users, NEW r \in RolesGiven, InviteNew(a, u, r)
      PROVE  invites'[i].status # "pending"
  <2>1. PICK j \in DOMAIN invites :
          /\ invites[j].status = "none"
          /\ invites' = [invites EXCEPT ![j] =
               [status |-> "pending", to |-> u, role |-> r, open |-> TRUE, acceptedBy |-> NoOne]]
    BY <1>6 DEF InviteNew
  <2>. QED
    BY <1>1, <2>1 DEF InviteInv
<1>7. ASSUME NEW t \in tasks, Finish(t) PROVE invites'[i].status # "pending"
  <2>1. InviteTaskOK(t)
    BY DEF InviteInv
  <2>2. CASE t.kind = "renew" /\ Renew(t)
    <3>1. t.inv # i
      BY <2>1, <2>2 DEF InviteTaskOK
    <3>2. invites'[i] = invites[i]
      BY <2>2, <3>1 DEF Renew, InviteInv
    <3>. QED
      BY <1>1, <3>2
  <2>3. CASE t.kind = "close" /\ Close(t)
    BY <1>1, <2>1, <2>3 DEF InviteTaskOK, Close, InviteInv, Invitation
  <2>4. CASE DeleteAccount(t)
    <3>1. invites'[i] = [invites[i] EXCEPT !.acceptedBy = IF @ = t.user THEN NoOne ELSE @]
      BY <2>4 DEF DeleteAccount, InviteInv
    <3>. QED
      BY <1>1, <3>1 DEF Invitation
  <2>. QED
    BY <1>2, <1>7, <2>2, <2>3, <2>4 DEF Finish, Confirm, Submit, Approve, Reject, Refused, BackOfficeWrite
<1>8. ASSUME NEW u \in Users, NEW a \in Users,
             \/ FirstRunSetup(u) \/ PasswordSignUp(u) \/ ProviderSignUp(u) \/ LeaveWorkspace(u)
             \/ BeginConfirm(u) \/ BeginSubmit(u) \/ BeginBackOffice(u)
             \/ \E j \in 1..MaxInvites : BeginClose(u, j)
             \/ \/ GrantSuperuser(a, u) \/ RevokeSuperuser(a, u)
                \/ CreateTenant(a, u) \/ RemoveSomeone(a, u)
                \/ \E r \in Roles : ChangeMemberRole(a, u, r)
                \/ \E r \in RolesGiven : BeginRenew(a, u, r) \/ BeginReview(a, u, r)
      PROVE  UNCHANGED invites
  BY <1>8 DEF FirstRunSetup, CreateFirstAdmin, PasswordSignUp, ProviderSignUp, Register,
     LeaveWorkspace, RemoveMember, GrantSuperuser, RevokeSuperuser, CreateTenant, CreateWorkspace,
     RemoveSomeone, ChangeMemberRole, ChangeRole, Settle, BeginConfirm, BeginSubmit, BeginBackOffice,
     BeginClose, BeginRenew, BeginReview, Begin
<1>9. CASE \E u \in Users, j \in 1..MaxInvites :
             AcceptInvitation(j, u) \/ RespondUserInactive(j, u) \/ SignUpAndAccept(j, u)
  BY <1>4, <1>9 DEF AcceptInvitation, RespondUserInactive, SignUpAndAccept
<1>10. CASE UNCHANGED vars
  BY <1>2, <1>10 DEF vars
<1>. QED
  BY <1>2, <1>3, <1>5, <1>6, <1>7, <1>8, <1>9, <1>10 DEF Next

\* Nobody gets a seat unasked, and an invitation spends once, whatever the
\* handlers that loaded it before do to it after.
THEOREM SeatsAreGivenOnceHolds == Spec => SeatsAreGivenOnce
<1>1. ASSUME ChargeInv, InviteInv, [Next]_vars
      PROVE  [/\ \A u \in Users : live /\ seat[u] = NoRole /\ seat'[u] # NoRole =>
                   \/ \E t \in tasks \ tasks' : t.kind = "approve" /\ t.user = u
                   \/ \E i \in 1..MaxInvites :
                        /\ invites[i].to = u /\ Pending(i) /\ invites[i].open
                        /\ invites'[i].status = "accepted"
              /\ \A i \in 1..MaxInvites :
                   invites[i].acceptedBy # NoOne => invites'[i].status # "pending"]_vars
  <2>1. InviteInv'
    BY <1>1, InviteStep
  <2>2. ASSUME NEW u \in Users, live, seat[u] = NoRole, seat'[u] # NoRole
        PROVE  \/ \E t \in tasks \ tasks' : t.kind = "approve" /\ t.user = u
               \/ \E i \in 1..MaxInvites :
                    /\ invites[i].to = u /\ Pending(i) /\ invites[i].open
                    /\ invites'[i].status = "accepted"
    <3>1. ASSUME NEW i \in 1..MaxInvites,
                 invites' = [invites EXCEPT ![i].status = "accepted", ![i].acceptedBy = u]
          PROVE  invites'[i].status = "accepted"
      BY <1>1, <3>1 DEF InviteInv, Invitation
    <3>. QED
      BY <1>1, <2>2, <3>1, SeatGiven
  <2>. QED
    BY <1>1, <2>1, <2>2, SpentStaysSpent
<1>. QED
  BY <1>1, ChargeInvariant, InviteInvariant, PTL DEF Spec, SeatsAreGivenOnce
-----------------------------------------------------------------------------
(* Access requests *)

AccessRequest == [status : {"none", "pending", "approved", "rejected"},
                  confirmed : BOOLEAN, submitted : BOOLEAN]

\* A handler that confirms or submits a request loaded it pending; the form is
\* for those who confirmed.
RequestTaskOK(t) ==
  /\ t.kind \in {"confirm", "submit"} => /\ t.user \in Users /\ t.read \in AccessRequest
                                         /\ t.read.status = "pending"
  /\ t.kind = "submit" => t.read.confirmed
  /\ t.kind \in {"approve", "reject", "deleteAccount", "deactivate"} => t.user \in Users

\* A form is handed in once the address is confirmed, which completes a request
\* where a form is asked for, as confirming does elsewhere.
RequestInv ==
  /\ request \in [Users -> AccessRequest] /\ told \in [Users -> BOOLEAN]
  /\ \A t \in tasks : RequestTaskOK(t)
  /\ \A u \in Users : request[u].submitted => told[u]
  /\ ReadyRequestsAreTold

\* A step that saves one request, and tells of it or had told.
LEMMA SaveRequest ==
  ASSUME RequestInv, UNCHANGED deployment, NEW u \in Users, NEW r \in AccessRequest,
         request' = [request EXCEPT ![u] = r], tasks' \subseteq tasks,
         told' \in [Users -> BOOLEAN], \A v \in Users \ {u} : told'[v] = told[v],
         r.submitted => told'[u],
         Ready(r) => told'[u]
  PROVE  RequestInv'
<1>1. /\ request' \in [Users -> AccessRequest] /\ request'[u] = r
      /\ \A v \in Users \ {u} : request'[v] = request[v]
  BY DEF RequestInv
<1>2. \A v \in Users : request'[v].submitted => told'[v]
  BY <1>1 DEF RequestInv
<1>3. ASSUME NEW v \in Users, Ready(request[v])' PROVE told'[v]
  BY <1>1, <1>3 DEF RequestInv, ReadyRequestsAreTold, Ready
<1>4. \A t \in tasks' : RequestTaskOK(t)
  BY DEF RequestInv
<1>. QED
  BY <1>1, <1>2, <1>4, <1>3 DEF RequestInv, ReadyRequestsAreTold, Ready, RequestTaskOK

LEMMA RequestsLeft ==
  ASSUME RequestInv, UNCHANGED <<deployment, request, told>>, tasks' \subseteq tasks
  PROVE  RequestInv'
BY DEF RequestInv, ReadyRequestsAreTold, Ready, RequestTaskOK

LEMMA BeginRequest ==
  ASSUME RequestInv, UNCHANGED deployment, NEW t, Begin(t), RequestTaskOK(t)
  PROVE  RequestInv'
BY DEF RequestInv, ReadyRequestsAreTold, Ready, RequestTaskOK, Begin

LEMMA RegisterRequest ==
  ASSUME RequestInv, UNCHANGED deployment, NEW u \in Users, NEW confirmed \in BOOLEAN,
         Register(u, confirmed)
  PROVE  RequestInv'
<1>. DEFINE r == [status |-> "pending", confirmed |-> confirmed, submitted |-> FALSE]
<1>1. CASE gated
  <2>1. /\ request' = [request EXCEPT ![u] = r]
        /\ told' = [told EXCEPT ![u] = @ \/ Ready(r)] /\ UNCHANGED tasks
    BY <1>1 DEF Register, OpenAccessRequest, TellIfReady
  <2>2. r \in AccessRequest /\ ~r.submitted
    BY DEF AccessRequest
  <2>3. Ready(r) \in BOOLEAN
    BY <2>2 DEF Ready
  <2>. HIDE DEF r
  <2>4. /\ told' \in [Users -> BOOLEAN] /\ \A v \in Users \ {u} : told'[v] = told[v]
        /\ Ready(r) => told'[u]
    BY <2>1, <2>3 DEF RequestInv
  <2>. QED
    BY <2>1, <2>2, <2>4, SaveRequest
<1>2. CASE ~gated
  BY <1>2, RequestsLeft DEF Register
<1>. QED
  BY <1>1, <1>2

LEMMA LetInRequest ==
  ASSUME RequestInv, UNCHANGED <<deployment, told, tasks>>, NEW u \in Users, LetIn(u)
  PROVE  RequestInv'
<1>1. CASE UNCHANGED request
  BY <1>1, RequestsLeft
<1>2. CASE request' = [request EXCEPT ![u].status = "approved", ![u].confirmed = TRUE]
  <2>. DEFINE r == [request[u] EXCEPT !.status = "approved", !.confirmed = TRUE]
  <2>1. request[u] \in AccessRequest
    BY DEF RequestInv
  <2>2. r \in AccessRequest /\ r.status = "approved" /\ r.submitted = request[u].submitted
    BY <2>1 DEF AccessRequest
  <2>3. request' = [request EXCEPT ![u] = r]
    BY <1>2, <2>1 DEF RequestInv, AccessRequest
  <2>4. ~Ready(r)
    BY <2>2 DEF Ready
  <2>5. told \in [Users -> BOOLEAN] /\ (request[u].submitted => told[u])
    BY DEF RequestInv
  <2>. HIDE DEF r
  <2>. QED
    BY <2>2, <2>3, <2>4, <2>5, SaveRequest
<1>. QED
  BY <1>1, <1>2 DEF LetIn

LEMMA FinishRequest ==
  ASSUME RequestInv, UNCHANGED deployment, NEW t \in tasks, Finish(t)
  PROVE  RequestInv'
<1>. DEFINE u == t.user
<1>0. RequestTaskOK(t)
  BY DEF RequestInv
<1>1. CASE t.kind = "confirm" /\ Confirm(t)
  <2>. DEFINE r == [request[u] EXCEPT !.confirmed = TRUE]
              seen == [t.read EXCEPT !.confirmed = TRUE]
  <2>1. u \in Users /\ t.read \in AccessRequest /\ t.read.status = "pending"
        /\ request[u] \in AccessRequest
    BY <1>0, <1>1 DEF RequestTaskOK, RequestInv
  <2>2. /\ r \in AccessRequest /\ r.submitted = request[u].submitted /\ r.status = request[u].status
        /\ seen.status = "pending" /\ seen.confirmed /\ seen.submitted \in BOOLEAN
    BY <2>1 DEF AccessRequest
  <2>3. /\ request' = [request EXCEPT ![u] = r] /\ tasks' \subseteq tasks
        /\ told' = [told EXCEPT ![u] = @ \/ Ready(seen)]
    BY <1>1 DEF Confirm, TellIfReady
  <2>4. Ready(seen) \in BOOLEAN /\ (Ready(r) /\ ~r.submitted => Ready(seen))
    BY <2>2 DEF Ready
  <2>. HIDE DEF r, seen
  <2>5. /\ told' \in [Users -> BOOLEAN] /\ \A v \in Users \ {u} : told'[v] = told[v]
        /\ Ready(seen) => told'[u]
        /\ told[u] => told'[u]
    BY <2>1, <2>3, <2>4 DEF RequestInv
  <2>6. r.submitted => told'[u]
    BY <2>1, <2>2, <2>5 DEF RequestInv
  <2>. QED
    BY <2>1, <2>2, <2>3, <2>4, <2>5, <2>6, SaveRequest
<1>2. CASE t.kind = "submit" /\ Submit(t)
  <2>. DEFINE r == [request[u] EXCEPT !.submitted = TRUE]
              seen == [t.read EXCEPT !.submitted = TRUE]
  <2>1. u \in Users /\ t.read \in AccessRequest /\ t.read.status = "pending" /\ t.read.confirmed
        /\ request[u] \in AccessRequest
    BY <1>0, <1>2 DEF RequestTaskOK, RequestInv
  <2>2. /\ r \in AccessRequest /\ seen.status = "pending" /\ seen.confirmed /\ seen.submitted
    BY <2>1 DEF AccessRequest
  <2>3. /\ request' = [request EXCEPT ![u] = r] /\ tasks' \subseteq tasks
        /\ told' = [told EXCEPT ![u] = @ \/ Ready(seen)]
    BY <1>2 DEF Submit, TellIfReady
  <2>4. Ready(seen)
    BY <2>2 DEF Ready
  <2>. HIDE DEF r, seen
  <2>5. /\ told' \in [Users -> BOOLEAN] /\ \A v \in Users \ {u} : told'[v] = told[v]
        /\ told'[u]
    BY <2>1, <2>3, <2>4 DEF RequestInv
  <2>. QED
    BY <2>1, <2>2, <2>3, <2>5, SaveRequest
<1>3. ASSUME NEW status \in {"approved", "rejected"}, u \in Users, UNCHANGED told, tasks' \subseteq tasks,
             request' = [request EXCEPT ![u].status = status]
      PROVE  RequestInv'
  <2>. DEFINE r == [request[u] EXCEPT !.status = status]
  <2>1. request[u] \in AccessRequest
    BY <1>3 DEF RequestInv
  <2>2. r \in AccessRequest /\ r.status = status /\ r.submitted = request[u].submitted
    BY <2>1 DEF AccessRequest
  <2>3. ~Ready(r) /\ request' = [request EXCEPT ![u] = r]
    BY <1>3, <2>2 DEF Ready
  <2>4. told \in [Users -> BOOLEAN] /\ (request[u].submitted => told[u])
    BY <1>3 DEF RequestInv
  <2>. HIDE DEF r
  <2>. QED
    BY <1>3, <2>2, <2>3, <2>4, SaveRequest
<1>4. CASE (t.kind = "approve" /\ Approve(t)) \/ (t.kind = "reject" /\ Reject(t))
  <2>1. u \in Users /\ UNCHANGED told /\ tasks' \subseteq tasks
    BY <1>0, <1>4 DEF RequestTaskOK, Approve, Reject
  <2>. QED
    BY <1>3, <1>4, <2>1 DEF Approve, Reject
<1>5. CASE t.kind = "deleteAccount" /\ DeleteAccount(t)
  <2>1. u \in Users
    BY <1>0, <1>5 DEF RequestTaskOK
  <2>2. /\ request' = [request EXCEPT ![u] = NoRequest] /\ told' = [told EXCEPT ![u] = FALSE]
        /\ tasks' \subseteq tasks
    BY <1>5 DEF DeleteAccount
  <2>3. NoRequest \in AccessRequest /\ ~NoRequest.submitted /\ ~Ready(NoRequest)
    BY DEF NoRequest, AccessRequest, Ready
  <2>4. told' \in [Users -> BOOLEAN] /\ \A v \in Users \ {u} : told'[v] = told[v]
    BY <2>2 DEF RequestInv
  <2>. QED
    BY <2>1, <2>2, <2>3, <2>4, SaveRequest
<1>6. CASE UNCHANGED <<request, told>> /\ tasks' \subseteq tasks
  BY <1>6, RequestsLeft
<1>. QED
  BY <1>1, <1>2, <1>4, <1>5, <1>6 DEF Finish, Renew, Close, Refused, BackOfficeWrite

LEMMA RequestStep ==
  ASSUME RequestInv, [Next]_vars
  PROVE  RequestInv'
<1>1. CASE UNCHANGED vars
  BY <1>1, RequestsLeft DEF vars
<1>2. CASE Next
  <2>0. UNCHANGED deployment
    BY <1>2 DEF Next
  <2>1. ASSUME NEW u \in Users, NEW a \in Users,
               \/ FirstRunSetup(u) \/ LeaveWorkspace(u) \/ DeleteWorkspaceView(u)
               \/ GrantSuperuser(a, u) \/ RevokeSuperuser(a, u)
               \/ CreateTenant(a, u) \/ RemoveSomeone(a, u)
               \/ \E r \in Roles : ChangeMemberRole(a, u, r)
               \/ \E r \in RolesGiven : InviteNew(a, u, r)
        PROVE  RequestInv'
    <3>1. UNCHANGED <<request, told>> /\ tasks' \subseteq tasks
      BY <2>1 DEF FirstRunSetup, CreateFirstAdmin, DeleteWorkspaceView, DeleteWorkspace,
         LeaveWorkspace, RemoveMember, GrantSuperuser, RevokeSuperuser, CreateTenant,
         CreateWorkspace, RemoveSomeone, ChangeMemberRole, ChangeRole, InviteNew, Settle
    <3>. QED
      BY <2>0, <3>1, RequestsLeft
  <2>2. ASSUME NEW u \in Users, PasswordSignUp(u) \/ ProviderSignUp(u) PROVE RequestInv'
    BY <2>0, <2>2, RegisterRequest DEF PasswordSignUp, ProviderSignUp
  <2>3. ASSUME NEW u \in Users, NEW i \in 1..MaxInvites,
               AcceptInvitation(i, u) \/ RespondUserInactive(i, u) \/ SignUpAndAccept(i, u)
        PROVE  RequestInv'
    BY <2>0, <2>3, LetInRequest DEF AcceptInvitation, RespondUserInactive, SignUpAndAccept, Accept
  <2>4. ASSUME NEW i \in 1..MaxInvites, Expire(i) PROVE RequestInv'
    BY <2>0, <2>4, RequestsLeft DEF Expire, Settle
  <2>5. ASSUME NEW u \in Users, NEW a \in Users,
               \/ BeginConfirm(u) \/ BeginSubmit(u) \/ BeginBackOffice(u)
               \/ \E i \in 1..MaxInvites : BeginClose(u, i)
               \/ \E r \in RolesGiven : BeginRenew(a, u, r) \/ BeginReview(a, u, r)
        PROVE  RequestInv'
    <3>1. PICK t : Begin(t) /\ RequestTaskOK(t)
      <4>1. CASE BeginConfirm(u) \/ BeginSubmit(u)
        BY <4>1 DEF BeginConfirm, BeginSubmit, NeedsForm, RequestTaskOK, RequestInv
      <4>2. CASE BeginBackOffice(u)
        BY <4>2 DEF BeginBackOffice, Deed, RequestTaskOK
      <4>3. CASE \E i \in 1..MaxInvites : BeginClose(u, i)
        BY <4>3 DEF BeginClose, RequestTaskOK
      <4>4. CASE \E r \in RolesGiven : BeginRenew(a, u, r)
        BY <4>4 DEF BeginRenew, RequestTaskOK
      <4>5. ASSUME NEW r \in RolesGiven, BeginReview(a, u, r)
            PROVE  \E t : Begin(t) /\ RequestTaskOK(t)
        BY <4>5 DEF BeginReview, RequestTaskOK
      <4>. QED
        BY <2>5, <4>1, <4>2, <4>3, <4>4, <4>5
    <3>. QED
      BY <2>0, <3>1, BeginRequest
  <2>6. ASSUME NEW t \in tasks, Finish(t) PROVE RequestInv'
    BY <2>0, <2>6, FinishRequest
  <2>. QED
    BY <1>2, <2>1, <2>2, <2>3, <2>4, <2>5, <2>6 DEF Next
<1>. QED
  BY <1>1, <1>2

LEMMA RequestInvariant == Spec => []RequestInv
<1>1. Init => RequestInv
  BY DEF Init, RequestInv, ReadyRequestsAreTold, Ready, NoRequest, AccessRequest
<1>2. ASSUME RequestInv, [Next]_vars PROVE RequestInv'
  BY <1>2, RequestStep
<1>. QED
  BY <1>1, <1>2, PTL DEF Spec

\* A request that is ready was put to the superusers, whichever of the steps
\* that complete it came last and whatever row it had loaded.
THEOREM ReadyRequestsAreToldHolds == Spec => []ReadyRequestsAreTold
<1>1. RequestInv => ReadyRequestsAreTold
  BY DEF RequestInv
<1>. QED
  BY <1>1, RequestInvariant, PTL
-----------------------------------------------------------------------------
(* Everybody inside was let in *)

\* u was let in: it set the deployment up, its request was approved, or it took
\* an invitation, which may have gone with its workspace.
Vouched(u) ==
  \/ u = first \/ request[u].status = "approved"
  \/ \E i \in 1..MaxInvites : invites[i].acceptedBy = u
  \/ \E i \in 1..MaxInvites : invites[i].status = "gone"

VouchInv ==
  /\ account \in [Users -> Statuses] /\ request \in [Users -> AccessRequest]
  /\ \A t \in tasks : RequestTaskOK(t)
  /\ InviteInv
  /\ gated => \A u \in Users : Active(u) => Vouched(u)

\* What a step does to the invitations that vouch for somebody.
InvitesVouch(u) ==
  \A i \in 1..MaxInvites :
    /\ invites[i].acceptedBy = u => invites'[i].acceptedBy = u \/ invites'[i].status = "gone"
    /\ invites[i].status = "gone" => invites'[i].status = "gone"

\* What keeps a person vouched for.
LEMMA StillVouched ==
  ASSUME InviteInv, NEW u \in Users, Vouched(u),
         u = first => u = first',
         request[u].status = "approved" => request'[u].status = "approved",
         InvitesVouch(u)
  PROVE  Vouched(u)'
BY DEF Vouched, InvitesVouch

LEMMA InvitesKeepVouching ==
  ASSUME InviteInv, account \in [Users -> Statuses], [Next]_vars, NEW u \in Users, Active(u)'
  PROVE  InvitesVouch(u)
<1>1. CASE UNCHANGED invites
  BY <1>1 DEF InvitesVouch
<1>2. ASSUME NEW a \in Users, DeleteWorkspaceView(a) PROVE InvitesVouch(u)
  <2>1. u # NoOne
    BY PeopleAssumption
  <2>2. \A i \in 1..MaxInvites : invites[i].acceptedBy = u => invites[i].status # "none"
    BY <2>1 DEF InviteInv
  <2>. QED
    BY <1>2, <2>2 DEF DeleteWorkspaceView, DeleteWorkspace, NoInvite, InvitesVouch
<1>3. ASSUME NEW a \in Users, NEW j \in 1..MaxInvites, Accept(j, a) PROVE InvitesVouch(u)
  <2>1. Pending(j) /\ invites[j] \in Invitation /\ invites[j].acceptedBy = NoOne
    BY <1>3 DEF Accept, OpenFor, InviteInv, Pending
  <2>2. \A i \in 1..MaxInvites \ {j} : invites'[i] = invites[i]
    BY <1>3 DEF Accept, InviteInv
  <2>. QED
    BY <2>1, <2>2, PeopleAssumption DEF InvitesVouch, Pending
<1>4. ASSUME NEW j \in 1..MaxInvites, Expire(j) PROVE InvitesVouch(u)
  <2>1. invites' = [invites EXCEPT ![j].open = FALSE] /\ invites[j] \in Invitation
    BY <1>4 DEF Expire, InviteInv
  <2>. QED
    BY <2>1 DEF InvitesVouch, InviteInv, Invitation
<1>5. ASSUME NEW a \in Users, NEW w \in Users, NEW r \in RolesGiven, InviteNew(a, w, r)
      PROVE  InvitesVouch(u)
  <2>1. PICK j \in DOMAIN invites :
          /\ invites[j].status = "none"
          /\ invites' = [invites EXCEPT ![j] =
               [status |-> "pending", to |-> w, role |-> r, open |-> TRUE, acceptedBy |-> NoOne]]
    BY <1>5 DEF InviteNew
  <2>2. j \in 1..MaxInvites /\ invites[j].acceptedBy = NoOne
        /\ \A i \in 1..MaxInvites \ {j} : invites'[i] = invites[i]
    BY <2>1 DEF InviteInv
  <2>. QED
    BY <2>1, <2>2, PeopleAssumption DEF InvitesVouch
<1>6. ASSUME NEW t \in tasks, Finish(t) PROVE InvitesVouch(u)
  <2>1. InviteTaskOK(t)
    BY DEF InviteInv
  <2>2. CASE (t.kind = "renew" /\ Renew(t)) \/ (t.kind = "close" /\ Close(t))
    <3>1. /\ t.inv \in 1..MaxInvites /\ invites[t.inv] \in Invitation
          /\ invites[t.inv].status \notin {"none", "gone"}
      BY <2>1, <2>2 DEF InviteTaskOK, InviteInv
    <3>2. CASE Renew(t)
      <4>1. invites' = [invites EXCEPT ![t.inv] =
                          [@ EXCEPT !.status = "pending", !.role = t.role, !.open = TRUE]]
        BY <3>1, <3>2 DEF Renew, InviteInv
      <4>. QED
        BY <3>1, <4>1 DEF InvitesVouch, InviteInv, Invitation
    <3>3. CASE Close(t)
      <4>1. invites' = [invites EXCEPT ![t.inv] = [@ EXCEPT !.status = t.as]]
        BY <3>1, <3>3 DEF Close, InviteInv
      <4>. QED
        BY <3>1, <4>1 DEF InvitesVouch, InviteInv, Invitation
    <3>. QED
      BY <2>2, <3>2, <3>3
  <2>3. CASE t.kind = "deleteAccount" /\ DeleteAccount(t)
    <3>1. u # t.user
      BY <2>3 DEF DeleteAccount, Active
    <3>2. \A i \in 1..MaxInvites :
            invites'[i] = [invites[i] EXCEPT !.acceptedBy = IF @ = t.user THEN NoOne ELSE @]
      BY <2>3 DEF DeleteAccount, InviteInv
    <3>3. \A i \in 1..MaxInvites : invites[i] \in Invitation
      BY DEF InviteInv
    <3>4. \A i \in 1..MaxInvites : /\ invites'[i].status = invites[i].status
                                   /\ invites[i].acceptedBy = u => invites'[i].acceptedBy = u
      BY <3>1, <3>2, <3>3 DEF Invitation
    <3>. QED
      BY <3>4 DEF InvitesVouch
  <2>. QED
    BY <1>1, <1>6, <2>2, <2>3 DEF Finish, Confirm, Submit, Approve, Reject, Refused, BackOfficeWrite
<1>8. ASSUME NEW w \in Users, NEW a \in Users,
             \/ FirstRunSetup(w) \/ PasswordSignUp(w) \/ ProviderSignUp(w) \/ LeaveWorkspace(w)
             \/ BeginConfirm(w) \/ BeginSubmit(w) \/ BeginBackOffice(w)
             \/ \E j \in 1..MaxInvites : BeginClose(w, j)
             \/ \/ GrantSuperuser(a, w) \/ RevokeSuperuser(a, w)
                \/ CreateTenant(a, w) \/ RemoveSomeone(a, w)
                \/ \E r \in Roles : ChangeMemberRole(a, w, r)
                \/ \E r \in RolesGiven : BeginRenew(a, w, r) \/ BeginReview(a, w, r)
      PROVE  UNCHANGED invites
  BY <1>8 DEF FirstRunSetup, CreateFirstAdmin, PasswordSignUp, ProviderSignUp, Register,
     LeaveWorkspace, RemoveMember, GrantSuperuser, RevokeSuperuser, CreateTenant, CreateWorkspace,
     RemoveSomeone, ChangeMemberRole, ChangeRole, Settle, BeginConfirm, BeginSubmit, BeginBackOffice,
     BeginClose, BeginRenew, BeginReview, Begin
<1>9. CASE \E a \in Users, j \in 1..MaxInvites :
             AcceptInvitation(j, a) \/ RespondUserInactive(j, a) \/ SignUpAndAccept(j, a)
  BY <1>3, <1>9 DEF AcceptInvitation, RespondUserInactive, SignUpAndAccept
<1>10. CASE UNCHANGED vars
  BY <1>1, <1>10 DEF vars
<1>. QED
  BY <1>1, <1>2, <1>4, <1>5, <1>6, <1>8, <1>9, <1>10 DEF Next

LEMMA VouchStep ==
  ASSUME VouchInv, [Next]_vars, gated, NEW u \in Users, Active(u)'
  PROVE  Vouched(u)'
<1>. USE DEF VouchInv
<1>0. InvitesVouch(u)
  BY InvitesKeepVouching
<1>1. ASSUME Active(u), u = first => u = first',
             request[u].status = "approved" => request'[u].status = "approved"
      PROVE  Vouched(u)'
  BY <1>0, <1>1, StillVouched
<1>2. CASE UNCHANGED <<account, request, first>>
  BY <1>1, <1>2 DEF Active
<1>3. ASSUME NEW v \in Users, FirstRunSetup(v) PROVE Vouched(u)'
  BY <1>3 DEF FirstRunSetup, CreateFirstAdmin, SetupRequired, Active, Vouched
<1>4. ASSUME NEW v \in Users, PasswordSignUp(v) \/ ProviderSignUp(v) PROVE Vouched(u)'
  <2>1. /\ account' = [account EXCEPT ![v] = "inactive"] /\ UNCHANGED first
        /\ \E confirmed : OpenAccessRequest(v, confirmed)
    BY <1>4 DEF PasswordSignUp, ProviderSignUp, Register, SignUpStatus
  <2>2. u # v /\ account'[u] = account[u] /\ request'[u] = request[u]
    BY <2>1 DEF Active, OpenAccessRequest
  <2>. QED
    BY <1>1, <2>1, <2>2 DEF Active
<1>5. ASSUME NEW v \in Users, NEW j \in 1..MaxInvites, Accept(j, v) PROVE Vouched(u)'
  <2>1. CASE u = v
    <3>1. invites[j] \in Invitation /\ invites'[j].acceptedBy = v
      BY <1>5 DEF Accept, InviteInv, Invitation
    <3>. QED
      BY <2>1, <3>1 DEF Vouched
  <2>2. CASE u # v
    <3>1. account'[u] = account[u] /\ request'[u] = request[u] /\ UNCHANGED first
      BY <1>5, <2>2 DEF Accept, LetIn
    <3>. QED
      BY <1>1, <3>1 DEF Active
  <2>. QED
    BY <2>1, <2>2
<1>6. ASSUME NEW t \in tasks, Finish(t) PROVE Vouched(u)'
  <2>0. RequestTaskOK(t)
    OBVIOUS
  <2>1. CASE (t.kind = "confirm" /\ Confirm(t)) \/ (t.kind = "submit" /\ Submit(t))
    <3>1. t.user \in Users /\ request[t.user] \in AccessRequest /\ UNCHANGED <<account, first>>
      BY <2>0, <2>1 DEF RequestTaskOK, Confirm, Submit
    <3>2. request'[u].status = request[u].status
      BY <2>1, <3>1 DEF Confirm, Submit, AccessRequest
    <3>. QED
      BY <1>1, <3>1, <3>2 DEF Active
  <2>2. CASE t.kind = "approve" /\ Approve(t)
    <3>1. t.user \in Users /\ request[t.user] \in AccessRequest /\ UNCHANGED first
      BY <2>0, <2>2 DEF RequestTaskOK, Approve
    <3>2. CASE u = t.user
      BY <2>2, <3>1, <3>2 DEF Approve, AccessRequest, Vouched
    <3>3. CASE u # t.user
      BY <1>1, <2>2, <3>1, <3>3 DEF Approve, Active
    <3>. QED
      BY <3>2, <3>3
  <2>3. CASE t.kind = "reject" /\ Reject(t)
    <3>1. t.user \in Users /\ UNCHANGED first
      BY <2>0, <2>3 DEF RequestTaskOK, Reject
    <3>2. u # t.user
      BY <2>3, <3>1 DEF Reject, Rejected, Active
    <3>. QED
      BY <1>1, <2>3, <3>1, <3>2 DEF Reject, Rejected, Active
  <2>4. CASE t.kind = "deleteAccount" /\ DeleteAccount(t)
    <3>1. u # t.user
      BY <2>4 DEF DeleteAccount, Active
    <3>2. /\ account'[u] = account[u] /\ request'[u] = request[u]
          /\ u = first => u = first'
      BY <2>4, <3>1 DEF DeleteAccount
    <3>. QED
      BY <1>1, <3>2 DEF Active
  <2>5. CASE t.kind # "deleteAccount" /\ BackOfficeWrite(t)
    <3>1. /\ account' = account \/ account' = [account EXCEPT ![t.user] = "inactive"]
          /\ UNCHANGED <<request, first>>
      BY <2>5 DEF BackOfficeWrite
    <3>2. Active(u)
      BY <3>1 DEF Active
    <3>. QED
      BY <1>1, <3>1, <3>2
  <2>. QED
    BY <1>2, <1>6, <2>1, <2>2, <2>3, <2>4, <2>5 DEF Finish, Renew, Close, Refused, BackOfficeWrite
<1>7. ASSUME NEW w \in Users, NEW a \in Users,
             \/ DeleteWorkspaceView(w) \/ LeaveWorkspace(w)
             \/ BeginConfirm(w) \/ BeginSubmit(w) \/ BeginBackOffice(w)
             \/ \E j \in 1..MaxInvites : BeginClose(w, j) \/ Expire(j)
             \/ \/ GrantSuperuser(a, w) \/ RevokeSuperuser(a, w)
                \/ CreateTenant(a, w) \/ RemoveSomeone(a, w)
                \/ \E r \in Roles : ChangeMemberRole(a, w, r)
                \/ \E r \in RolesGiven : InviteNew(a, w, r) \/ BeginRenew(a, w, r) \/ BeginReview(a, w, r)
      PROVE  UNCHANGED <<account, request, first>>
  BY <1>7 DEF DeleteWorkspaceView, DeleteWorkspace,
     LeaveWorkspace, RemoveMember, GrantSuperuser, RevokeSuperuser, CreateTenant, CreateWorkspace,
     RemoveSomeone, ChangeMemberRole, ChangeRole, Settle, BeginConfirm, BeginSubmit, BeginBackOffice,
     BeginClose, BeginRenew, BeginReview, Begin, Expire, InviteNew
<1>8. CASE UNCHANGED vars
  BY <1>2, <1>8 DEF vars
<1>9. CASE Next
  <2>1. CASE \E v \in Users, i \in 1..MaxInvites :
               AcceptInvitation(i, v) \/ RespondUserInactive(i, v) \/ SignUpAndAccept(i, v)
    BY <1>5, <2>1 DEF AcceptInvitation, RespondUserInactive, SignUpAndAccept
  <2>2. CASE \E i \in 1..MaxInvites : Expire(i)
    BY <1>2, <2>2 DEF Expire, Settle
  <2>. QED
    BY <1>2, <1>3, <1>4, <1>6, <1>7, <1>9, <2>1, <2>2 DEF Next
<1>. QED
  BY <1>8, <1>9

\* On a gated deployment nobody is inside whom nobody let in, however reviews,
\* invitations, deletions and deactivations cross.
THEOREM EveryAccountIsVouchedForHolds == Spec => []EveryAccountIsVouchedFor
<1>1. Init => (gated => \A u \in Users : Active(u) => Vouched(u))
  BY DEF Init, Active
<1>2. ASSUME ChargeInv, ChargeInv', RequestInv, RequestInv', InviteInv, InviteInv', [Next]_vars,
             gated => \A u \in Users : Active(u) => Vouched(u)
      PROVE  (gated => \A u \in Users : Active(u) => Vouched(u))'
  <2>1. gated' => gated
    BY <1>2 DEF Next, gated, vars
  <2>2. gated => VouchInv
    BY <1>2 DEF VouchInv, ChargeInv, RequestInv
  <2>. QED
    BY <1>2, <2>1, <2>2, VouchStep
<1>3. ASSUME InviteInv, gated => \A u \in Users : Active(u) => Vouched(u)
      PROVE  EveryAccountIsVouchedFor
  BY <1>3 DEF EveryAccountIsVouchedFor, Vouched, InviteInv
<1>. QED
  BY <1>1, <1>2, <1>3, ChargeInvariant, InviteInvariant, RequestInvariant, PTL DEF Spec
=============================================================================
