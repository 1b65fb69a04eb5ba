--------------------------- MODULE WorkspaceRoles ---------------------------
(***************************************************************************)
(* Who may do what in a workspace (app/domain/workspace_roles.py, the      *)
(* Roster) and among the superusers (app/domain/superusers.py).  A roster  *)
(* is a function from people to their role, "none" for outsiders; supers   *)
(* are the people with the superuser flag, who act as owners everywhere.   *)
(***************************************************************************)
EXTENDS Naturals, FiniteSets

Roles == {"owner", "admin", "member"}
NoRole == "none"

Members(seats) == {u \in DOMAIN seats : seats[u] # NoRole}
Owners(seats) == {u \in DOMAIN seats : seats[u] = "owner"}

\* Actor: its role here, an owner's for a superuser.
ActingRole(seats, supers, a) == IF a \in supers THEN "owner" ELSE seats[a]
ManagesMembers(seats, supers, a) == ActingRole(seats, supers, a) \in {"owner", "admin"}
ManagesOwners(seats, supers, a) == ActingRole(seats, supers, a) = "owner"

\* Mutant of IsLastOwner: the count of owners is not looked at.
NobodyIsLast(seats, u) == FALSE

IsLastOwner(seats, u) == Owners(seats) = {u}

\* The roles a may give a newcomer, and the ones it may give u.
AssignableRoles(seats, supers, a) ==
  {r \in Roles : /\ ManagesMembers(seats, supers, a)
                 /\ r # "owner" \/ ManagesOwners(seats, supers, a)}

AssignableTo(seats, supers, a, u) ==
  {r \in AssignableRoles(seats, supers, a) :
     /\ seats[u] = "owner" => ManagesOwners(seats, supers, a)
     /\ ~IsLastOwner(seats, u)}

\* add and check_invite; admit asks only that the person is not in already.
MayAdd(seats, supers, a, u, r) ==
  seats[u] = NoRole /\ r \in AssignableRoles(seats, supers, a)
MayAdmit(seats, u) == seats[u] = NoRole

MayChangeRole(seats, supers, a, u, r) ==
  /\ seats[u] \notin {NoRole, r}
  /\ ManagesMembers(seats, supers, a)
  /\ "owner" \in {seats[u], r} => ManagesOwners(seats, supers, a)
  /\ ~IsLastOwner(seats, u)

\* remove: of oneself (leaving) or of another.
MayRemove(seats, supers, a, u) ==
  /\ seats[u] # NoRole
  /\ \/ u = a
     \/ /\ ManagesMembers(seats, supers, a)
        /\ seats[u] = "owner" => ManagesOwners(seats, supers, a)
  /\ ~IsLastOwner(seats, u)

\* ensure_can_lose, of a seat and of a superuser who disappear unasked.
SeatCanGo(seats, u) == ~IsLastOwner(seats, u)
SuperuserCanGo(supers, u) == supers # {u}

MayGrantSuperuser(supers, a, u) == a \in supers /\ u \notin supers
MayRevokeSuperuser(supers, a, u) ==
  a \in supers /\ u \in supers /\ SuperuserCanGo(supers, u)

\* The roster of a new workspace: its founder, who owns it.
Found(people, founder) == [u \in people |-> IF u = founder THEN "owner" ELSE NoRole]
=============================================================================
