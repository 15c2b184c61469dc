--------------------------- MODULE MCUserAccounts ---------------------------
(* Instances of UserAccounts. *)
EXTENDS UserAccounts

SameAsId == [u \in Users |-> u]
SomePerms == {"users:write", "users:delete", "roles:write"}
NoneOrAll == {{}, SomePerms}

\* Two situations to begin with, since edits of roles and further users multiply:
\* either the roles stay as they are seeded, or the other users have come and
\* gone, and their persons are what is left of them.
EitherInit ==
    /\ Bootstrapped
    /\ \/ /\ fresh = Users \ {FirstAdmin}
          /\ persons = {FirstAdmin}
          /\ roleWrites = MaxRoleWrites
       \/ /\ fresh = {}
          /\ persons = Users
          /\ roleWrites = 0

EitherSpec ==
    /\ EitherInit
    /\ [][AccountsNext]_accountVars
    /\ AccountsFairness

\* Requests that deactivate a user, which nothing forbids for the last
\* administrator, are left aside: administrators can only be lost by deletions.
NobodyDeactivated == \A q \in Reqs : At(q, "save") => reqs[q].row.active

DeletionSpec ==
    /\ AccountsInit
    /\ [][AccountsNext /\ NobodyDeactivated']_accountVars
    /\ AccountsFairness
=============================================================================
