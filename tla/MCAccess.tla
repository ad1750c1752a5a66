------------------------------- MODULE MCAccess -------------------------------
(***************************************************************************)
(* Small instances of Access for TLC.                                      *)
(***************************************************************************)
EXTENDS Access, TLC

CONSTANTS root, ann, ben, east, west, r1, r2, adm, snd, q1, q2

GlobalAdmin == [scopes |-> {adm, snd}, global |-> TRUE, admin |-> FALSE]
OfficeAdmin == [scopes |-> {adm}, global |-> FALSE, admin |-> TRUE]
Operator == [scopes |-> {snd}, global |-> FALSE, admin |-> FALSE]
MCShapes == {GlobalAdmin, OfficeAdmin, Operator}

Asking(asks, r, o) == [asks |-> asks, role |-> r, office |-> o]
MCBodies == {Asking("active", NoRole, NoOffice), Asking("inactive", r2, west),
             Asking("keep", r1, NoOffice), Asking("keep", r2, east)}

\* A running system: the administrator of an Office and an operator of the
\* other one, or a global administrator, a newcomer and a role yet to be made.
MCInit ==
    /\ Init
    /\ acct[ann] = "active"
    /\ \/ /\ role[r1] = OfficeAdmin /\ member[ann] = [role |-> r1, office |-> east]
          /\ role[r2] = Operator /\ member[ben] = [role |-> r2, office |-> west] /\ acct[ben] = "active"
       \/ /\ role[r1] = GlobalAdmin /\ member[ann] = [role |-> r1, office |-> NoOffice]
          /\ role[r2] = Unused /\ acct[ben] = "absent"
MCSpec == MCInit /\ [][Next]_vars

\* Bound: of two requests under way together, none is killed half-way through
\* the groups (what is said of two such requests is no weaker for it).
Bound == overlap => owed = {}
MCSymmetry == Permutations({q1, q2})
=============================================================================
