------------------------------- MODULE MCBlast -------------------------------
(***************************************************************************)
(* Small instances of Blast for TLC.                                       *)
(***************************************************************************)
EXTENDS Blast, TLC

CONSTANTS c1, c2, r1, r2, ann, bob, w1, w2

\* One campaign with two recipients, created by ann.
OneCampaignOf == [r \in {r1, r2} |-> c1]
OneCreatorOf == [c \in {c1} |-> ann]

\* Two campaigns with one recipient each; ann created one, bob the other.
TwoCampaignOf == r1 :> c1 @@ r2 :> c2
TwoCreatorOf == c1 :> ann @@ c2 :> bob

WorkersAndRecipients == Permutations({w1, w2}) \cup Permutations({r1, r2})
=============================================================================
