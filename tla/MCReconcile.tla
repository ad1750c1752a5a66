---------------------------- MODULE MCReconcile ----------------------------
(***************************************************************************)
(* Small instances of Reconcile for TLC.                                   *)
(***************************************************************************)
EXTENDS Reconcile

CONSTANTS ann, bob, beat, post

\* ann's second message cannot be parsed.
MCBroken == {<<ann, 2>>}
=============================================================================
