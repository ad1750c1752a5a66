------------------------------ MODULE MCIngest ------------------------------
(***************************************************************************)
(* Small instances of Ingest for TLC.                                      *)
(***************************************************************************)
EXTENDS Ingest, TLC

CONSTANTS m1, m2, m3, m4, n1, h1, h2, j1, ann, bob

\* ann's chat: an inbound message, a later outbound one, one that cannot be
\* parsed.  bob's: one inbound message.
MCChatOf == [m \in Messages |-> IF m = m4 THEN bob ELSE ann]
MCAt == [m \in Messages |-> IF m \in {m2, m3} THEN 2 ELSE 1]

Interchangeable == Permutations(Hooks)
=============================================================================
