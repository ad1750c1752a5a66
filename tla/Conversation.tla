---------------------------- MODULE Conversation ----------------------------
(***************************************************************************)
(* What the conversation of one chat promises, whatever threads, saves and *)
(* deleted menus are behind it (apps/chats/conversation_engine.py):        *)
(*                                                                         *)
(*   - it is at rest, in the bot's menus, or with the operators, and only  *)
(*     the bot's turn on a message leads from one to the other, except that*)
(*     a close or the expiry ends a handoff;                               *)
(*   - the bot has no turn while the operators have the conversation: a    *)
(*     live handoff is immune to every inbound message;                    *)
(*   - operators get it from the menus, never from a rest, and the turn    *)
(*     that gives it to them ends with that;                               *)
(*   - a turn that starts a round finds the previous one over.             *)
(*                                                                         *)
(* Handoff, with one request served at a time, and Bot implement this      *)
(* specification (Handoff!Talk, Bot!Talk).                                 *)
(***************************************************************************)
VARIABLES phase,   \* who has the conversation
          turn     \* the bot is acting on a message it may act on

conversationVars == <<phase, turn>>

Init == phase = "none" /\ turn = FALSE

\* handle_conversation_message looks at the session: no handoff is waiting.
Take == ~turn /\ phase # "operators" /\ turn' = TRUE /\ UNCHANGED phase

\* The bot's write is its last, or it goes on.
Write(from, to) == turn /\ phase = from /\ phase' = to /\ turn' \in BOOLEAN

\* _start_new_session, or the session of a trigger
Begin == Write("none", "menu")

\* _complete_session, _abandon_active_session, and items that end a round
Leave == Write("menu", "none")

\* A handoff item, or an Office picked.
HandOver == Write("menu", "operators") /\ ~turn'

\* An answer without a change, an error, or the end of the process.
Yield == turn /\ turn' = FALSE /\ UNCHANGED phase

\* close_waiting_session, expire_waiting_operator_session
End == ~turn /\ phase = "operators" /\ phase' = "none" /\ UNCHANGED turn

Next == Take \/ Begin \/ Leave \/ HandOver \/ Yield \/ End

Spec == Init /\ [][Next]_conversationVars
=============================================================================
