----------------------------- MODULE MCBotQueue -----------------------------
(* Instances of BotQueue for TLC.                                          *)
EXTENDS BotQueue

CONSTANTS r1, r2, r3, r4, alice, bob

\* Two requests of each of two chats.
TwoChats == [r \in Requests |-> IF r \in {r3, r4} THEN bob ELSE alice]
=============================================================================
