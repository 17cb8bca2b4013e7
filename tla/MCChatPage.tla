------------------------------ MODULE MCChatPage ------------------------------
(* The page of a pi that resumed a conversation: a prompt, a reply that calls a tool, and the *)
(* tool's result; three messages, so that it takes two frames to show.                        *)
EXTENDS ChatPage

OldTalk == << Item("user", 0), [Item("assistant", 0) EXCEPT !.block = "tool"], Item("result", 0) >>
================================================================================
