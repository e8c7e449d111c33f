--------------------------- MODULE MCConversation ---------------------------
(* Instances of Conversation for TLC.  Where a page load lost a message or *)
(* an edit went wrong the properties say nothing until the session is read *)
(* again, so such states are not left but for an edit that will be dropped.*)
EXTENDS Conversation

Followed ==
  /\ excuse \cap {"lost", "overtaken", "unanswered"} = {}
  /\ "sent" \in excuse => edit # NoEdit
=============================================================================
