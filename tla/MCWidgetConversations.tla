----------------------- MODULE MCWidgetConversations -----------------------
(***************************************************************************)
(* Model-checking instance of WidgetConversations.                         *)
(***************************************************************************)
EXTENDS WidgetConversations, TLC

\* The widget opens on a resolved conversation, or on none that it creates.
MCFirstStatuses == {"resolved","none"}

=============================================================================
