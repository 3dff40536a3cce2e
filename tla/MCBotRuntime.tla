---------------------------- MODULE MCBotRuntime ----------------------------
\* One event of every kind, through two processes.
EXTENDS BotRuntime, TLC

CONSTANTS link, permission, text, chat

MCKind == (link :> "link") @@ (permission :> "permission") @@ (text :> "text")
            @@ (chat :> "chat")
=============================================================================
