----------------------------- MODULE MCDispatch -----------------------------
(* Small instances of Dispatch: who writes what to the bot. *)
EXTENDS DispatchInv

\* Two operators on the allowlist and a stranger.
MCChats == {"ann", "bob", "eve"}
MCAllowlist == {"ann", "bob"}

Writes(chat, mid, body) == [chat |-> chat, mid |-> mid, body |-> body]

\* Two messages of their own ids; two that share message_id 1, because ann
\* edited hers or bob's chat counted up to the same number; and a stranger's.
Pairs ==
    { << Writes("ann", 1, "text"), Writes("ann", 2, "text") >>,
      << Writes("ann", 1, "text"), Writes("ann", 2, "end") >>,
      << Writes("ann", 1, "text"), Writes("ann", 1, "text") >>,
      << Writes("ann", 1, "text"), Writes("bob", 1, "text") >>,
      << Writes("eve", 1, "text"), Writes("ann", 2, "text") >> }

Single == { << Writes("ann", 1, "text") >> }

\* Conversations: follow-ups, a read-only command, /end and /new in between,
\* and another operator's messages.
Conversations ==
    { << Writes("ann", 1, "text"), Writes(c, 2, y), Writes("ann", 3, "text") >> :
        c \in {"ann", "bob"}, y \in {"text", "end"} }
    \union
    { << Writes("ann", 1, "query"), Writes("ann", 2, "text"), Writes("ann", 3, y) >> :
        y \in {"text", "new"} }
=============================================================================
