------------------------------- MODULE Ledger -------------------------------
(***************************************************************************)
(* The sqlite ledger (src/harness/db.py over migrations/0001_init.sql): a  *)
(* variable per table and an operator per method of class Ledger.  Every   *)
(* method commits under one write lock, so a method is one atomic action.  *)
(*                                                                         *)
(* Row ids are AUTOINCREMENT: the id of an engagement or session is its    *)
(* position in the table.  A message row is found by its idempotency key   *)
(* channel_msg_id (channel_kind is always 'telegram'); "absent" is the     *)
(* status of a key with no row.  0 stands for NULL in every id column, and *)
(* in claude_session_id also for an id that names no conversation.         *)
(*                                                                         *)
(* No caller of touch_engagement exists, so last_activity_at stays what    *)
(* the INSERT set and engagements leave the idle window in the order they  *)
(* were created: `expired` counts those that have left it.                 *)
(***************************************************************************)
EXTENDS Naturals, Sequences

CONSTANTS
    Chats,      \* Telegram chats; the operator id of a chat is the chat
    MsgIds      \* Telegram message ids, the values of channel_msg_id

VARIABLES
    operators,      \* operator ids with a row
    engagements,    \* engagement table: operator, ended_at set?, current_session_id
    sessions,       \* session table: engagement, claude_session_id, status
    messages,       \* message table by channel_msg_id
    expired         \* engagements 1..expired are outside the idle window

tables == <<operators, engagements, sessions, messages>>
ledger == <<tables, expired>>

Pending == {"received", "classifying"}        \* what list_pending_on_startup selects
Unsettled == Pending \union {"routed"}
Settled == {"done", "failed"}
Open == {"spawning", "running"}               \* sessions not finalized
Final == {"completed", "failed"}

NoRow == [status |-> "absent", upd |-> 0, eng |-> 0, sess |-> 0]

LedgerInit ==
    /\ operators = {}
    /\ engagements = <<>>
    /\ sessions = <<>>
    /\ messages = [m \in MsgIds |-> NoRow]
    /\ expired = 0

-----------------------------------------------------------------------------
(* operator *)

UpsertOperator(op) ==
    /\ operators' = operators \union {op}
    /\ UNCHANGED <<engagements, sessions, messages, expired>>

-----------------------------------------------------------------------------
(* engagement *)

\* Slip: the WHERE clause without "ended_at IS NULL".
CandidatesEndedToo(op) ==
    {e \in DOMAIN engagements : engagements[e].operator = op /\ e > expired}

\* The rows get_active_engagement selects, and its ORDER BY ... LIMIT 1: the
\* latest of them, or 0 for None.
Candidates(op) ==
    {e \in DOMAIN engagements : /\ engagements[e].operator = op
                                /\ ~ engagements[e].ended
                                /\ e > expired}

\* Slip: an inner join with session, which loses engagements without one.
ActiveEngagementJoined(op, e) ==
    LET joined == {f \in Candidates(op) : engagements[f].current # 0} IN
    \/ e = 0 /\ joined = {}
    \/ e \in joined /\ \A f \in joined : f =< e

ActiveEngagement(op, e) ==
    \/ e = 0 /\ Candidates(op) = {}
    \/ e \in Candidates(op) /\ \A f \in Candidates(op) : f =< e

CreateEngagement(op) ==
    /\ engagements' = Append(engagements, [operator |-> op, ended |-> FALSE, current |-> 0])
    /\ UNCHANGED <<operators, sessions, messages, expired>>

EndEngagement(e) ==
    /\ engagements' = [engagements EXCEPT ![e].ended = TRUE]
    /\ UNCHANGED <<operators, sessions, messages, expired>>

\* The idle window of the oldest engagements still inside it elapses.
Expire ==
    /\ expired' \in (expired + 1)..Len(engagements)
    /\ UNCHANGED tables

-----------------------------------------------------------------------------
(* session *)

NextSession == Len(sessions) + 1

InsertSession(e) ==
    /\ sessions' = Append(sessions, [eng |-> e, claude |-> 0, status |-> "spawning"])
    /\ UNCHANGED <<operators, messages, expired>>

\* One transaction: the row, and the engagement's current_session_id.
CreateSession(e) ==
    /\ InsertSession(e)
    /\ engagements' = [engagements EXCEPT ![e].current = NextSession]

\* Its second statement raises: nothing rolls back, so the next commit of any
\* method keeps the row, which no engagement points to.
HalfSession(e) ==
    /\ InsertSession(e)
    /\ UNCHANGED engagements

\* Slip: the UPDATE goes to the latest session instead of the one given.
AttachClaudeLatest(s, id) ==
    /\ sessions' = [sessions EXCEPT ![Len(sessions)].claude = id,
                                    ![Len(sessions)].status = "running"]
    /\ UNCHANGED <<operators, engagements, messages, expired>>

AttachClaude(s, id) ==
    /\ sessions' = [sessions EXCEPT ![s].claude = id, ![s].status = "running"]
    /\ UNCHANGED <<operators, engagements, messages, expired>>

FinalizeSession(s, status) ==
    /\ sessions' = [sessions EXCEPT ![s].status = status]
    /\ UNCHANGED <<operators, engagements, messages, expired>>

-----------------------------------------------------------------------------
(* message *)

\* Slip: INSERT OR REPLACE.
IsReplayNever(m) == FALSE

\* Slip: a failed message may be tried again.
IsReplayUnlessFailed(m) == messages[m].status \notin {"absent", "failed"}

\* UNIQUE (channel_kind, channel_msg_id): insert_message returns None.
IsReplay(m) == messages[m].status # "absent"

InsertMessage(m, u) ==
    /\ messages' = [messages EXCEPT ![m] = [status |-> "received", upd |-> u,
                                            eng |-> 0, sess |-> 0]]
    /\ UNCHANGED <<operators, engagements, sessions, expired>>

\* COALESCE keeps a column whose argument is None.
Coalesce(new, old) == IF new = 0 THEN old ELSE new

UpdateMessage(m, status, e, s) ==
    /\ messages' = [messages EXCEPT ![m].status = status,
                                    ![m].eng = Coalesce(e, @),
                                    ![m].sess = Coalesce(s, @)]
    /\ UNCHANGED <<operators, engagements, sessions, expired>>

=============================================================================
