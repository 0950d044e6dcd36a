--------------------------- MODULE SessionRecords ---------------------------
(***************************************************************************)
(* The projection session kept by RealAndroidAutoService: the in-memory    *)
(* session state machine, the heartbeat timer and the rows of the          *)
(* `sessions' table of SessionStore.  The module has no variables: each    *)
(* operator takes the bookkeeping record before a call and returns the one *)
(* after it, so that a caller that makes several calls composes them in    *)
(* the order of the code.                                                  *)
(*                                                                         *)
(*   state  m_sessionState                                                 *)
(*   id     m_currentSessionId (NoSession when the string is empty)        *)
(*   beat   m_heartbeatTimer is active                                     *)
(*   rows   the state column of every row; "fresh" for an id that has not  *)
(*          been generated yet, "missing" when its INSERT failed           *)
(*   failing  the UPDATEs the database refuses at present                  *)
(*   stale  history: the sessions whose row differs from what the last     *)
(*          UPDATE of it said, because that was refused                    *)
(*                                                                         *)
(* The service only logs a refused statement and goes on as if it had been *)
(* executed, so memory and rows part.                                      *)
(***************************************************************************)

CONSTANTS
  Sid,        \* session ids a behaviour may generate (bounds the model)
  NoSession,  \* the empty session id
  StoreOpen,  \* SessionStore::initialize succeeded in the constructor
  Refusals    \* the sets of UPDATEs the database may refuse at a time

ASSUME NoSessionAssumption == NoSession \notin Sid
ASSUME StoreOpenAssumption == StoreOpen \in BOOLEAN


\* SUSPENDED is declared by the code and never entered.
SessionState == {"negotiating", "active", "ended", "error"}

\* The UPDATEs: updateSessionState to each state, and endSession.  No event
\* makes one of them twice, so refusing them by name loses no case.
Statement == SessionState \union {"endSession"}

ASSUME RefusalsAssumption == {} \in Refusals /\ Refusals \subseteq SUBSET Statement

\* A row that counts as the device's live session (SessionStore selects
\* state != 'ended').
OpenRow == {"negotiating", "active", "error"}

RowState == OpenRow \union {"fresh", "missing", "ended"}

Bookkeeping ==
  [state : SessionState, id : Sid \union {NoSession}, beat : BOOLEAN,
   rows : [Sid -> RowState], failing : SUBSET Statement, stale : SUBSET Sid]

\* An empty database, before any service was constructed over it.
EmptyStore ==
  [state |-> "ended", id |-> NoSession, beat |-> FALSE, rows |-> [s \in Sid |-> "fresh"],
   failing |-> {}, stale |-> {}]

\* A newly constructed service over the database another one leaves.
NewBookkeeping(b) == [b EXCEPT !.state = "ended", !.id = NoSession, !.beat = FALSE]

\* UPDATE sessions SET state = ? WHERE id = ?, of the current session's row: a
\* refused one leaves the row, and a row that is missing stays missing.
SetRow(b, statement, to) ==
  IF b.id \notin Sid THEN b
  ELSE IF b.rows[b.id] \in {"missing", to} THEN [b EXCEPT !.stale = @ \ {b.id}]
  ELSE IF statement \in b.failing THEN [b EXCEPT !.stale = @ \union {b.id}]
  ELSE [b EXCEPT !.rows[b.id] = to, !.stale = @ \ {b.id}]

EndCurrentSession_MemoryOnly(b) ==   \* mutant: the row is not ended
  IF b.id = NoSession THEN b ELSE [b EXCEPT !.beat = FALSE, !.id = NoSession]

EndCurrentSession_KeepsId(b) ==   \* mutant: the id is not cleared
  IF b.id = NoSession THEN b
  ELSE [SetRow(b, "endSession", "ended") EXCEPT !.beat = FALSE]

\* The id is cleared whether or not the row was ended.
EndCurrentSession(b) ==
  IF b.id = NoSession THEN b
  ELSE [SetRow(b, "endSession", "ended") EXCEPT !.beat = FALSE, !.id = NoSession]

\* The row is updated first, then the heartbeat timer, and a terminal state
\* ends the session.
TransitionToSessionState(b, to) ==
  LET moved == [SetRow(b, to, to) EXCEPT !.state = to, !.beat = (to = "active")]
  IN  IF b.state = to THEN b
      ELSE IF to \in {"ended", "error"} THEN EndCurrentSession(moved)
      ELSE moved

CreateSession_NoClose(b, s, inserted) ==   \* mutant: the open session is left
  IF ~StoreOpen THEN b
  ELSE [b EXCEPT !.id = s,
          !.rows = [b.rows EXCEPT ![s] = IF inserted THEN "negotiating" ELSE "missing"]]

\* A new connection: end whatever session is open, then insert the new row.
CreateSession(b, s, inserted) ==
  LET closed == EndCurrentSession(b)
  IN  IF ~StoreOpen THEN b
      ELSE [closed EXCEPT !.id = s,
              !.rows = [closed.rows EXCEPT ![s] = IF inserted THEN "negotiating" ELSE "missing"]]

SessionsOpened_ReusesIds(b) ==   \* mutant: the id is not a new one
  {CreateSession(b, s, i) : s \in {f \in Sid : b.rows[f] \in {"fresh", "ended"}}, i \in BOOLEAN}

\* What creating a session may leave: any unused id, its INSERT done or not.
SessionsOpened(b) ==
  IF StoreOpen
  THEN {CreateSession(b, s, i) : s \in {f \in Sid : b.rows[f] = "fresh"}, i \in BOOLEAN}
  ELSE {b}

OnConnectionState_ActiveOnly(b, to) ==   \* mutant: negotiating is not ended
  CASE to \in {"CONNECTING", "AUTHENTICATING", "SECURING"} ->
         TransitionToSessionState(b, "negotiating")
    [] to = "CONNECTED" -> TransitionToSessionState(b, "active")
    [] to = "DISCONNECTED" ->
         IF b.state = "active" THEN TransitionToSessionState(b, "ended") ELSE b
    [] to = "ERROR" -> TransitionToSessionState(b, "error")
    [] OTHER -> b

\* The session transition that each connection state brings about.
OnConnectionState(b, to) ==
  CASE to \in {"CONNECTING", "AUTHENTICATING", "SECURING"} ->
         TransitionToSessionState(b, "negotiating")
    [] to = "CONNECTED" -> TransitionToSessionState(b, "active")
    [] to = "DISCONNECTED" ->
         IF b.state \in {"active", "negotiating"}
         THEN TransitionToSessionState(b, "ended") ELSE b
    [] to = "ERROR" -> TransitionToSessionState(b, "error")
    [] OTHER -> b
=============================================================================
