--------------------------- MODULE SessionLedger ---------------------------
(***************************************************************************)
(* What the session store promises to whoever reads it, apart from how the *)
(* connection works: at most one session is open at a time, a session id   *)
(* is used once, and a closed session stays closed.  A session whose row   *)
(* is left open by its end, because the process dies or the statement that *)
(* ends the row is refused, is lost: nothing closes it later.              *)
(***************************************************************************)
CONSTANTS
  Sid,  \* session ids
  None  \* no session: not one of them

VARIABLES
  status,  \* "unused", "open", "closed" or "lost" for each id
  current  \* the open session, or None

vars == <<status, current>>

Init ==
  /\ current \in Sid \union {None}
  /\ status = [s \in Sid |-> IF s = current THEN "open" ELSE "unused"]

\* The open session, if there is one, ends in the given way; and the next one,
\* if there is one, opens.
Change(fate, next) ==
  /\ next = None \/ status[next] = "unused"
  /\ current' = next
  /\ status' = [s \in Sid |-> IF s = next THEN "open"
                              ELSE IF s = current THEN fate ELSE status[s]]

Close == current # None /\ Change("closed", None)

Open == \E s \in Sid : Change("closed", s)

\* The row of the open session is left as it is: the process dies, or the
\* statement that ends the row is refused.  Another session may open at once.
Lose == \E s \in Sid \union {None} : Change("lost", s)

Next == Close \/ Open \/ Lose

Spec == Init /\ [][Next]_vars
=============================================================================
