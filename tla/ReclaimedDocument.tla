-------------------------- MODULE ReclaimedDocument --------------------------
(***************************************************************************)
(* What a native document promises to whoever holds its handle, without    *)
(* counters, flags and threads: it becomes usable once; work may use it    *)
(* only while it is there; once it is closing it is never usable again;    *)
(* it is destroyed only when nobody uses it; and the one-shot cursor is    *)
(* used by one operation at a time and spent once.                         *)
(***************************************************************************)
CONSTANTS
  Users,     \* operations that may use the native document
  Cursors    \* those of them that move its one-shot cursor

VARIABLES
  phase,   \* "absent", "usable", "closing", "gone"
  using,   \* the operations that dereference the document
  spent    \* the cursor was committed to an operation

vars == <<phase, using, spent>>

Init == phase = "absent" /\ using = {} /\ spent = FALSE

Open ==
  /\ phase = "absent" /\ phase' = "usable"
  /\ UNCHANGED <<using, spent>>

Close ==
  /\ phase = "usable" /\ phase' = "closing"
  /\ UNCHANGED <<using, spent>>

\* Construction that is given up, or destruction after the last use.
Destroy ==
  /\ phase \in {"absent", "usable", "closing"} /\ using = {}
  /\ phase' = "gone"
  /\ UNCHANGED <<using, spent>>

\* An operation that obtained the handle before the close may still enter.
Enter(u) ==
  /\ phase \in {"usable", "closing"}
  /\ u \notin using
  /\ u \in Cursors => spent /\ using \cap Cursors = {}
  /\ using' = using \cup {u}
  /\ UNCHANGED <<phase, spent>>

Leave(u) ==
  /\ u \in using
  /\ using' = using \ {u}
  /\ UNCHANGED <<phase, spent>>

Spend ==
  /\ ~spent /\ spent' = TRUE
  /\ phase \in {"usable", "closing"}
  /\ UNCHANGED <<phase, using>>

Next ==
  \/ Open \/ Close \/ Destroy \/ Spend
  \/ \E u \in Users : Enter(u) \/ Leave(u)

Spec == Init /\ [][Next]_vars
=============================================================================
