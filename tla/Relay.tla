------------------------------- MODULE Relay -------------------------------
(***************************************************************************)
(* What the proxy promises the requesters, whatever it does inside: a      *)
(* query is taken up at most once, an answer is sent only for a query that *)
(* was taken up, at most one per query, and only with the contents of an   *)
(* answer to a query that was taken up.  Queries and answers may be lost,  *)
(* and a query given up for lost may still be answered late.               *)
(***************************************************************************)
EXTENDS Sequences

CONSTANT Query

VARIABLES
  status,   \* how far each query has got
  answers   \* the answers sent to each query's requester

vars == <<status, answers>>

InHand == {"queued", "pending"}

Init ==
  /\ status = [q \in Query |-> "unsent"]
  /\ answers = [q \in Query |-> <<>>]

Move(q, from, to) ==
  /\ status[q] = from
  /\ status' = [status EXCEPT ![q] = to]

Send(q) == Move(q, "unsent", "queued") /\ UNCHANGED answers

Accept(q) == Move(q, "queued", "pending") /\ UNCHANGED answers

Lose(Q) ==
  /\ \A q \in Q : status[q] \in InHand
  /\ status' = [q \in Query |-> IF q \in Q THEN "lost" ELSE status[q]]
  /\ UNCHANGED answers

Reply(q, a) ==
  /\ status[a] \notin {"unsent", "queued"}
  /\ Move(q, "pending", "answered") \/ Move(q, "lost", "answered")
  /\ answers' = [answers EXCEPT ![q] = Append(@, a)]

Next ==
  \/ \E q \in Query : Send(q) \/ Accept(q)
  \/ \E Q \in SUBSET Query : Lose(Q)
  \/ \E q, a \in Query : Reply(q, a)

Spec == Init /\ [][Next]_vars
=============================================================================
