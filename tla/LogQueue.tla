----------------------------- MODULE LogQueue ------------------------------
(***************************************************************************)
(* What a handler's ring promises (README.md, "logs that arrive when the   *)
(* buffer is full are discarded rather than blocking the caller"): a       *)
(* first-in first-out queue of at most Capacity requests.  A request that  *)
(* arrives is accepted in one step when there is room and refused in one   *)
(* step only when there is none; accepted requests are written in order,   *)
(* and the room of one is given back only after it was written.            *)
(***************************************************************************)
EXTENDS Integers, Sequences

CONSTANTS Requests, Capacity

VARIABLES
  accepted,    \* the requests accepted so far, in order
  refused,     \* the requests refused
  written,     \* the requests written so far, in order
  released     \* how many requests have left the queue

vars == <<accepted, refused, written, released>>

Init ==
  /\ accepted = <<>>
  /\ refused = {}
  /\ written = <<>>
  /\ released = 0

Accept(r) ==
  /\ Len(accepted) - released < Capacity
  /\ accepted' = Append(accepted, r)
  /\ UNCHANGED <<refused, written, released>>

Refuse(r) ==
  /\ Len(accepted) - released = Capacity
  /\ refused' = refused \cup {r}
  /\ UNCHANGED <<accepted, written, released>>

Write ==
  /\ Len(written) = released
  /\ Len(written) < Len(accepted)
  /\ written' = Append(written, accepted[Len(written) + 1])
  /\ UNCHANGED <<accepted, refused, released>>

Release ==
  /\ released < Len(written)
  /\ released' = released + 1
  /\ UNCHANGED <<accepted, refused, written>>

Next ==
  \/ \E r \in Requests : Accept(r) \/ Refuse(r)
  \/ Write
  \/ Release

Spec == Init /\ [][Next]_vars

=============================================================================
