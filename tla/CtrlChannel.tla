---------------------------- MODULE CtrlChannel ----------------------------
(***************************************************************************)
(* What the control transport promises to the control path above it: while *)
(* the session with the remote processor lasts, the messages it accepted   *)
(* reach the other end once each and in order, and a new session starts    *)
(* empty.  Of a session that broke nothing is promised.                    *)
(***************************************************************************)
EXTENDS Naturals, Sequences

VARIABLES
  up,     \* whether there is a session
  chan,   \* the messages accepted and not yet received by the other end
  last    \* the message accepted last; messages are numbered as accepted

chanVars == <<up, chan, last>>

Init == up = FALSE /\ chan = <<>> /\ last = 0

Begin == ~up /\ up' = TRUE /\ chan' = <<>> /\ UNCHANGED last

Send ==
  /\ up /\ last' \in Nat /\ last' > last
  /\ chan' = Append(chan, last')
  /\ UNCHANGED up

Receive ==
  /\ up /\ chan # <<>>
  /\ chan' = Tail(chan)
  /\ UNCHANGED <<up, last>>

Break == up /\ up' = FALSE /\ UNCHANGED last

\* Without a session anything may become of the messages.
Broken == ~up /\ ~up' /\ last' \in Nat /\ last' >= last

Next == Begin \/ Send \/ Receive \/ Break \/ Broken

Spec == Init /\ [][Next]_chanVars

=============================================================================
