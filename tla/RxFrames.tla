------------------------------ MODULE RxFrames ------------------------------
(***************************************************************************)
(* What the receive path of TL promises for the data frames it is given:   *)
(* every frame is either handed up to HDD once or returned to the packet   *)
(* pool once, and until then it is held.                                   *)
(***************************************************************************)
CONSTANT Frame

VARIABLES held, delivered, returned

frameVars == <<held, delivered, returned>>

Init == held = {} /\ delivered = {} /\ returned = {}

\* A frame that was never seen before comes in.
Receive(frame) ==
  /\ frame \notin held \cup delivered \cup returned
  /\ held' = held \cup {frame}
  /\ UNCHANGED <<delivered, returned>>

\* Held frames go up to HDD.
Deliver(frames) ==
  /\ frames \subseteq held
  /\ held' = held \ frames
  /\ delivered' = delivered \cup frames
  /\ UNCHANGED returned

\* Held frames go back to the pool.
Return(frames) ==
  /\ frames \subseteq held
  /\ held' = held \ frames
  /\ returned' = returned \cup frames
  /\ UNCHANGED delivered

Next ==
  \/ \E frame \in Frame : Receive(frame)
  \/ \E frames \in SUBSET Frame : Deliver(frames) \/ Return(frames)

Spec == Init /\ [][Next]_frameVars

=============================================================================
