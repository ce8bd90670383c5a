---------------------------- MODULE MCVosSched ----------------------------
(***************************************************************************)
(* Instances of VosSched for TLC: the driver's service order restricted to *)
(* a few queues.                                                           *)
(***************************************************************************)
EXTENDS VosSched

\* Two queues of one thread (priority between them) and one of another.
MqPriority == {"wdiMcMq", "peMcMq", "wdiRxMq"}

\* One queue, so that the handshake with power management dominates.
MqRx == {"wdiRxMq"}

Restricted(queues) ==
  [t \in Thread |-> SelectSeq(DriverServiceOrder[t], LAMBDA q : q \in queues)]

OrderPriority == Restricted(MqPriority)
OrderRx       == Restricted(MqRx)

=============================================================================
