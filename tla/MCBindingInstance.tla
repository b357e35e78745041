-------------------------- MODULE MCBindingInstance --------------------------
(***************************************************************************)
(* Small instances of BindingInstance. The client under test is origin 2,  *)
(* between two others in the string order.                                 *)
(***************************************************************************)
EXTENDS BindingInstance

RemoteOp(origin, seq, lamport) ==
  [origin |-> origin, seq |-> seq, lamport |-> lamport, payload |-> 0, wire |-> TRUE]

\* One writer's operation with a low clock, which sorts before local ones when
\* it arrives late, and one with a clock that ties with a local write.
TwoWriters == {RemoteOp(1, 0, 1), RemoteOp(3, 0, 2)}

\* A chain of one writer, which the bus may bring out of order.
OneChain == {RemoteOp(1, 0, 1), RemoteOp(1, 1, 2)}

NoRemoteOps == {}

NoFaults == {}
AllFaults == {"hydrate", "publish"}
=============================================================================
