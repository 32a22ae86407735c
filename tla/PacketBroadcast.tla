-------------------------- MODULE PacketBroadcast --------------------------
(***************************************************************************)
(* What ThreadMgr::DispatchPacket promises its callers, without queues,    *)
(* reference counts or threads: a packet that is dispatched is handled     *)
(* once by every listening message system, in the order of the dispatch    *)
(* calls.  The n-th dispatched packet is known by the number n.            *)
(***************************************************************************)
EXTENDS Naturals

CONSTANT Listener       \* the message systems that get every packet

VARIABLES
  sent,                 \* number of packets dispatched so far
  handled               \* handled[t]: t has handled packets 1..handled[t]

vars == <<sent, handled>>

Init ==
  /\ sent = 0
  /\ handled = [t \in Listener |-> 0]

Publish ==
  /\ sent' = sent + 1
  /\ UNCHANGED handled

Handle(t) ==
  /\ handled[t] < sent
  /\ handled' = [handled EXCEPT ![t] = @ + 1]
  /\ UNCHANGED sent

Next == Publish \/ \E t \in Listener : Handle(t)

\* Nothing is left out and nothing comes twice ...
Safety == Init /\ [][Next]_vars

\* ... and every dispatched packet is handled.
Spec == Safety /\ \A t \in Listener : WF_vars(Handle(t))
=============================================================================
