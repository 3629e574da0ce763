------------------------------- MODULE Mailbox -------------------------------
(***************************************************************************)
(* What internal/comm promises its callers, whatever its locks, rooms and  *)
(* pointers do: a mailbox is opened once, for one address; it takes, in    *)
(* order and up to its capacity, only messages to that address; it is      *)
(* closed once, after which it takes no more and can only be drained.      *)
(* Messages are lost when the mailbox is full or closed; nothing is said   *)
(* about whether a sender finds the mailbox at all.                        *)
(***************************************************************************)
EXTENDS Naturals, Sequences

CONSTANTS
  Boxes,      \* the mailboxes
  Addresses,  \* what messages are sent to
  Events,     \* the messages, each with the address it is sent "to"
  Capacity,   \* how many messages a mailbox holds
  NoAddress   \* the address of a mailbox not opened yet

VARIABLES
  addr,       \* mailbox -> its address
  shut,       \* mailbox -> is it closed
  queue       \* mailbox -> messages to be read

vars == <<addr, shut, queue>>

Init ==
  /\ addr = [b \in Boxes |-> NoAddress]
  /\ shut = [b \in Boxes |-> FALSE]
  /\ queue = [b \in Boxes |-> <<>>]

Open(b, a) ==
  /\ addr[b] = NoAddress
  /\ addr' = [addr EXCEPT ![b] = a]
  /\ UNCHANGED <<shut, queue>>

Put(b, e) ==
  /\ ~shut[b] /\ Len(queue[b]) < Capacity
  /\ addr[b] = e.to
  /\ queue' = [queue EXCEPT ![b] = Append(@, e)]
  /\ UNCHANGED <<addr, shut>>

Take(b) ==
  /\ queue[b] # <<>>
  /\ queue' = [queue EXCEPT ![b] = Tail(@)]
  /\ UNCHANGED <<addr, shut>>

Close(b) ==
  /\ addr[b] # NoAddress /\ ~shut[b]
  /\ shut' = [shut EXCEPT ![b] = TRUE]
  /\ UNCHANGED <<addr, queue>>

Next ==
  \E b \in Boxes :
    \/ \E a \in Addresses : Open(b, a)
    \/ \E e \in Events : Put(b, e)
    \/ Take(b)
    \/ Close(b)

Spec == Init /\ [][Next]_vars
=============================================================================
