--------------------------- MODULE BoundedBuffer ---------------------------
(***************************************************************************)
(* What both producer/consumer programs of P06 promise: a first-in         *)
(* first-out buffer that never holds more than Capacity items, where an    *)
(* item put is taken once, by one consumer, in the order of the puts.      *)
(***************************************************************************)
EXTENDS Naturals, Sequences

CONSTANTS Consumers, Items, Capacity

VARIABLES queue,    \* the items in the buffer, oldest first
          got       \* got[c]: the item consumer c took last

bufferVars == <<queue, got>>

BufferInit == queue = <<>>

Put(v) == /\ Len(queue) < Capacity
          /\ queue' = Append(queue, v)
          /\ UNCHANGED got

Take(c) == /\ queue # <<>>
           /\ got' = [got EXCEPT ![c] = Head(queue)]
           /\ queue' = Tail(queue)

BufferNext == (\E v \in Items : Put(v)) \/ (\E c \in Consumers : Take(c))

BufferSpec == BufferInit /\ [][BufferNext]_bufferVars
=============================================================================
