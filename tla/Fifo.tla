--------------------------------- MODULE Fifo --------------------------------
(***************************************************************************)
(* What a FreeRTOS queue promises: a bounded sequence of items.  Each       *)
(* actor, a task or the interrupt handler, has a buffer with the item it   *)
(* sends, or with the last one it received.                                *)
(***************************************************************************)
EXTENDS Naturals, Sequences

CONSTANTS Actor, Item, Length

VARIABLES uxLength, contents, data

Init == uxLength \in Length /\ contents = <<>> /\ data \in [Actor -> Item]

Prepare(a) ==
    /\ \E i \in Item : data' = [data EXCEPT ![a] = i]
    /\ UNCHANGED contents

SendToBack(a) ==
    /\ Len(contents) < uxLength
    /\ contents' = Append(contents, data[a])
    /\ UNCHANGED data

SendToFront(a) ==
    /\ Len(contents) < uxLength
    /\ contents' = <<data[a]>> \o contents
    /\ UNCHANGED data

Overwrite(a) ==
    /\ uxLength = 1
    /\ contents' = <<data[a]>>
    /\ UNCHANGED data

Receive(a) ==
    /\ contents # <<>>
    /\ data' = [data EXCEPT ![a] = Head(contents)]
    /\ contents' = Tail(contents)

Peek(a) ==
    /\ contents # <<>>
    /\ data' = [data EXCEPT ![a] = Head(contents)]
    /\ UNCHANGED contents

Next ==
    /\ UNCHANGED uxLength
    /\ \E a \in Actor :
           \/ Prepare(a)
           \/ SendToBack(a) \/ SendToFront(a) \/ Overwrite(a)
           \/ Receive(a) \/ Peek(a)

Spec == Init /\ [][Next]_<<uxLength, contents, data>>
=============================================================================
