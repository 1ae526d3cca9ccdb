------------------------------ MODULE FifoQueue ------------------------------
(***************************************************************************)
(* What ArrayLockFreeQueue (Common/Utility/LockFreeQueue.h) promises to    *)
(* the engine threads that share one: a bounded first-in first-out queue.  *)
(* A push appends its element or is refused; a pop takes the oldest        *)
(* element or reports that there is none.  A call takes effect at one      *)
(* moment between its start and its return.                                *)
(*                                                                         *)
(* A refusal is allowed at any moment: the implementation may refuse a     *)
(* push while there is room and a pop while there is an element, see       *)
(* LockFreeQueueObserver.                                                  *)
(***************************************************************************)
EXTENDS Naturals, Sequences

CONSTANTS Producers,  \* threads that push
          Consumers,  \* threads that pop
          Items,      \* the elements pushed
          NoItem,     \* "nothing popped"
          Capacity    \* the number of elements the queue can hold

VARIABLES queue,      \* the elements, oldest first
          pushing,    \* pushing[p]: the element p is pushing, or NoItem
          accepted,   \* accepted[p]: FALSE after a refused push, until the next
          popping,    \* popping[c]: c is inside pop
          popped      \* popped[c]: what c's last pop returned, until the next; or NoItem

vars == <<queue, pushing, accepted, popping, popped>>

Init == /\ queue = << >>
        /\ pushing = [p \in Producers |-> NoItem]
        /\ accepted = [p \in Producers |-> TRUE]
        /\ popping = [c \in Consumers |-> FALSE]
        /\ popped = [c \in Consumers |-> NoItem]

CallPush(p, x) ==
    /\ pushing[p] = NoItem
    /\ pushing' = [pushing EXCEPT ![p] = x]
    /\ accepted' = [accepted EXCEPT ![p] = TRUE]
    /\ UNCHANGED <<queue, popping, popped>>

Enqueue(p) ==
    /\ pushing[p] # NoItem
    /\ Len(queue) < Capacity
    /\ queue' = Append(queue, pushing[p])
    /\ pushing' = [pushing EXCEPT ![p] = NoItem]
    /\ UNCHANGED <<accepted, popping, popped>>

Refuse(p) ==
    /\ pushing[p] # NoItem
    /\ pushing' = [pushing EXCEPT ![p] = NoItem]
    /\ accepted' = [accepted EXCEPT ![p] = FALSE]
    /\ UNCHANGED <<queue, popping, popped>>

CallPop(c) ==
    /\ ~popping[c]
    /\ popping' = [popping EXCEPT ![c] = TRUE]
    /\ popped' = [popped EXCEPT ![c] = NoItem]
    /\ UNCHANGED <<queue, pushing, accepted>>

Dequeue(c) ==
    /\ popping[c]
    /\ queue # << >>
    /\ queue' = Tail(queue)
    /\ popping' = [popping EXCEPT ![c] = FALSE]
    /\ popped' = [popped EXCEPT ![c] = Head(queue)]
    /\ UNCHANGED <<pushing, accepted>>

FindNothing(c) ==
    /\ popping[c]
    /\ popping' = [popping EXCEPT ![c] = FALSE]
    /\ UNCHANGED <<queue, pushing, accepted, popped>>

Next == \/ \E p \in Producers : \/ \E x \in Items : CallPush(p, x)
                                \/ Enqueue(p)
                                \/ Refuse(p)
        \/ \E c \in Consumers : CallPop(c) \/ Dequeue(c) \/ FindNothing(c)

Spec == Init /\ [][Next]_vars
=============================================================================
