------------------------ MODULE LockFreeQueueObserver ------------------------
(***************************************************************************)
(* LockFreeQueue with, for every thread inside a call, what the call could *)
(* have seen since it started: the queue full, the queue empty, the index  *)
(* it claims with moved by another thread ("raced").  It says when push    *)
(* and pop return false, which LockFreeQueue.h describes as "False if the  *)
(* queue was full" and "False if the queue was empty".                     *)
(***************************************************************************)
EXTENDS LockFreeQueue

VARIABLE seen   \* seen[t] \subseteq {"full", "empty", "raced"}

obsVars == <<vars, seen>>

IsFull  == writeIndex = readIndex + (QSize - 1)
IsEmpty == maximumReadIndex = readIndex

ObsInit == Init /\ seen = [t \in Threads |-> {}]

\* Inside a call that may still fail.
Undecided(t) == pc[t] \notin {"idle", "store", "commit"}

\* What each thread inside a call has seen, brought up to date with a step of
\* the queue.  A thread does not race with itself: once it wins it has decided.
Observe ==
    seen' = [t \in Threads |->
               IF ~Undecided(t)' THEN {}
               ELSE (IF Undecided(t) THEN seen[t] ELSE {})
                    \cup (IF IsFull' THEN {"full"} ELSE {})
                    \cup (IF IsEmpty' THEN {"empty"} ELSE {})
                    \cup (IF IF t \in Producers THEN writeIndex' # writeIndex
                                              ELSE readIndex' # readIndex
                          THEN {"raced"} ELSE {})]

ObsSpec == ObsInit /\ [][Next /\ Observe]_obsVars

\* A thread whose call has just returned false.
Refused(p) == pc[p] = "readRead" /\ pc'[p] = "idle"
FoundNothing(c) == pc[c] = "popMax" /\ pc'[c] = "idle"

\* push fails only when the queue was full during the call, or when another
\* producer claimed some position during it, so that the write index this
\* push compares may be old: with one producer, only when it was full.
PushFailureHasCause ==
    [][\A p \in Producers : Refused(p) => seen[p] \cap {"full", "raced"} # {}]_obsVars

\* pop fails only when the queue held no published element during the call,
\* or when another consumer took some element during the call: the logic
\* thread, which is alone, never misses a published element.
PopFailureHasCause ==
    [][\A c \in Consumers : FoundNothing(c) => seen[c] \cap {"empty", "raced"} # {}]_obsVars

\* LockFreeQueue.h:97-98: push returns "true if the element was inserted in
\* the queue. False if the queue was full".
PushFailsOnlyWhenFull ==
    [][\A p \in Producers : Refused(p) => "full" \in seen[p]]_obsVars
=============================================================================
