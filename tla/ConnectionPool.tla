--------------------------- MODULE ConnectionPool ---------------------------
(***************************************************************************)
(* What CConnectionMgr and ServiceBase promise about connections, without  *)
(* threads, queues, sockets or a linked list: a connection is taken for a  *)
(* new session, closed once, and only then given back - until somebody who *)
(* does not hold the connection closes it, after which nothing is promised.*)
(***************************************************************************)
EXTENDS Naturals

CONSTANTS Conns, MaxSessions

VARIABLES
    serving,  \* the session of a connection, 0 when it is free
    closing,  \* the connections reported closed and not yet given back
    made,     \* sessions so far
    misused   \* somebody else has closed a connection
vars == <<serving, closing, made, misused>>

Init == serving = [c \in Conns |-> 0] /\ closing = {} /\ made = 0 /\ misused = FALSE

Take(c) ==
    /\ serving[c] = 0
    /\ made < MaxSessions
    /\ made' = made + 1
    /\ serving' = [serving EXCEPT ![c] = made']
    /\ UNCHANGED closing

\* No connection is free: the socket is turned away.
TurnAway ==
    /\ \A c \in Conns : serving[c] # 0
    /\ made < MaxSessions
    /\ made' = made + 1
    /\ UNCHANGED <<serving, closing>>

Close(c) ==
    /\ serving[c] # 0 /\ c \notin closing
    /\ closing' = closing \cup {c}
    /\ UNCHANGED <<serving, made>>

GiveBack(c) ==
    /\ c \in closing
    /\ closing' = closing \ {c}
    /\ serving' = [serving EXCEPT ![c] = 0]
    /\ UNCHANGED made

\* Only the logic thread does so: the idle check and a failed send.
Misuse == misused' = TRUE

Regular == TurnAway \/ \E c \in Conns : Take(c) \/ Close(c) \/ GiveBack(c)

Next == \/ ~misused /\ UNCHANGED misused /\ Regular
        \/ Misuse

Spec == Init /\ [][Next]_vars
=============================================================================
