--------------------------- MODULE SharedSession ----------------------------
(***************************************************************************)
(* What a user of podspawn may rely on, whatever processes, locks, rows    *)
(* and containers are behind it: a project has at most one session at a    *)
(* time, connections share it, and a session ends only after every         *)
(* connection that shares it has left.                                     *)
(***************************************************************************)
CONSTANTS Conns, Projects, None

VARIABLES
    session,    \* [Projects -> the connection that opened the session, or None]
    users       \* [Projects -> the connections that share it]

vars == <<session, users>>

TypeOK ==
    /\ session \in [Projects -> Conns \cup {None}]
    /\ users \in [Projects -> SUBSET Conns]

Init ==
    /\ session = [p \in Projects |-> None]
    /\ users = [p \in Projects |-> {}]

Open(p, c) ==
    /\ session[p] = None
    /\ session' = [session EXCEPT ![p] = c]
    /\ users' = [users EXCEPT ![p] = {c}]

Join(p, c) ==
    /\ session[p] # None
    /\ c \notin users[p]
    /\ users' = [users EXCEPT ![p] = @ \cup {c}]
    /\ UNCHANGED session

Leave(p, c) ==
    /\ c \in users[p]
    /\ users' = [users EXCEPT ![p] = @ \ {c}]
    /\ UNCHANGED session

\* At once, after a grace period, or never: the mode decides.
End(p) ==
    /\ session[p] # None
    /\ users[p] = {}
    /\ session' = [session EXCEPT ![p] = None]
    /\ UNCHANGED users

Next == \E p \in Projects :
    \/ End(p)
    \/ \E c \in Conns : Open(p, c) \/ Join(p, c) \/ Leave(p, c)

Spec == Init /\ [][Next]_vars
=============================================================================
