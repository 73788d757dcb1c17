------------------------- MODULE MCSessionLifecycle -------------------------
(* Instances of SessionLifecycle for TLC.                                  *)
EXTENDS SessionLifecycle, TLC

CONSTANTS c1, c2, c3, p1, p2

NoOverride == [p \in Projects |-> None]

\* Every project asks for persistent sessions.
AllPersistent == [p \in Projects |-> "persistent"]

\* Every process reads the same configured mode, whichever it is.
UniformModes == {[c \in Conns |-> m] : m \in Modes}

\* The default of config.yaml.
GraceModes == {[c \in Conns |-> "grace-period"]}

\* c1 is a podspawn run, which asks for destroy-on-disconnect; the others are logins.
RunBesideLogins ==
    {[c \in Conns |-> IF c = c1 THEN "destroy-on-disconnect" ELSE "grace-period"]}

Connections == Permutations(Conns)
ProjectNames == Permutations(Projects)
=============================================================================
