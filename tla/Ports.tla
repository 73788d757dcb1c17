--------------------------------- MODULE Ports ---------------------------------
(***************************************************************************)
(* ResolvePortBindings: which ports of a container are forwarded, and from *)
(* which ports of the host.                                                *)
(***************************************************************************)
EXTENDS Integers, Sequences, SequencesExt

CONSTANTS
    LastPort,   \* 65535
    Reach       \* how many ports after a taken one are tried: 100

ASSUME PortsAssumption == LastPort \in Nat /\ Reach \in Nat

\* Manual forwards the ports of the command line only, the others the exposed ones
\* and then those of the command line that are not exposed.
PortList(expose, strategy, flags) ==
    LET Listed[n \in 0..Len(flags)] ==
            IF n = 0 THEN expose
            ELSE IF Contains(expose, flags[n]) THEN Listed[n - 1]
            ELSE Append(Listed[n - 1], flags[n])
    IN  IF strategy = "manual" THEN flags ELSE Listed[Len(flags)]

\* Mutant: the last port is not the limit.
CandidatesBeyond(port, strategy, taken) ==
    IF port \notin taken THEN {port}
    ELSE IF strategy = "expose" THEN {}
    ELSE (port + 1)..(port + Reach) \ taken

\* findHostPort: the free ports from which the first is taken, and none but the
\* wanted one under expose.
Candidates(port, strategy, taken) ==
    IF port \notin taken THEN {port}
    ELSE IF strategy = "expose" THEN {}
    ELSE (port + 1)..(IF port + Reach > LastPort THEN LastPort ELSE port + Reach) \ taken

FindHostPort(port, strategy, taken) ==
    LET free == Candidates(port, strategy, taken)
    IN  CHOOSE p \in free : \A q \in free : p <= q

\* A port counts as taken if something listens on it: what this very call has
\* given away is not.
ResolvePortBindings(expose, strategy, flags, taken) ==
    LET ports == PortList(expose, strategy, flags) IN
    IF \E p \in ToSet(ports) : p \notin 1..LastPort \/ Candidates(p, strategy, taken) = {}
    THEN [failed |-> TRUE, ports |-> <<>>]
    ELSE [failed |-> FALSE,
          ports |-> [i \in DOMAIN ports |->
              [container |-> ports[i], host |-> FindHostPort(ports[i], strategy, taken)]]]
=============================================================================
