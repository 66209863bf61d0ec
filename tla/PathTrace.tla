------------------------------ MODULE PathTrace ------------------------------
(* The trace to the outside (probes/path.rs, PathDiscoveryProvider): an echo   *)
(* per distance, and the error that quotes it.  It is taken hop by hop, since  *)
(* answers to one probe may arrive during the next.                            *)
EXTENDS Evidence, Functions

CONSTANTS
    Paths,           \* the routers along the way out: their addresses by distance
    MAX_HOPS,        \* 5
    Identifier       \* the identifier of this run's echoes

VARIABLES
    path,      \* the way out
    trace,     \* discover_path: [distance, hops, stage]
    air        \* time-exceeded messages not delivered yet

traceVars == <<path, trace, air>>

PATH_PROBE_DESTINATION == <<192, 0, 2, 1>>

-----------------------------------------------------------------------------
\* Fault: any error about an echo of this run will do.
matches_probe_typed(m, distance) ==
    m.type = "time-exceeded" /\ m.identifier = Identifier

matches_probe(m, distance) ==
    /\ m.type = "time-exceeded" /\ m.echo /\ m.destination = PATH_PROBE_DESTINATION
    /\ m.identifier = Identifier /\ m.sequence = distance

\* What the router at that distance answers, and what else an ICMP socket may hear.
Exceeded(distance) ==
    {[type |-> "time-exceeded", echo |-> TRUE, destination |-> PATH_PROBE_DESTINATION,
      identifier |-> Identifier, sequence |-> distance, from |-> path[distance]]}
Foreign ==
    {[type |-> "time-exceeded", echo |-> TRUE, destination |-> <<8, 8, 8, 8>>,
      identifier |-> Identifier, sequence |-> 1, from |-> <<10, 99, 0, 1>>],
     [type |-> "echo-reply", echo |-> FALSE, destination |-> PATH_PROBE_DESTINATION,
      identifier |-> Identifier, sequence |-> 1, from |-> <<10, 99, 0, 1>>]}

path_evidence(hops) ==
    UNION {LET d == Address(h.address)
           IN  Says("IcmpProbe", "Observed",
                    {DeviceAddress(d, h.address), DeviceRoleSignal(d, Signal("ObservedForwarding")),
                     DeviceCapability(d, "Ipv4Forwarding"),
                     ForwardsToward(d, PATH_PROBE_DESTINATION, h.distance,
                                    IF h.previous = None THEN None ELSE Address(h.previous))})
           : h \in Range(hops)}

-----------------------------------------------------------------------------
TraceInit ==
    path \in Paths /\ trace = [distance |-> 1, hops |-> <<>>, stage |-> "send"] /\ air = {}

\* One hop is asked: an echo leaves with that time to live, or the socket refuses it.
NextHop == IF trace.distance = MAX_HOPS THEN [trace EXCEPT !.stage = "end"]
           ELSE [trace EXCEPT !.distance = @ + 1, !.stage = "send"]
SendProbe ==
    /\ trace.stage = "send"
    /\ \/ /\ trace' = [trace EXCEPT !.stage = "wait"]
          /\ air' = air \cup (IF trace.distance \in DOMAIN path THEN Exceeded(trace.distance) ELSE {})
       \/ trace' = NextHop /\ UNCHANGED air
    /\ UNCHANGED path

\* A message arrives: the answer to this probe ends the wait, anything else is passed over.
Receive(m) ==
    /\ trace.stage = "wait"
    /\ trace' = IF ~matches_probe(m, trace.distance) THEN trace
                ELSE IF \E h \in Range(trace.hops) : h.address = m.from
                THEN [trace EXCEPT !.stage = "end"]
                ELSE [NextHop EXCEPT !.hops = Append(@, [distance |-> trace.distance, address |-> m.from,
                        previous |-> IF @ = <<>> THEN None ELSE @[Len(@)].address])]
    /\ air' = air \ {m}
    /\ UNCHANGED path

\* Nothing of ours arrived in time; what is late may arrive during a later hop.
HopTimeout == trace.stage = "wait" /\ trace' = NextHop /\ UNCHANGED <<path, air>>

TraceNext == SendProbe \/ (\E m \in air \cup Foreign : Receive(m)) \/ HopTimeout
TraceSpec == TraceInit /\ [][TraceNext]_traceVars

-----------------------------------------------------------------------------
\* Every hop of the trace is the router that stands at that distance, however late its error
\* and those of earlier probes arrive; the hops name each router once and each one's
\* predecessor is the hop before it (matches_probe: "a stale error from a probe several hops
\* ago"; discover_path: "the gap is preserved by the distance rather than by position").
HopsAreOurs ==
    \A i \in DOMAIN trace.hops :
        LET h == trace.hops[i]
        IN  /\ h.address = path[h.distance]
            /\ h.previous = (IF i = 1 THEN None ELSE trace.hops[i - 1].address)
            /\ \A j \in 1..(i - 1) : trace.hops[j].distance < h.distance
                                     /\ trace.hops[j].address # h.address
=============================================================================
