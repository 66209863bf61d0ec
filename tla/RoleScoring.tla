----------------------------- MODULE RoleScoring -----------------------------
(***************************************************************************)
(* Role scoring (src/topology/role.rs over RoleSignal of evidence.rs): the *)
(* weights of the behaviours observed for a device are summed, and above a *)
(* threshold the behaviours themselves say whether it routes or bridges.   *)
(* LinkLayerCapability is split by what its text contains, the only thing  *)
(* that scoring reads of it.                                               *)
(***************************************************************************)
EXTENDS Integers, FiniteSetsExt

RoleSignals == {"DefaultGateway", "SnmpForwarding", "RipRouteAdvertisement",
                "SpanningTreeBridge", "InternetGatewayDevice", "DhcpRouter",
                "RouterAdvertisement", "CapabilityRouter", "CapabilityBridge",
                "CapabilityOther", "KernelNextHop", "ObservedForwarding",
                "ManagementSurface"}

weight(signal) ==
    CASE signal = "DefaultGateway" -> 100
      [] signal \in {"SnmpForwarding", "RipRouteAdvertisement", "SpanningTreeBridge"} -> 90
      [] signal \in {"InternetGatewayDevice", "DhcpRouter"} -> 80
      [] signal \in {"RouterAdvertisement", "CapabilityRouter", "CapabilityBridge",
                     "CapabilityOther", "KernelNextHop"} -> 70
      [] signal = "ObservedForwarding" -> 60
      [] signal = "ManagementSurface" -> 30

INFRASTRUCTURE_THRESHOLD == 70

Routing == {"DefaultGateway", "DhcpRouter", "RouterAdvertisement",
            "InternetGatewayDevice", "SnmpForwarding", "ObservedForwarding",
            "KernelNextHop", "CapabilityRouter"}

Bridging == {"SpanningTreeBridge", "CapabilityBridge"}

\* Fault: a bridge is a switch, whatever else it does.
score_role_exclusive(signals) ==
    IF MapThenSumSet(weight, signals) < INFRASTRUCTURE_THRESHOLD THEN "Host"
    ELSE IF signals \cap Bridging # {} THEN "Switch"
    ELSE IF signals \cap Routing # {} THEN "Router"
    ELSE "Host"

score_role(signals) ==
    LET total == MapThenSumSet(weight, signals)
        routes == signals \cap Routing # {}
        bridges == signals \cap Bridging # {}
    IN  IF total < INFRASTRUCTURE_THRESHOLD THEN "Host"
        ELSE IF routes /\ bridges THEN "Layer3Switch"
        ELSE IF routes THEN "Router"
        ELSE IF bridges THEN "Switch"
        ELSE "Host"
==============================================================================
