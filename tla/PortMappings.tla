---------------------------- MODULE PortMappings ----------------------------
(***************************************************************************)
(* The ports label of the containers that Containers() reports: what       *)
(* portsToString of pdcs/utils.go makes of the port mappings podman lists. *)
(* It writes an entry for each mapping and protocol, with the first and    *)
(* the last port of a range; the ports and the length of a range are       *)
(* unsigned integers of one width.                                         *)
(*                                                                         *)
(* A mapping has the sequence of its protocols, an entry the host address, *)
(* the two ranges and the protocol it names.                               *)
(***************************************************************************)
EXTENDS SizeCache, Sequences, SequencesExt

CONSTANTS
  Ports,         \* how many values a port has, 2^16
  MappingLists,  \* the lists of mappings considered
  MappingsOf     \* [container -> the lists podman may have for it]

Mapping ==
  [ip : STRING, host : 0..Ports - 1, container : 0..Ports - 1, range : 0..Ports - 1,
   protocols : Seq(STRING)]

\* How many ports a mapping has; podman takes no mapping beyond the last port.
Count(m) == IF m.range = 0 THEN 1 ELSE m.range

ASSUME PortsAssumption ==
  /\ Ports \in Nat \ {0}
  /\ MappingLists \subseteq Seq(Mapping)
  /\ MappingsOf \in [Containers -> SUBSET MappingLists]
  /\ \A list \in MappingLists : \A m \in ToSet(list) :
       /\ m.host + Count(m) <= Ports /\ m.container + Count(m) <= Ports
       /\ m.protocols # << >>

\* mutant: the port behind the range
lastPast(port, range) == IF range > 1 THEN (port + range) % Ports ELSE port

\* port + range - 1, in the width of a port
lastPort(port, range) ==
  IF range > 1 THEN (port + range - 1) % Ports ELSE port

hostIP(m) == IF m.ip = "" THEN "0.0.0.0" ELSE m.ip

\* the entries of each mapping, one for each of its protocols
portsToString(list) ==
  [i \in DOMAIN list |->
    LET m == list[i]
    IN  [k \in DOMAIN m.protocols |->
           [ip |-> hostIP(m), protocol |-> m.protocols[k],
            host |-> <<m.host, lastPort(m.host, m.range)>>,
            container |-> <<m.container, lastPort(m.container, m.range)>>]]]

-----------------------------------------------------------------------------
\* the forwardings an entry is read as, and those podman makes of a mapping
Told(e) ==
  {<<e.ip, e.host[1] + k, e.container[1] + k, e.protocol>> : k \in 0..(e.host[2] - e.host[1])}
Forwarded(m) ==
  {<<hostIP(m), m.host + k, m.container + k, p>> : k \in 0..(Count(m) - 1), p \in ToSet(m.protocols)}

LabelEntries(list) == UNION {ToSet(entries) : entries \in ToSet(portsToString(list))}

\* the lists whose entries tell what podman forwards
WellTold ==
  {list \in MappingLists :
     /\ UNION {Told(e) : e \in LabelEntries(list)} = UNION {Forwarded(m) : m \in ToSet(list)}
     /\ \A e \in LabelEntries(list) : e.host[2] - e.host[1] = e.container[2] - e.container[1]}

\* The ports label of a container a call reports tells the forwardings podman
\* makes, no more and no fewer, also of a range that ends at the last port, where
\* the sum of port and length wraps (pdcs/utils.go:161-191;
\* vendor/go.podman.io/common/libnetwork/types/network.go:350-358).
PortsRight == \A r \in Readers : \A c \in listed[r] : MappingsOf[c] \subseteq WellTold
=============================================================================
