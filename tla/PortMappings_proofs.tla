------------------------ MODULE PortMappings_proofs ------------------------
(***************************************************************************)
(* The ports label tells what podman forwards, for any width of a port and *)
(* any mappings that fit in it: the sum of a port and its range may wrap,  *)
(* but one less than the sum never does.                                   *)
(***************************************************************************)
EXTENDS PortMappings, SizeCache_proofs

\* The last port of a range is as far from the first as the range is long.
LEMMA LastPort ==
  ASSUME NEW port \in Nat, NEW range \in Nat,
         port + (IF range = 0 THEN 1 ELSE range) <= Ports
  PROVE  lastPort(port, range) = port + (IF range = 0 THEN 1 ELSE range) - 1
<1>1. Ports \in Nat \ {0}
  BY PortsAssumption DEF PortsAssumption
<1>2. ASSUME range > 1 PROVE (port + range - 1) % Ports = port + range - 1
  <2>1. port + range - 1 \in 0..Ports - 1
    BY <1>1, <1>2
  <2> QED
    BY <1>1, <2>1
<1> QED
  BY <1>2 DEF lastPort

\* What PortsAssumption says of a mapping, in the types the provers need.
LEMMA MappingType ==
  ASSUME NEW list \in MappingLists, NEW i \in DOMAIN list
  PROVE  /\ list[i].host \in Nat /\ list[i].container \in Nat /\ list[i].range \in Nat
         /\ list[i].host + Count(list[i]) <= Ports
         /\ list[i].container + Count(list[i]) <= Ports
         /\ Count(list[i]) \in Nat \ {0}
<1>1. list \in Seq(Mapping)
  BY PortsAssumption DEF PortsAssumption
<1>2. list[i] \in Mapping
  <2> HIDE DEF Mapping
  <2> QED
    BY <1>1
<1>3. list[i] \in ToSet(list)
  BY DEF ToSet
<1>4. /\ list[i].host + Count(list[i]) <= Ports
      /\ list[i].container + Count(list[i]) <= Ports
  BY <1>3, PortsAssumption DEF PortsAssumption
<1>5. list[i].host \in Nat /\ list[i].container \in Nat /\ list[i].range \in Nat
  BY <1>2, PortsAssumption DEF PortsAssumption, Mapping
<1> QED
  BY <1>4, <1>5 DEF Count

\* the entry of mapping i for its protocol k
EntryOf(list, i, k) == portsToString(list)[i][k]

\* An entry has the protocol it is for, and the ranges of its mapping.
LEMMA EntryRanges ==
  ASSUME NEW list \in MappingLists, NEW i \in DOMAIN list,
         NEW k \in DOMAIN list[i].protocols
  PROVE  LET m == list[i]
             e == EntryOf(list, i, k)
         IN  /\ e.ip = hostIP(m) /\ e.protocol = m.protocols[k]
             /\ e.host[1] = m.host /\ e.host[2] = m.host + Count(m) - 1
             /\ e.container[1] = m.container /\ e.container[2] = m.container + Count(m) - 1
<1> DEFINE m == list[i]
           e == EntryOf(list, i, k)
<1>1. e = [ip |-> hostIP(m), protocol |-> m.protocols[k],
           host |-> <<m.host, lastPort(m.host, m.range)>>,
           container |-> <<m.container, lastPort(m.container, m.range)>>]
  BY DEF EntryOf, portsToString
<1>2. lastPort(m.host, m.range) = m.host + Count(m) - 1
  BY MappingType, LastPort DEF Count
<1>3. lastPort(m.container, m.range) = m.container + Count(m) - 1
  BY MappingType, LastPort DEF Count
<1> QED
  BY <1>1, <1>2, <1>3

\* The entries of a label are those of its mappings and their protocols.
LEMMA EntriesOfLabel ==
  ASSUME NEW list, NEW e
  PROVE  e \in LabelEntries(list) <=>
           \E i \in DOMAIN list : \E k \in DOMAIN list[i].protocols : e = EntryOf(list, i, k)
<1> DEFINE p == portsToString(list)
<1>1. DOMAIN p = DOMAIN list /\ \A i \in DOMAIN list : DOMAIN p[i] = DOMAIN list[i].protocols
  BY DEF portsToString
<1> HIDE DEF p
<1>2. e \in LabelEntries(list) <=> \E i \in DOMAIN p : \E k \in DOMAIN p[i] : e = p[i][k]
  BY DEF LabelEntries, ToSet, p
<1> QED
  BY <1>1, <1>2 DEF EntryOf, p

\* the forwardings of mapping i for its protocol k
ForwardedFor(list, i, k) ==
  {<<hostIP(list[i]), list[i].host + n, list[i].container + n, list[i].protocols[k]>> :
     n \in 0..(Count(list[i]) - 1)}

\* An entry tells the forwardings podman makes of its mapping for its protocol.
LEMMA EntryTold ==
  ASSUME NEW list \in MappingLists, NEW i \in DOMAIN list,
         NEW k \in DOMAIN list[i].protocols
  PROVE  Told(EntryOf(list, i, k)) = ForwardedFor(list, i, k)
<1> DEFINE m == list[i]
           e == EntryOf(list, i, k)
<1>1. e.host[2] - e.host[1] = Count(m) - 1
  BY EntryRanges, MappingType
<1>2. e.ip = hostIP(m) /\ e.host[1] = m.host /\ e.container[1] = m.container
      /\ e.protocol = m.protocols[k]
  BY EntryRanges
<1> HIDE DEF e
<1> QED
  BY <1>1, <1>2 DEF Told, ForwardedFor, e

\* Every list of mappings is told well.
LEMMA AllWellTold == MappingLists \subseteq WellTold
<1> SUFFICES ASSUME NEW list \in MappingLists PROVE list \in WellTold
  OBVIOUS
<1>1. \A f : f \in UNION {Told(e) : e \in LabelEntries(list)} <=>
        \E i \in DOMAIN list : \E k \in DOMAIN list[i].protocols : f \in Told(EntryOf(list, i, k))
  BY EntriesOfLabel
<1>2. \A f : f \in UNION {Forwarded(m) : m \in ToSet(list)} <=>
        \E i \in DOMAIN list : \E k \in DOMAIN list[i].protocols : f \in ForwardedFor(list, i, k)
  BY DEF Forwarded, ForwardedFor, ToSet
<1>3. \A f : f \in UNION {Told(e) : e \in LabelEntries(list)}
               <=> f \in UNION {Forwarded(m) : m \in ToSet(list)}
  BY <1>1, <1>2, EntryTold
<1>4. UNION {Told(e) : e \in LabelEntries(list)} = UNION {Forwarded(m) : m \in ToSet(list)}
  BY <1>3
<1>5. ASSUME NEW e \in LabelEntries(list)
      PROVE  e.host[2] - e.host[1] = e.container[2] - e.container[1]
  <2>1. PICK i \in DOMAIN list : \E k \in DOMAIN list[i].protocols : e = EntryOf(list, i, k)
    BY EntriesOfLabel
  <2> QED
    BY <2>1, EntryRanges, MappingType
<1> QED
  BY <1>4, <1>5 DEF WellTold

\* The ports label of every container a call reports tells the forwardings
\* podman makes, for ports of any width (pdcs/utils.go:161-191).
THEOREM PortsToldRight == Spec => []PortsRight
<1>1. TypeOK => PortsRight
  <2> SUFFICES ASSUME TypeOK, NEW r \in Readers, NEW c \in listed[r]
               PROVE  MappingsOf[c] \subseteq WellTold
    BY DEF PortsRight
  <2>1. c \in Containers
    BY DEF TypeOK
  <2>2. MappingsOf[c] \subseteq MappingLists
    BY <2>1, PortsAssumption DEF PortsAssumption
  <2> QED
    BY <2>2, AllWellTold
<1> QED
  BY <1>1, SizesTypeCorrect, PTL
=============================================================================
