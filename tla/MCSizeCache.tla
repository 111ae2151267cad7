--------------------------- MODULE MCSizeCache ---------------------------
(* Instances of SizeCache, and of the ports label of the containers: lists  *)
(* of one or two mappings, with ports of three bits.                        *)
EXTENDS PortMappings, TLC

Sym == Permutations(Containers) \cup Permutations(Readers)

AllMappings ==
  {m \in [ip : {""}, host : {0, 6}, container : {1, 5}, range : 0..3,
          protocols : {<<"tcp">>, <<"tcp", "udp">>}] :
     m.host + Count(m) <= Ports /\ m.container + Count(m) <= Ports}
OnSix == [ip |-> "::1", host |-> 2, container |-> 6, range |-> 2, protocols |-> <<"udp">>]
Mappings == {<< >>} \cup {<<m>> : m \in AllMappings} \cup {<<m, OnSix>> : m \in AllMappings}
AnyMappings == [c \in Containers |-> Mappings]

NoMappings == {}
Unmapped == [c \in Containers |-> NoMappings]
=============================================================================
