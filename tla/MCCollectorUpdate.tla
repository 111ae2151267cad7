------------------------ MODULE MCCollectorUpdate ------------------------
(* Instances of CollectorUpdate: one or two fields stand for each group.    *)
EXTENDS CollectorUpdate, TLC

\* collector/container.go: the 8 fields of updateInfo and the 15 of updateStats
\* are represented by their first and last
ContainerGroups ==
  << [write |-> <<"info">>, emit |-> <<"info">>],
     [write |-> <<"state", "rootFsSize">>, emit |-> <<"state", "rootFsSize">>],
     [write |-> <<"pids", "blockOutput">>, emit |-> <<"pids", "blockOutput">>] >>
ContainerFull == <<"id", "name", "image_id", "pod_id">>
ContainerShort == <<"id", "pod_id">>

NoWhitelist == {}

AllLists == {<< >>, <<"web">>, <<"db">>, <<"web", "db">>}
OneOrTwo == {<<"web">>, <<"web", "db">>}

\* podman labels: "ID" is a default label in another case; "app" may be selected
Names == {"ID", "app", "io.app", "io-app", "version"}
LowerNames == [l \in Names |-> IF l = "ID" THEN "id" ELSE l]
SanitizedNames == [l \in Names |-> IF l \in {"io.app", "io-app"} THEN "io_app" ELSE l]

LabelledObjects ==
  [o \in {"web", "db"} |-> IF o = "web" THEN {"ID", "app", "io.app"} ELSE {"version"}]
SameCountObjects == [o \in {"web", "db"} |-> IF o = "web" THEN {"app"} ELSE {"version"}]
CollidingObjects == [o \in {"web", "db"} |-> IF o = "web" THEN {"io.app", "io-app"} ELSE {}]
SharedLabelObjects == [o \in {"web", "db"} |-> IF o = "web" THEN {"ID", "app"} ELSE {"app", "version"}]

AppOnly == {"app"}
Plain == {"plain"}
Both == {"plain", "filtered"}
Sym == Permutations(Scrapes)
=============================================================================
