----------------------------- MODULE MCExporter -----------------------------
(* Instances of Exporter: a container, an image with two references that      *)
(* decompose to the same labels, which another store has too, and one without *)
(* a reference, and command lines that enable the collectors by a flag each   *)
(* or all at once, or that cannot start.                                      *)
EXTENDS Exporter, TLC

CONSTANTS web, vol, net, pod

CommandLine == [on |-> {}, cacheDuration |-> 1, statsTimeout |-> 1, path |-> "apart",
                maxRequests |-> 1]
Lines ==
  { [CommandLine EXCEPT !.on = {"enable-all"}, !.statsTimeout = 0],
    [CommandLine EXCEPT !.on = {"image"}, !.maxRequests = 0, !.statsTimeout = 0],
    [CommandLine EXCEPT !.on = {"disk-usage"}],
    [CommandLine EXCEPT !.on = {"version"}],
    [CommandLine EXCEPT !.cacheDuration = 0],
    [CommandLine EXCEPT !.path = "root"] }

Failed == <<Err>>
Listed(o) == <<"report", <<o>> >>
PodmanAnswers ==
  [container |-> {Failed, Listed(web)}, pod |-> {Failed}, volume |-> {Listed(vol)},
   network |-> {Listed(net)}, system |-> {<<"report", "versions">>}]

Tagged == [form |-> "tagged", name |-> "app", tag |-> "1", text |-> "app:1"]
Pinned == [form |-> "tagged", name |-> "app", tag |-> "1", text |-> "app:1@digest"]
Named == [form |-> "named", name |-> "app", tag |-> "", text |-> "app@digest"]
Image(id, refs) == [id |-> id, parent |-> "", digest |-> "digest", refs |-> refs]
PodmanImages ==
  [v \in 1..MaxVer |->
     IF v = 1 THEN <<Image("i1", <<Tagged, Named, Pinned>>), Image("i2", << >>),
                       Image("i1", <<Named>>)>>
     ELSE <<Image("i1", <<Named>>)>>]
=============================================================================
