----------------------------- MODULE Collectors -----------------------------
(***************************************************************************)
(* The collectors of collector/: registerCollector makes each known by its *)
(* name, the container collector enabled and the others disabled.          *)
(***************************************************************************)
EXTENDS Integers

CONSTANTS
  Registered,  \* the collectors whose init function has run
  Err          \* the error of a call

AllCollectors ==
  {"container", "pod", "image", "volume", "network", "system", "disk_usage"}

ASSUME CollectorsAssumption == Registered \subseteq AllCollectors /\ "container" \in Registered

\* SetPodmanCollectorState: a name that is not registered changes nothing.
SetStates(state, names) == state \cup (names \cap Registered)
=============================================================================
