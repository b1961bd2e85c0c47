---------------------------- MODULE ResourceMap ----------------------------
(***************************************************************************)
(* What the tables of the SimpleAssets runtime promise (mapping/ and        *)
(* engine/replacement.c): a resource is registered once, under a key no     *)
(* other resource has, and keeps its data; a target is replaced by the last *)
(* source asked for.  Nothing is ever removed.                              *)
(***************************************************************************)
CONSTANTS
  Resource,  \* a type name and a resource name
  Data,      \* what a resource is registered with: paths, bytes and stream range
  KeyOf(_)   \* type_hash and resource_hash

VARIABLES
  mapped,    \* the resources registered, with their data
  replaced   \* the targets replaced, with their sources

mapVars == <<mapped, replaced>>

Extended(f, x, value) == [y \in DOMAIN f \cup {x} |-> IF y = x THEN value ELSE f[y]]

MapInit == mapped = << >> /\ replaced = << >>

MapRegister(r, d) ==
  /\ \A other \in DOMAIN mapped : KeyOf(other) # KeyOf(r)
  /\ mapped' = Extended(mapped, r, d)
  /\ UNCHANGED replaced

MapReplace(target, source) ==
  /\ \A other \in DOMAIN replaced \ {target} : KeyOf(other) # KeyOf(target)
  /\ replaced' = Extended(replaced, target, KeyOf(source))
  /\ UNCHANGED mapped

MapNext ==
  \/ \E r \in Resource, d \in Data : MapRegister(r, d)
  \/ \E target, source \in Resource : MapReplace(target, source)

MapSpec == MapInit /\ [][MapNext]_mapVars
=============================================================================
