------------------------------- MODULE OdooDrift -------------------------------
(***************************************************************************)
(* detectDrift of packages/odoo-adapter.  Of a snapshot it looks at the    *)
(* modules and the views only, as maps from names to states and from ids to*)
(* hashes.  Pure operators, no state.                                      *)
(***************************************************************************)

\* What Map.get gives for a key that is not there, and a hash that counts as none.
CONSTANTS Undefined, NoHash

Lookup(map, key) == IF key \in DOMAIN map THEN map[key] ELSE Undefined

ModuleDrift(desired, actual) ==
  {[category |-> "module", key |-> name, desired |-> desired.modules[name],
    actual |-> Lookup(actual.modules, name)] :
     name \in {n \in DOMAIN desired.modules :
                 Lookup(actual.modules, n) # desired.modules[n]}}

\* The views of the actual snapshot whose expected hash is there and differs.
DriftedViews(desired, actual) ==
  {id \in DOMAIN actual.views :
     /\ Lookup(desired.views, id) \notin {Undefined, NoHash}
     /\ Lookup(desired.views, id) # actual.views[id]}

ViewDrift(desired, actual) ==
  {[category |-> "view", key |-> id, desired |-> desired.views[id],
    actual |-> actual.views[id]] : id \in DriftedViews(desired, actual)}

DetectDrift(desired, actual) ==
  ModuleDrift(desired, actual) \cup ViewDrift(desired, actual)
==============================================================================
