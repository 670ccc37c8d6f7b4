------------------------------ MODULE Promotion ------------------------------
(***************************************************************************)
(* The promotion gate of packages/deployment: the environments a build may *)
(* be deployed to, in order of criticality, and the check of the path a    *)
(* build was requested with.  Pure operators, no state.                    *)
(***************************************************************************)
LOCAL INSTANCE Naturals
LOCAL INSTANCE Sequences

EnvOrder == <<"dev", "sandbox", "staging", "production">>

Environments == {"dev", "sandbox", "staging", "production"}

\* The two environments the deploy handler asks an approved build for.
ProtectedEnvironments == {"staging", "production"}

\* ENV_ORDER.indexOf(env), counted from 1.
Criticality(env) == CHOOSE i \in 1 .. 4 : EnvOrder[i] = env

\* No hop of the path goes back to a less critical environment; a repeated
\* environment is allowed.
MonotonicPath(path) ==
  \A i \in 2 .. Len(path) : Criticality(path[i - 1]) <= Criticality(path[i])

\* validatePromotionPath(path, target).allowed
ValidatePromotionPath(path, target) ==
  /\ \E i \in 1 .. Len(path) : path[i] = target
  /\ MonotonicPath(path)
==============================================================================
