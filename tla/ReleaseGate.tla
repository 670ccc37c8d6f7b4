----------------------------- MODULE ReleaseGate -----------------------------
(***************************************************************************)
(* What the control API promises about protected releases, without its     *)
(* statuses, handlers, events or snapshot file: people decide on builds, a *)
(* build is open for release only while an approval stands, and a release  *)
(* to production uses the approval up.  An approval may also lapse (a      *)
(* handler that was under way when it was given overwrites it), but nothing*)
(* ever opens a build except a decision to approve it.                     *)
(***************************************************************************)
CONSTANTS Builds,       \* builds decided on and released
          Decisions,    \* what a reviewer may decide; "approve" is one of them
          Protected,    \* environments that need an approval
          ReleaseIds    \* names for releases

VARIABLES standing,     \* pairs <<build, its newest decision>>
          open,         \* builds open for release
          released      \* triples <<release id, build, environment>>

vars == <<standing, open, released>>

Init ==
  /\ standing = {}
  /\ open = {}
  /\ released = {}

Decide(b, action) ==
  /\ standing' = {v \in standing : v[1] # b} \cup {<<b, action>>}
  /\ open' = IF action = "approve" THEN open \cup {b} ELSE open \ {b}
  /\ UNCHANGED released

Lapse(b) ==
  /\ open' = open \ {b}
  /\ UNCHANGED <<standing, released>>

Release(b, env) ==
  /\ b \in open
  /\ <<b, "approve">> \in standing
  /\ \E id \in ReleaseIds :
       /\ \A r \in released : r[1] # id
       /\ released' = released \cup {<<id, b, env>>}
  /\ open' = IF env = "production" THEN open \ {b} ELSE open
  /\ UNCHANGED standing

Next ==
  \E b \in Builds :
    \/ \E action \in Decisions : Decide(b, action)
    \/ \E env \in Protected : Release(b, env)
    \/ Lapse(b)

Spec == Init /\ [][Next]_vars
==============================================================================
