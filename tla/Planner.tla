-------------------------------- MODULE Planner --------------------------------
(***************************************************************************)
(* What createPlanAndSpec of the control API reads out of a prompt.  A     *)
(* prompt is the set of the words below that it contains, in any place: the*)
(* search does not stop at word boundaries.  Pure operators, no state.     *)
(***************************************************************************)
LOCAL INSTANCE Naturals

\* The words that bring a module into the plan.
WordsFor ==
  [crm             |-> {"crm", "lead", "pipeline"},
   sale_management |-> {"sale", "quotation"},
   portal          |-> {"portal", "website"},
   website         |-> {"portal", "website"},
   contacts        |-> {"contact", "partner"},
   stock           |-> {"inventory", "warehouse"},
   purchase        |-> {"purchase", "procurement"},
   project         |-> {"project", "service"}]

LogicWords ==
  {"logic", "controller", "connector", "python", "api", "oauth", "migration", "compute"}

SettingsWords ==
  {"settings", "users", "company", "currency", "warehouse", "tax", "email server"}

CoreWords ==
  {"patch core", "monkey patch", "superuser", "destructive", "drop", "truncate",
   "production emergency"}

Words ==
  UNION {WordsFor[module] : module \in DOMAIN WordsFor}
    \cup LogicWords \cup SettingsWords \cup CoreWords

Prompts == SUBSET Words

InferModules(prompt) ==
  {"base", "mail"} \cup {module \in DOMAIN WordsFor : WordsFor[module] \cap prompt # {}}

InferChangeClasses(prompt) ==
  {"class_a"}
    \cup {c \in {"class_b"} : LogicWords \cap prompt # {}}
    \cup {c \in {"class_0"} : SettingsWords \cap prompt # {}}
    \cup {c \in {"class_c"} : CoreWords \cap prompt # {}}

Elevated(prompt) == "class_c" \in InferChangeClasses(prompt)

RiskLevels == {"low", "medium", "high", "critical"}

RiskRank(level) ==
  CASE level = "low" -> 1 [] level = "medium" -> 2 [] level = "high" -> 3
    [] level = "critical" -> 4

\* The level of the plan and of the spec; the tolerance comes with the request.
RiskLevel(prompt, tolerance) == IF Elevated(prompt) THEN "high" ELSE tolerance
==============================================================================
