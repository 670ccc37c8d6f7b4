----------------------------- MODULE PolicyEngine -----------------------------
(***************************************************************************)
(* The rules of packages/policy-engine and the files the create handler of *)
(* the control API hands to it.  A file is abstracted to what the rules    *)
(* look at: the tree it lies in, its type, and the patterns its text       *)
(* matches.  Pure operators, no state.                                     *)
(***************************************************************************)

Profiles == {"strict", "standard", "permissive_dev"}

FileTypes == {"python", "acl_csv", "cron_xml", "other"}

\* What a regular expression of the engine can find in a file's text.
Patterns == {"full_grant", "superuser_id", "outbound_http",
             "destructive_sql", "mentions_docs_or_tests"}

FileFacts == [tree : {"upstream", "overlay"}, type : FileTypes,
              matches : SUBSET Patterns]

RuleIds == {"UPSTREAM_EDIT_REQUIRES_ELEVATION", "WILDCARD_ACL_GRANT",
            "SUPERUSER_ID_USAGE", "OUTBOUND_HTTP_REQUIRES_ALLOWLIST",
            "DESTRUCTIVE_SQL", "CRON_WITHOUT_COVERAGE"}

\* The rules a file sets off.
Triggered(file, elevated) ==
  {rule \in RuleIds :
     \/ /\ rule = "UPSTREAM_EDIT_REQUIRES_ELEVATION"
        /\ file.tree = "upstream" /\ ~elevated
     \/ /\ rule = "WILDCARD_ACL_GRANT"
        /\ file.type = "acl_csv" /\ "full_grant" \in file.matches
     \/ /\ rule = "SUPERUSER_ID_USAGE"
        /\ file.type = "python" /\ "superuser_id" \in file.matches
     \/ /\ rule = "OUTBOUND_HTTP_REQUIRES_ALLOWLIST"
        /\ file.type = "python" /\ "outbound_http" \in file.matches
     \/ /\ rule = "DESTRUCTIVE_SQL"
        /\ file.type = "python" /\ "destructive_sql" \in file.matches
     \/ /\ rule = "CRON_WITHOUT_COVERAGE"
        /\ file.type = "cron_xml"
        /\ "mentions_docs_or_tests" \notin file.matches}

CriticalRules == {"UPSTREAM_EDIT_REQUIRES_ELEVATION", "DESTRUCTIVE_SQL"}

\* The rules whose finding has blocked = true under a profile.
BlockedRules(profile) ==
  CriticalRules
    \cup (IF profile = "strict"
          THEN {"WILDCARD_ACL_GRANT", "OUTBOUND_HTTP_REQUIRES_ALLOWLIST"} ELSE {})
    \cup (IF profile # "permissive_dev" THEN {"SUPERUSER_ID_USAGE"} ELSE {})

Findings == [rule : RuleIds, critical : BOOLEAN, requiresApproval : BOOLEAN]

\* evaluatePolicies followed by the renaming of evaluateBuildPolicy, which
\* turns blocked into requiresApproval.
EvaluateBuildPolicy(profile, files, elevated) ==
  {[rule |-> rule, critical |-> rule \in CriticalRules,
    requiresApproval |-> rule \in BlockedRules(profile)] :
       rule \in UNION {Triggered(file, elevated) : file \in files}}

RequiresEscalation(findings) ==
  \E finding \in findings : finding.requiresApproval \/ finding.critical

\* The three generated files the create handler reads back: the manifest, the
\* access list (which grants 1,1,1,0, never 1,1,1,1) and the service stub.
CandidateFiles ==
  {[tree |-> "overlay", type |-> "python",  matches |-> {}],
   [tree |-> "overlay", type |-> "acl_csv", matches |-> {}]}
==============================================================================
