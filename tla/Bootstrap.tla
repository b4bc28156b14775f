------------------------------ MODULE Bootstrap ------------------------------
(***************************************************************************)
(* Starting the gateway: the configuration file and the interactive        *)
(* bootstrap that installs the compatibility objects in Exasol, run of     *)
(* src/main.rs and src/bootstrap.rs.                                       *)
(*                                                                         *)
(* Several gateways may be started against one Exasol database; each start *)
(* runs its scripts statement by statement, and any statement can fail.    *)
(* The statements create or replace, so one can be executed again.         *)
(***************************************************************************)
EXTENDS Naturals

CONSTANTS Gateways,        \* gateways that share an Exasol database
          CatalogLength,   \* statements of CATALOG_SQL
          ScriptLength,    \* statements of PREPROCESSOR_SQL
          Managed          \* is the configured preprocessor the gateway's own

\* The catalog script starts with the two CREATE SCHEMA statements, the
\* preprocessor script with the first of them; its last creates the script.
ASSUME LengthsAssumption ==
  /\ CatalogLength \in Nat /\ CatalogLength >= 2
  /\ ScriptLength \in Nat /\ ScriptLength >= 2
ASSUME ManagedAssumption == Managed \in BOOLEAN

Scripts == {"catalog", "preprocessor"}
Last(s) == IF s = "catalog" THEN CatalogLength ELSE ScriptLength

VARIABLES config,     \* does the configuration file exist
          step,       \* how far the start of each gateway has come
          index,      \* the next statement of the script it runs
          executed,   \* the statements of each script that took effect
          permitted,  \* history: the scripts the operator agreed to
          finished    \* history: the scripts this start reported installed

vars == <<config, step, index, executed, permitted, finished>>
history == <<permitted, finished>>

Prompts == {"ask", "missing", "present", "no script"}
Steps == {"off", "check", "optional", "serving"} \cup Prompts \cup Scripts

Init == /\ config = FALSE
        /\ step = [g \in Gateways |-> "off"]
        /\ index = [g \in Gateways |-> 1]
        /\ executed = [s \in Scripts |-> {}]
        /\ permitted = [g \in Gateways |-> {}]
        /\ finished = [g \in Gateways |-> {}]

Go(g, next) == step' = [step EXCEPT ![g] = next]

\* A start from a terminal asks about the bootstrap; --no-bootstrap and a
\* start without a terminal do not.  Only a terminal can make the missing
\* configuration file; without it the start fails.
start(g) ==
  /\ step[g] = "off"
  /\ \/ config' = TRUE /\ Go(g, "ask")
     \/ config' = TRUE /\ Go(g, "serving")
  /\ permitted' = [permitted EXCEPT ![g] = {}]
  /\ finished' = [finished EXCEPT ![g] = {}]
  /\ UNCHANGED <<index, executed>>

run_interactive_bootstrap(g) ==
  /\ step[g] = "ask"
  /\ \/ Go(g, "serving")   \* the operator declines
     \/ Go(g, "check")     \* the setup credentials work ...
     \/ Go(g, "off")       \* ... or do not
  /\ UNCHANGED <<config, index, executed, history>>

SchemaCount ==
  (IF 1 \in executed["catalog"] \cup executed["preprocessor"] THEN 1 ELSE 0)
  + (IF 2 \in executed["catalog"] THEN 1 ELSE 0)

installed_schema_count(g) ==
  /\ step[g] = "check"
  /\ \/ Go(g, IF SchemaCount < 2 THEN "missing" ELSE "present")
     \/ Go(g, "off")
  /\ UNCHANGED <<config, index, executed, history>>

\* Run a script from its first statement, with the operator's agreement.
Agree(g, s) == /\ Go(g, s)
               /\ index' = [index EXCEPT ![g] = 1]
               /\ permitted' = [permitted EXCEPT ![g] = @ \cup {s}]

\* Mutant: missing objects are installed without asking.
InstallMissing(g) ==
  /\ step[g] \in {"missing", "present"}
  /\ \/ Agree(g, "catalog")
     \/ /\ step[g] = "missing" /\ Go(g, "catalog")
        /\ index' = [index EXCEPT ![g] = 1]
        /\ UNCHANGED permitted
     \/ Go(g, "optional") /\ UNCHANGED <<index, permitted>>
  /\ UNCHANGED <<config, executed, finished>>

confirm_catalog(g) ==
  /\ step[g] \in {"missing", "present"}
  /\ \/ Agree(g, "catalog")
     \/ Go(g, "optional") /\ UNCHANGED <<index, permitted>>
  /\ UNCHANGED <<config, executed, finished>>

ensure_optional_preprocessor(g) ==
  \/ /\ step[g] = "optional"
     /\ \/ (~Managed \/ ScriptLength \in executed["preprocessor"]) /\ Go(g, "serving")
        \/ (Managed /\ ScriptLength \notin executed["preprocessor"]) /\ Go(g, "no script")
        \/ Managed /\ Go(g, "off")   \* the query fails
     /\ UNCHANGED <<config, index, executed, history>>
  \/ /\ step[g] = "no script"
     /\ \/ Agree(g, "preprocessor")
        \/ Go(g, "serving") /\ UNCHANGED <<index, permitted>>
     /\ UNCHANGED <<config, executed, finished>>

\* Mutant: a statement that fails is skipped.
SkipFailed(g, s) ==
  /\ executed' \in {executed, [executed EXCEPT ![s] = @ \cup {index[g]}]}
  /\ index' = [index EXCEPT ![g] = @ + 1]
  /\ UNCHANGED step

\* A statement fails, with or without effect: the start fails.
StatementFails(g, s) ==
  /\ executed' \in {executed, [executed EXCEPT ![s] = @ \cup {index[g]}]}
  /\ Go(g, "off")
  /\ UNCHANGED index

\* Mutant: the loop ends before the last statement.
EndsEarly(g, s) == index[g] >= Last(s)

\* Mutant: the loop runs once more than there are statements.
EndsLate(g, s) == index[g] > Last(s) + 1

ScriptDone(g, s) == index[g] > Last(s)

execute_exasol_script(g) ==
  /\ step[g] \in Scripts
  /\ LET s == step[g] IN
       \/ /\ ~ScriptDone(g, s)
          /\ executed' = [executed EXCEPT ![s] = @ \cup {index[g]}]
          /\ index' = [index EXCEPT ![g] = @ + 1]
          /\ UNCHANGED <<step, finished>>
       \/ /\ ~ScriptDone(g, s)
          /\ StatementFails(g, s)
          /\ UNCHANGED finished
       \/ /\ ScriptDone(g, s)
          /\ Go(g, IF s = "catalog" THEN "optional" ELSE "serving")
          /\ finished' = [finished EXCEPT ![g] = @ \cup {s}]
          /\ UNCHANGED <<index, executed>>
  /\ UNCHANGED <<config, permitted>>

\* The process is stopped, or dies.
stop(g) ==
  /\ step[g] # "off"
  /\ Go(g, "off")
  /\ UNCHANGED <<config, index, executed, history>>

Next == \E g \in Gateways :
          \/ start(g) \/ run_interactive_bootstrap(g) \/ installed_schema_count(g)
          \/ confirm_catalog(g) \/ ensure_optional_preprocessor(g)
          \/ execute_exasol_script(g) \/ stop(g)

Spec == Init /\ [][Next]_vars
-----------------------------------------------------------------------------
\* Type invariant.
TypeOK ==
  /\ config \in BOOLEAN
  /\ step \in [Gateways -> Steps]
  /\ index \in [Gateways -> Nat \ {0}]
  /\ executed \in [Scripts -> SUBSET (Nat \ {0})]
  /\ permitted \in [Gateways -> SUBSET Scripts]
  /\ finished \in [Gateways -> SUBSET Scripts]
  /\ \A g \in Gateways : step[g] \in Scripts => index[g] <= Last(step[g]) + 1

\* Whatever fails or is killed, and whoever else installs at the same time,
\* what is installed is a prefix of the script: no object is there without
\* those it builds on (execute_exasol_script stops at the first failure).
InstalledInOrder == \A s \in Scripts : \E k \in 0 .. Last(s) : executed[s] = 1 .. k

\* A script that a start reported as installed is installed completely.
ReportedIsInstalled ==
  \A g \in Gateways : \A s \in finished[g] : executed[s] = 1 .. Last(s)

\* Nothing is created or refreshed in Exasol without asking: a gateway that is
\* in a script, each statement of which creates or replaces an object whether or
\* not it is there, has the agreement of its own operator to that script, given
\* in the same start (start forgets the agreements of the start before).
AskedFirst == \A g \in Gateways : step[g] \in Scripts => step[g] \in permitted[g]

\* When the bootstrap finds the compatibility objects present, they are.
PresentIsInstalled ==
  \A g \in Gateways : step[g] = "present" => executed["catalog"] = 1 .. CatalogLength
=============================================================================
