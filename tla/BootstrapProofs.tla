--------------------------- MODULE BootstrapProofs ---------------------------
(***************************************************************************)
(* Proofs about the bootstrap, for any number of gateways and scripts of   *)
(* any length.  That a script is installed in order is not inductive on    *)
(* its own: a gateway that runs a script must have executed all statements *)
(* before its index.  That is Running below.                               *)
(***************************************************************************)
EXTENDS Bootstrap, TLAPS

\* A gateway in a script has executed what comes before its index.
Running ==
  \A g \in Gateways : step[g] \in Scripts => 1 .. (index[g] - 1) \subseteq executed[step[g]]

IInv == TypeOK /\ InstalledInOrder /\ Running /\ ReportedIsInstalled

\* Both scripts are longer than their CREATE SCHEMA statements.
LEMMA LastIsPositive == \A s \in Scripts : Last(s) \in Nat /\ Last(s) >= 2
  BY LengthsAssumption DEF Last, Scripts

\* A prefix that holds everything before i is still one with i added.
LEMMA PrefixGrows ==
  ASSUME NEW n \in Nat, NEW k \in 0 .. n, NEW i \in 1 .. n, 1 .. (i - 1) \subseteq 1 .. k
  PROVE  \E m \in 0 .. n : (1 .. k) \cup {i} = 1 .. m
<1>1. i - 1 <= k
  <2>1. CASE i = 1 BY <2>1
  <2>2. CASE i # 1
    <3>1. (i - 1) \in 1 .. (i - 1) BY <2>2
    <3>2. QED BY <3>1
  <2>3. QED BY <2>1, <2>2
<1>2. CASE i <= k
  <2>1. (1 .. k) \cup {i} = 1 .. k BY <1>2
  <2>2. QED BY <2>1
<1>3. CASE i = k + 1
  <2>1. (1 .. k) \cup {i} = 1 .. (k + 1) BY <1>3
  <2>2. QED BY <2>1, <1>3
<1>4. QED BY <1>1, <1>2, <1>3

\* A step that executes no statement and leaves the indices alone keeps the
\* invariant, if the gateway that moves does not get into a script.
LEMMA QuietStep ==
  ASSUME IInv, NEW g \in Gateways, NEW next \in Steps \ Scripts, Go(g, next),
         UNCHANGED <<index, executed>>,
         config' \in BOOLEAN,
         permitted' \in [Gateways -> SUBSET Scripts],
         finished' \in [Gateways -> SUBSET Scripts],
         \A h \in Gateways : finished'[h] \subseteq finished[h]
  PROVE  IInv'
<1> USE DEF IInv, Go
<1>1. step' \in [Gateways -> Steps] BY DEF TypeOK
<1>2. \A h \in Gateways : step'[h] \in Scripts => step'[h] = step[h] BY DEF TypeOK
<1>3. TypeOK' BY <1>1, <1>2 DEF TypeOK
<1>4. InstalledInOrder' BY DEF InstalledInOrder
<1>5. Running' BY <1>2 DEF Running
<1>6. ReportedIsInstalled' BY DEF ReportedIsInstalled
<1>7. QED BY <1>3, <1>4, <1>5, <1>6

\* Starting on a script keeps it.
LEMMA AgreeStep ==
  ASSUME IInv, NEW g \in Gateways, NEW s \in Scripts, Agree(g, s),
         UNCHANGED <<config, executed, finished>>
  PROVE  IInv'
<1> USE DEF IInv, Agree, Go
<1>1. step' = [step EXCEPT ![g] = s] /\ index' = [index EXCEPT ![g] = 1] OBVIOUS
<1>2. TypeOK'
  <2>1. step' \in [Gateways -> Steps] BY <1>1 DEF TypeOK, Steps
  <2>2. index' \in [Gateways -> Nat \ {0}] BY <1>1 DEF TypeOK
  <2>3. permitted' \in [Gateways -> SUBSET Scripts] BY DEF TypeOK
  <2>4. \A h \in Gateways : step'[h] \in Scripts => index'[h] <= Last(step'[h]) + 1
    <3> SUFFICES ASSUME NEW h \in Gateways, step'[h] \in Scripts
                 PROVE  index'[h] <= Last(step'[h]) + 1
      OBVIOUS
    <3>1. CASE h = g
      <4>1. index'[h] = 1 /\ step'[h] = s BY <3>1, <1>1 DEF TypeOK
      <4>2. QED BY <4>1, LastIsPositive
    <3>2. CASE h # g
      <4>1. index'[h] = index[h] /\ step'[h] = step[h] BY <3>2, <1>1 DEF TypeOK
      <4>2. QED BY <4>1 DEF TypeOK
    <3>3. QED BY <3>1, <3>2
  <2>5. QED BY <2>1, <2>2, <2>3, <2>4 DEF TypeOK
<1>3. InstalledInOrder' BY DEF InstalledInOrder
<1>4. Running'
  <2> SUFFICES ASSUME NEW h \in Gateways, step'[h] \in Scripts
               PROVE  1 .. (index'[h] - 1) \subseteq executed'[step'[h]]
    BY DEF Running
  <2>1. CASE h = g
    <3>1. index'[h] = 1 BY <2>1, <1>1 DEF TypeOK
    <3>2. 1 .. (index'[h] - 1) = {} BY <3>1
    <3>3. QED BY <3>2
  <2>2. CASE h # g
    <3>1. index'[h] = index[h] /\ step'[h] = step[h] BY <2>2, <1>1 DEF TypeOK
    <3>2. QED BY <3>1 DEF Running
  <2>3. QED BY <2>1, <2>2
<1>5. ReportedIsInstalled' BY DEF ReportedIsInstalled
<1>6. QED BY <1>2, <1>3, <1>4, <1>5

\* So does a statement of a script that takes effect: the script stays a
\* prefix, and no script that was complete changes.
LEMMA StatementTakesEffect ==
  ASSUME IInv, NEW g \in Gateways, step[g] \in Scripts, ~ScriptDone(g, step[g]),
         executed' = [executed EXCEPT ![step[g]] = @ \cup {index[g]}],
         UNCHANGED finished
  PROVE  /\ InstalledInOrder'
         /\ ReportedIsInstalled'
         /\ executed' \in [Scripts -> SUBSET (Nat \ {0})]
         /\ \A s \in Scripts : executed[s] \subseteq executed'[s]
         /\ index[g] \in executed'[step[g]]
<1> USE DEF IInv
<1> DEFINE s0 == step[g]
<1>1. /\ Last(s0) \in Nat
      /\ index[g] \in 1 .. Last(s0)
  BY LastIsPositive DEF TypeOK, ScriptDone
<1>2. executed'[s0] = executed[s0] \cup {index[g]} BY DEF TypeOK
<1>3. \A s \in Scripts \ {s0} : executed'[s] = executed[s] BY DEF TypeOK
<1>4. PICK k \in 0 .. Last(s0) : executed[s0] = 1 .. k BY DEF InstalledInOrder
<1>5. 1 .. (index[g] - 1) \subseteq 1 .. k BY <1>4 DEF Running
<1>6. PICK m \in 0 .. Last(s0) : (1 .. k) \cup {index[g]} = 1 .. m
  BY <1>1, <1>5, PrefixGrows
<1>7. executed'[s0] = 1 .. m BY <1>2, <1>4, <1>6
<1>8. InstalledInOrder' BY <1>3, <1>7 DEF InstalledInOrder
<1>9. ReportedIsInstalled'
  <2> SUFFICES ASSUME NEW h \in Gateways, NEW s \in finished[h]
               PROVE  executed'[s] = 1 .. Last(s)
    BY DEF ReportedIsInstalled
  <2>1. s \in Scripts /\ executed[s] = 1 .. Last(s) BY DEF TypeOK, ReportedIsInstalled
  <2>2. CASE s = s0 BY <2>1, <2>2, <1>1, <1>2
  <2>3. CASE s # s0 BY <2>1, <2>3, <1>3
  <2>4. QED BY <2>2, <2>3
<1>10. executed' \in [Scripts -> SUBSET (Nat \ {0})] BY <1>1 DEF TypeOK
<1>11. QED BY <1>2, <1>3, <1>8, <1>9, <1>10

\* A statement of a script keeps what is installed in order.
LEMMA ScriptStep ==
  ASSUME IInv, NEW g \in Gateways, execute_exasol_script(g)
  PROVE  IInv'
<1> USE DEF IInv
<1> DEFINE s0 == step[g]
<1>0. s0 \in Scripts /\ UNCHANGED <<config, permitted>> BY DEF execute_exasol_script
<1>1. CASE /\ ~ScriptDone(g, s0)
           /\ executed' = [executed EXCEPT ![s0] = @ \cup {index[g]}]
           /\ index' = [index EXCEPT ![g] = @ + 1]
           /\ UNCHANGED <<step, finished>>
  <2>1. /\ InstalledInOrder' /\ ReportedIsInstalled'
        /\ executed' \in [Scripts -> SUBSET (Nat \ {0})]
        /\ \A s \in Scripts : executed[s] \subseteq executed'[s]
        /\ index[g] \in executed'[s0]
    BY <1>0, <1>1, StatementTakesEffect
  <2>2. \A h \in Gateways \ {g} : index'[h] = index[h] BY <1>1 DEF TypeOK
  <2>3. index'[g] = index[g] + 1 /\ index[g] \in Nat \ {0} BY <1>1 DEF TypeOK
  <2>4. index[g] <= Last(s0) /\ Last(s0) \in Nat
    BY <1>0, <1>1, <2>3, LastIsPositive DEF ScriptDone
  <2>5. TypeOK'
    <3>1. index' \in [Gateways -> Nat \ {0}] BY <1>1 DEF TypeOK
    <3>2. \A h \in Gateways : step'[h] \in Scripts => index'[h] <= Last(step'[h]) + 1
      BY <1>1, <2>2, <2>3, <2>4 DEF TypeOK
    <3>3. QED BY <1>0, <1>1, <2>1, <3>1, <3>2 DEF TypeOK
  <2>6. Running'
    <3> SUFFICES ASSUME NEW h \in Gateways, step'[h] \in Scripts
                 PROVE  1 .. (index'[h] - 1) \subseteq executed'[step'[h]]
      BY DEF Running
    <3>1. step'[h] = step[h] BY <1>1
    <3>2. 1 .. (index[h] - 1) \subseteq executed'[step[h]] BY <2>1, <3>1 DEF Running
    <3>3. CASE h = g
      <4>1. 1 .. (index'[h] - 1) = (1 .. (index[h] - 1)) \cup {index[h]} BY <2>3, <3>3
      <4>2. QED BY <4>1, <3>1, <3>2, <3>3, <2>1
    <3>4. CASE h # g BY <3>1, <3>2, <3>4, <2>2
    <3>5. QED BY <3>3, <3>4
  <2>7. QED BY <2>1, <2>5, <2>6
<1>2. CASE ~ScriptDone(g, s0) /\ StatementFails(g, s0) /\ UNCHANGED finished
  <2>1. CASE executed' = executed
    <3>1. Go(g, "off") /\ UNCHANGED <<index, executed>> BY <1>2, <2>1 DEF StatementFails
    <3>2. /\ "off" \in Steps \ Scripts
          /\ config' \in BOOLEAN
          /\ permitted' \in [Gateways -> SUBSET Scripts]
          /\ finished' \in [Gateways -> SUBSET Scripts]
          /\ \A h \in Gateways : finished'[h] \subseteq finished[h]
      BY <1>0, <1>2 DEF TypeOK, Steps, Scripts, Prompts
    <3>3. QED BY <3>1, <3>2, QuietStep
  <2>2. CASE executed' = [executed EXCEPT ![s0] = @ \cup {index[g]}]
    <3>1. /\ InstalledInOrder' /\ ReportedIsInstalled'
          /\ executed' \in [Scripts -> SUBSET (Nat \ {0})]
          /\ \A s \in Scripts : executed[s] \subseteq executed'[s]
      BY <1>0, <1>2, <2>2, StatementTakesEffect
    <3>2. step' = [step EXCEPT ![g] = "off"] /\ UNCHANGED index
      BY <1>2 DEF StatementFails, Go
    <3>3. "off" \in Steps \ Scripts BY DEF Steps, Scripts, Prompts
    <3>4. step' \in [Gateways -> Steps] BY <3>2, <3>3 DEF TypeOK
    <3>5. \A h \in Gateways : step'[h] \in Scripts => step'[h] = step[h]
      BY <3>2, <3>3 DEF TypeOK
    <3>6. TypeOK' BY <1>0, <1>2, <3>1, <3>2, <3>4, <3>5 DEF TypeOK
    <3>7. Running' BY <3>1, <3>2, <3>5 DEF Running
    <3>8. QED BY <3>1, <3>6, <3>7
  <2>3. QED BY <1>2, <2>1, <2>2 DEF StatementFails
<1>3. CASE /\ ScriptDone(g, s0)
           /\ Go(g, IF s0 = "catalog" THEN "optional" ELSE "serving")
           /\ finished' = [finished EXCEPT ![g] = @ \cup {s0}]
           /\ UNCHANGED <<index, executed>>
  <2> DEFINE next == IF s0 = "catalog" THEN "optional" ELSE "serving"
  <2>1. next \in Steps \ Scripts BY DEF Steps, Scripts, Prompts
  <2>2. step' = [step EXCEPT ![g] = next] BY <1>3 DEF Go
  <2>3. step' \in [Gateways -> Steps] BY <2>1, <2>2 DEF TypeOK
  <2>4. \A h \in Gateways : step'[h] \in Scripts => step'[h] = step[h]
    BY <2>1, <2>2 DEF TypeOK
  <2>5. finished' \in [Gateways -> SUBSET Scripts] BY <1>0, <1>3 DEF TypeOK
  <2>6. TypeOK' BY <1>0, <1>3, <2>3, <2>4, <2>5 DEF TypeOK
  <2>7. InstalledInOrder' BY <1>3 DEF InstalledInOrder
  <2>8. Running' BY <1>3, <2>4 DEF Running
  <2>9. executed[s0] = 1 .. Last(s0)
    <3>1. index[g] \in Nat \ {0} /\ Last(s0) \in Nat /\ index[g] = Last(s0) + 1
      BY <1>0, <1>3, LastIsPositive DEF TypeOK, ScriptDone
    <3>2. 1 .. Last(s0) \subseteq executed[s0]
      <4>1. index[g] - 1 = Last(s0) BY <3>1
      <4>2. QED BY <1>0, <4>1 DEF Running
    <3>3. PICK k \in 0 .. Last(s0) : executed[s0] = 1 .. k BY <1>0 DEF InstalledInOrder
    <3>4. 1 .. k \subseteq 1 .. Last(s0) BY <3>1, <3>3
    <3>5. QED BY <3>2, <3>3, <3>4
  <2>10. ReportedIsInstalled'
    <3> SUFFICES ASSUME NEW h \in Gateways, NEW s \in finished'[h]
                 PROVE  executed'[s] = 1 .. Last(s)
      BY DEF ReportedIsInstalled
    <3>1. CASE s = s0 BY <3>1, <1>3, <2>9
    <3>2. CASE s # s0
      <4>1. s \in finished[h] BY <3>2, <1>3 DEF TypeOK
      <4>2. QED BY <4>1, <1>3 DEF ReportedIsInstalled
    <3>3. QED BY <3>1, <3>2
  <2>11. QED BY <2>6, <2>7, <2>8, <2>10
<1>4. QED BY <1>1, <1>2, <1>3 DEF execute_exasol_script

\* Nothing is installed by a gateway at first.
LEMMA InitIInv == Init => IInv
<1> SUFFICES ASSUME Init PROVE IInv OBVIOUS
<1>1. TypeOK
  <2>1. "off" \in Steps /\ "off" \notin Scripts BY DEF Steps, Scripts
  <2>2. /\ step \in [Gateways -> Steps]
        /\ \A g \in Gateways : step[g] \notin Scripts
    BY <2>1 DEF Init
  <2>3. config \in BOOLEAN BY DEF Init
  <2>4. index \in [Gateways -> Nat \ {0}] BY DEF Init
  <2>5. executed \in [Scripts -> SUBSET (Nat \ {0})] BY DEF Init
  <2>6. /\ permitted \in [Gateways -> SUBSET Scripts]
        /\ finished \in [Gateways -> SUBSET Scripts]
    BY DEF Init
  <2>7. QED BY <2>2, <2>3, <2>4, <2>5, <2>6 DEF TypeOK
<1>2. InstalledInOrder
  <2>1. \A s \in Scripts : executed[s] = 1 .. 0 /\ 0 \in 0 .. Last(s)
    BY LastIsPositive DEF Init
  <2>2. QED BY <2>1 DEF InstalledInOrder
<1>3. Running BY DEF Init, Running, Scripts
<1>4. ReportedIsInstalled BY DEF Init, ReportedIsInstalled
<1>5. QED BY <1>1, <1>2, <1>3, <1>4 DEF IInv

\* Every step of a gateway keeps the invariant.
LEMMA NextIInv == IInv /\ [Next]_vars => IInv'
<1> SUFFICES ASSUME IInv, [Next]_vars PROVE IInv' OBVIOUS
<1>0. /\ {"off", "check", "optional", "serving", "ask", "missing", "present", "no script"}
           \subseteq Steps \ Scripts
      /\ {"catalog", "preprocessor"} = Scripts
  BY DEF Steps, Scripts, Prompts
<1>u. /\ config \in BOOLEAN
      /\ permitted \in [Gateways -> SUBSET Scripts]
      /\ finished \in [Gateways -> SUBSET Scripts]
  BY DEF IInv, TypeOK
<1>1. ASSUME NEW g \in Gateways, start(g) PROVE IInv'
  <2>1. PICK next \in {"ask", "serving"} : Go(g, next) BY <1>1 DEF start
  <2>2. /\ config' \in BOOLEAN /\ UNCHANGED <<index, executed>>
        /\ permitted' \in [Gateways -> SUBSET Scripts]
        /\ finished' \in [Gateways -> SUBSET Scripts]
        /\ \A h \in Gateways : finished'[h] \subseteq finished[h]
    BY <1>1, <1>u DEF start
  <2>3. QED BY <2>1, <2>2, <1>0, QuietStep
<1>2. ASSUME NEW g \in Gateways, run_interactive_bootstrap(g) PROVE IInv'
  <2>1. PICK next \in {"serving", "check", "off"} : Go(g, next)
    BY <1>2 DEF run_interactive_bootstrap
  <2>2. UNCHANGED <<config, index, executed, permitted, finished>>
    BY <1>2 DEF run_interactive_bootstrap, history
  <2>3. QED BY <2>1, <2>2, <1>0, <1>u, QuietStep
<1>3. ASSUME NEW g \in Gateways, installed_schema_count(g) PROVE IInv'
  <2>1. PICK next \in {"missing", "present", "off"} : Go(g, next)
    BY <1>3 DEF installed_schema_count
  <2>2. UNCHANGED <<config, index, executed, permitted, finished>>
    BY <1>3 DEF installed_schema_count, history
  <2>3. QED BY <2>1, <2>2, <1>0, <1>u, QuietStep
<1>4. ASSUME NEW g \in Gateways, confirm_catalog(g) PROVE IInv'
  <2>1. UNCHANGED <<config, executed, finished>> BY <1>4 DEF confirm_catalog
  <2>2. CASE Agree(g, "catalog") BY <2>1, <2>2, <1>0, AgreeStep
  <2>3. CASE Go(g, "optional") /\ UNCHANGED <<index, permitted>>
    BY <2>1, <2>3, <1>0, <1>u, QuietStep
  <2>4. QED BY <1>4, <2>2, <2>3 DEF confirm_catalog
<1>5. ASSUME NEW g \in Gateways, ensure_optional_preprocessor(g) PROVE IInv'
  <2>1. UNCHANGED <<config, executed, finished>>
    BY <1>5 DEF ensure_optional_preprocessor, history
  <2>2. CASE Agree(g, "preprocessor") BY <2>1, <2>2, <1>0, AgreeStep
  <2>3. CASE /\ \E next \in {"serving", "no script", "off"} : Go(g, next)
             /\ UNCHANGED <<index, permitted>>
    <3>1. PICK next \in {"serving", "no script", "off"} : Go(g, next) BY <2>3
    <3>2. QED BY <2>1, <2>3, <3>1, <1>0, <1>u, QuietStep
  <2>4. QED BY <1>5, <2>2, <2>3 DEF ensure_optional_preprocessor, history
<1>6. ASSUME NEW g \in Gateways, execute_exasol_script(g) PROVE IInv'
  BY <1>6, ScriptStep
<1>7. ASSUME NEW g \in Gateways, stop(g) PROVE IInv'
  <2>1. Go(g, "off") /\ UNCHANGED <<config, index, executed, permitted, finished>>
    BY <1>7 DEF stop, history
  <2>2. QED BY <2>1, <1>0, <1>u, QuietStep
<1>8. CASE UNCHANGED vars
  BY <1>8 DEF vars, IInv, TypeOK, InstalledInOrder, Running, ReportedIsInstalled
<1>9. QED BY <1>1, <1>2, <1>3, <1>4, <1>5, <1>6, <1>7, <1>8 DEF Next

\* For any number of gateways and scripts of any length, what
\* execute_exasol_script leaves behind is a prefix of the script, whatever
\* failed, was killed or ran at the same time.
THEOREM InOrderTheorem == Spec => []InstalledInOrder
<1>1. IInv => InstalledInOrder BY DEF IInv
<1>2. QED BY InitIInv, NextIInv, <1>1, PTL DEF Spec

\* And a script reported as installed is installed to its last statement.
THEOREM ReportedTheorem == Spec => []ReportedIsInstalled
<1>1. IInv => ReportedIsInstalled BY DEF IInv
<1>2. QED BY InitIInv, NextIInv, <1>1, PTL DEF Spec
-----------------------------------------------------------------------------
\* Agreements are kept per gateway, which takes the types to say.
AskedInv == TypeOK /\ AskedFirst

\* A step that leaves the agreements alone and gets no gateway into a script.
LEMMA AskedQuiet ==
  ASSUME AskedInv, TypeOK', NEW g \in Gateways, NEW next, next \notin Scripts, Go(g, next),
         \A h \in Gateways \ {g} : permitted'[h] = permitted[h]
  PROVE  AskedInv'
<1>1. \A h \in Gateways : step'[h] = IF h = g THEN next ELSE step[h]
  BY DEF AskedInv, TypeOK, Go
<1>2. QED BY <1>1 DEF AskedInv, AskedFirst

\* Starting on a script records the agreement.
LEMMA AskedAgree ==
  ASSUME AskedInv, TypeOK', NEW g \in Gateways, NEW s \in Scripts, Agree(g, s)
  PROVE  AskedInv'
<1>1. \A h \in Gateways : step'[h] = IF h = g THEN s ELSE step[h]
  BY DEF AskedInv, TypeOK, Agree, Go
<1>2. \A h \in Gateways : permitted[h] \subseteq permitted'[h] /\ s \in permitted'[g]
  BY DEF AskedInv, TypeOK, Agree
<1>3. QED BY <1>1, <1>2 DEF AskedInv, AskedFirst

\* A gateway comes into a script only by its operator's agreement.
LEMMA AskedStep ==
  ASSUME AskedInv, TypeOK', [Next]_vars
  PROVE  AskedInv'
<1>0. /\ {"off", "check", "optional", "serving", "ask", "missing", "present", "no script"}
           \cap Scripts = {}
      /\ {"catalog", "preprocessor"} = Scripts
  BY DEF Scripts
<1>1. ASSUME NEW g \in Gateways, start(g) PROVE AskedInv'
  <2>1. PICK next \in {"ask", "serving"} : Go(g, next) BY <1>1 DEF start
  <2>2. \A h \in Gateways \ {g} : permitted'[h] = permitted[h]
    BY <1>1 DEF start, AskedInv, TypeOK
  <2>3. QED BY <1>0, <2>1, <2>2, AskedQuiet
<1>2. ASSUME NEW g \in Gateways, run_interactive_bootstrap(g) PROVE AskedInv'
  <2>1. PICK next \in {"serving", "check", "off"} : Go(g, next)
    BY <1>2 DEF run_interactive_bootstrap
  <2>2. UNCHANGED permitted BY <1>2 DEF run_interactive_bootstrap, history
  <2>3. QED BY <1>0, <2>1, <2>2, AskedQuiet
<1>3. ASSUME NEW g \in Gateways, installed_schema_count(g) PROVE AskedInv'
  <2>1. PICK next \in {"missing", "present", "off"} : Go(g, next)
    BY <1>3 DEF installed_schema_count
  <2>2. UNCHANGED permitted BY <1>3 DEF installed_schema_count, history
  <2>3. QED BY <1>0, <2>1, <2>2, AskedQuiet
<1>4. ASSUME NEW g \in Gateways, confirm_catalog(g) PROVE AskedInv'
  <2>1. CASE Agree(g, "catalog") BY <1>0, <2>1, AskedAgree
  <2>2. CASE Go(g, "optional") /\ UNCHANGED permitted BY <1>0, <2>2, AskedQuiet
  <2>3. QED BY <1>4, <2>1, <2>2 DEF confirm_catalog
<1>5. ASSUME NEW g \in Gateways, ensure_optional_preprocessor(g) PROVE AskedInv'
  <2>1. CASE Agree(g, "preprocessor") BY <1>0, <2>1, AskedAgree
  <2>2. CASE /\ \E next \in {"serving", "no script", "off"} : Go(g, next)
             /\ UNCHANGED permitted
    BY <1>0, <2>2, AskedQuiet
  <2>3. QED BY <1>5, <2>1, <2>2 DEF ensure_optional_preprocessor, history
<1>6. ASSUME NEW g \in Gateways, execute_exasol_script(g) PROVE AskedInv'
  <2>1. UNCHANGED permitted BY <1>6 DEF execute_exasol_script
  <2>2. CASE UNCHANGED step BY <2>1, <2>2 DEF AskedInv, AskedFirst
  <2>3. CASE \E next \in {"off", "optional", "serving"} : Go(g, next)
    BY <1>0, <2>1, <2>3, AskedQuiet
  <2>4. QED BY <1>6, <2>2, <2>3 DEF execute_exasol_script, StatementFails
<1>7. ASSUME NEW g \in Gateways, stop(g) PROVE AskedInv'
  BY <1>0, <1>7, AskedQuiet DEF stop, history
<1>8. CASE UNCHANGED vars BY <1>8 DEF vars, AskedInv, AskedFirst
<1>9. QED BY <1>1, <1>2, <1>3, <1>4, <1>5, <1>6, <1>7, <1>8 DEF Next

\* The state of a start is well typed, and no script is read past its end.
THEOREM TypeCorrect == Spec => []TypeOK
<1>1. IInv => TypeOK BY DEF IInv
<1>2. QED BY InitIInv, NextIInv, <1>1, PTL DEF Spec

\* For any number of gateways and scripts of any length, no gateway is ever in
\* a script its own operator has not agreed to in the same start, be the objects
\* of the script missing or already there.
THEOREM AskedTheorem == Spec => []AskedFirst
<1>1. Init => AskedInv BY InitIInv DEF Init, IInv, AskedInv, AskedFirst, Scripts
<1>2. AskedInv /\ TypeOK' /\ [Next]_vars => AskedInv' BY AskedStep
<1>3. AskedInv => AskedFirst BY DEF AskedInv
<1>4. QED BY <1>1, <1>2, <1>3, TypeCorrect, PTL DEF Spec
=============================================================================
