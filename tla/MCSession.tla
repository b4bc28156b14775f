------------------------------ MODULE MCSession ------------------------------
(* Small instances of Session: the texts a client sends. *)
EXTENDS Session

Plain(plan) == Statement(plan, None, FALSE)
Begin == Plain("ClientTransactionStart")
Commit == Plain("ClientTransactionEnd")
Run == Plain("Execute")

\* Every statement alone, and batches that fail or are refused half way.
SimpleTexts ==
  {<<s>> : s \in Statements} \cup
  {<< >>, <<Begin, Run, Commit>>, <<Commit, Plain("Reject"), Begin>>, <<Run, Run>>}

\* What portals are made of: transaction commands, a write, and a text of
\* two statements, which Parse refuses and a simple query runs.
ExtendedTexts == {<<Begin>>, <<Commit>>, <<Run>>, <<Begin, Commit>>}

\* Two statements in one simple query.
BatchTexts == {<<Run, Run>>}
=============================================================================
