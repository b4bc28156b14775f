---------------------------- MODULE SessionProofs ----------------------------
(***************************************************************************)
(* Proofs about the session: its type invariant and the safety invariants  *)
(* that the runs check, for all sets of names and of query texts.          *)
(***************************************************************************)
EXTENDS Session, TLAPS

\* Inserting into and removing from a map.
LEMMA InsertMap ==
  ASSUME NEW K, NEW V, NEW f, IsMap(f, K, V), NEW k \in K, NEW v \in V
  PROVE  IsMap(Insert(f, k, v), K, V)
  BY DEF IsMap, Insert

\* A map without a key is a map.
LEMMA RemoveMap ==
  ASSUME NEW K, NEW V, NEW f, IsMap(f, K, V), NEW k
  PROVE  IsMap(Remove(f, k), K, V)
  BY DEF IsMap, Remove

\* The empty map is a map.
LEMMA EmptyIsMap == ASSUME NEW K, NEW V PROVE IsMap(EmptyMap, K, V)
  BY DEF IsMap, EmptyMap

\* Exasol's answer keeps the record of its session well typed.
LEMMA ExasolType ==
  ASSUME StateTypeOK, NEW ok \in BOOLEAN, NEW schema \in Schemas \cup {None},
         ExasolExecute(ok, schema)
  PROVE  exasol' \in [up : BOOLEAN, schema : Schemas \cup {None}]
<1>1. exasol \in [up : BOOLEAN, schema : Schemas \cup {None}] BY DEF StateTypeOK
<1>2. \/ exasol' = [exasol EXCEPT !.schema = schema]
      \/ exasol' = exasol
      \/ exasol' = [exasol EXCEPT !.up = FALSE]
      \/ exasol' = [up |-> FALSE, schema |-> schema]
  BY DEF ExasolExecute
<1>3. [exasol EXCEPT !.schema = schema] \in [up : BOOLEAN, schema : Schemas \cup {None}]
  BY <1>1
<1>4. [exasol EXCEPT !.up = FALSE] \in [up : BOOLEAN, schema : Schemas \cup {None}]
  BY <1>1
<1>5. [up |-> FALSE, schema |-> schema] \in [up : BOOLEAN, schema : Schemas \cup {None}]
  OBVIOUS
<1>6. QED BY <1>1, <1>2, <1>3, <1>4, <1>5

\* Whatever Exasol does leaves it up or down, with a schema.
LEMMA ExasolAnswersType ==
  ASSUME StateTypeOK, NEW ok \in BOOLEAN, ExasolAnswers(ok)
  PROVE  exasol' \in [up : BOOLEAN, schema : Schemas \cup {None}]
<1>1. exasol.schema \in Schemas \cup {None} BY DEF StateTypeOK
<1>2. QED BY <1>1, ExasolType DEF ExasolAnswers

\* Running any statement keeps the session state well typed.
LEMMA StatementType ==
  ASSUME StateTypeOK, NEW s \in Statements, NEW res, execute_statement(s, res)
  PROVE  StateTypeOK'
<1>1. ASSUME UNCHANGED state PROVE StateTypeOK'
  BY <1>1 DEF state, StateTypeOK, IsMap
<1>2. CASE local_statement(s, res) BY <1>1, <1>2 DEF local_statement
<1>3. CASE end_transaction(s, res)
  BY <1>3 DEF end_transaction, StateTypeOK, IsMap
<1>4. CASE set_search_path(s, res)
  <2>1. s.arg \in Schemas BY <1>4 DEF set_search_path, Statements, PlainPlans
  <2>2. CASE NotConnected(res) BY <1>1, <2>2 DEF NotConnected
  <2>3. CASE /\ \/ ExasolExecute(TRUE, s.arg) /\ current_schema' = s.arg
                \/ ExasolExecute(FALSE, s.arg) /\ UNCHANGED current_schema
             /\ UNCHANGED cursors
    <3>1. exasol' \in [up : BOOLEAN, schema : Schemas \cup {None}]
      BY <2>1, <2>3, ExasolType
    <3>2. QED BY <2>1, <2>3, <3>1 DEF StateTypeOK, IsMap
  <2>4. QED BY <1>4, <2>2, <2>3 DEF set_search_path
<1>5. CASE show_search_path(s, res)
  BY <1>1, <1>5 DEF show_search_path, NotConnected
<1>6. CASE execute_metadata_query(s, res) \/ execute_exasol(s, res)
  <2>1. CASE NotConnected(res) BY <1>1, <2>1 DEF NotConnected
  <2>2. CASE /\ ExasolAnswers(TRUE) \/ ExasolAnswers(FALSE)
             /\ UNCHANGED <<current_schema, cursors>>
    <3>1. exasol' \in [up : BOOLEAN, schema : Schemas \cup {None}]
      BY <2>2, ExasolAnswersType
    <3>2. QED BY <2>2, <3>1 DEF StateTypeOK, IsMap
  <2>3. QED BY <1>6, <2>1, <2>2 DEF execute_metadata_query, execute_exasol
<1>7. CASE declare_cursor(s, res)
  <2>1. s.arg \in CursorNames /\ s.hold \in BOOLEAN
    BY <1>7 DEF declare_cursor, Statements, PlainPlans
  <2>2. CASE UNCHANGED state BY <1>1, <2>2
  <2>3. CASE /\ ExasolAnswers(TRUE) \/ ExasolAnswers(FALSE)
             /\ cursors' = Insert(cursors, s.arg, s.hold) \/ UNCHANGED cursors
             /\ UNCHANGED current_schema
    <3>1. exasol' \in [up : BOOLEAN, schema : Schemas \cup {None}]
      BY <2>3, ExasolAnswersType
    <3>2. IsMap(cursors', CursorNames, BOOLEAN)
      BY <2>1, <2>3, InsertMap DEF StateTypeOK
    <3>3. QED BY <2>3, <3>1, <3>2 DEF StateTypeOK
  <2>4. QED BY <1>7, <2>2, <2>3 DEF declare_cursor, NotConnected
<1>8. CASE fetch_or_move_cursor(s, res) BY <1>1, <1>8 DEF fetch_or_move_cursor
<1>9. CASE close_cursor(s, res)
  <2>1. CASE UNCHANGED state BY <1>1, <2>1
  <2>2. CASE /\ cursors' = EmptyMap \/ cursors' = Remove(cursors, s.arg)
             /\ UNCHANGED <<exasol, current_schema>>
    <3>1. IsMap(cursors', CursorNames, BOOLEAN)
      BY <2>2, RemoveMap, EmptyIsMap DEF StateTypeOK
    <3>2. QED BY <2>2, <3>1 DEF StateTypeOK
  <2>3. QED BY <1>9, <2>1, <2>2 DEF close_cursor, NotConnected
<1>10. QED
  BY <1>2, <1>3, <1>4, <1>5, <1>6, <1>7, <1>8, <1>9 DEF execute_statement

\* What is delivered keeps the status and what the client was told well typed.
LEMMA DeliveryType ==
  ASSUME ConnTypeOK, NEW kind
  PROVE  /\ StatusAfter(txStatus, kind) \in {"I", "T", "E"}
         /\ to_error_state(txStatus) \in {"I", "T", "E"}
         /\ ToldAfter(kind) \in {"I", "T"}
  BY DEF ConnTypeOK, StatusAfter, ToldAfter, to_in_transaction_state, to_error_state

\* The types hold before a client connects.
LEMMA TypeInit == Init => TypeOK
<1> SUFFICES ASSUME Init PROVE TypeOK OBVIOUS
<1>2. ConnTypeOK BY DEF Init, ConnTypeOK
<1>3. StateTypeOK BY EmptyIsMap DEF Init, StateTypeOK, NoExasol
<1>4. ExtendedTypeOK BY EmptyIsMap DEF Init, ExtendedTypeOK
<1>5. SimpleTypeOK BY DEF Init, SimpleTypeOK
<1>6. ReplyTypeOK BY DEF Init, ReplyTypeOK, NoReply
<1>7. QED BY <1>2, <1>3, <1>4, <1>5, <1>6 DEF TypeOK

\* Parts of the type invariant that an action leaves alone.
LEMMA TypeUnchanged ==
  /\ StateTypeOK /\ UNCHANGED state => StateTypeOK'
  /\ ExtendedTypeOK /\ UNCHANGED extended => ExtendedTypeOK'
  /\ SimpleTypeOK /\ conn # "QueryInProgress" /\ UNCHANGED simple => SimpleTypeOK'
  /\ ReplyTypeOK /\ UNCHANGED <<reply, unreported>> => ReplyTypeOK'
  /\ ReplyTypeOK /\ reply' = NoReply /\ UNCHANGED unreported => ReplyTypeOK'
<1>1. StateTypeOK /\ UNCHANGED state => StateTypeOK' BY DEF StateTypeOK, state, IsMap
<1>2. ExtendedTypeOK /\ UNCHANGED extended => ExtendedTypeOK'
  BY DEF ExtendedTypeOK, extended, IsMap
<1>3. SimpleTypeOK /\ conn # "QueryInProgress" /\ UNCHANGED simple => SimpleTypeOK'
  BY DEF SimpleTypeOK, simple
<1>4. ReplyTypeOK /\ UNCHANGED <<reply, unreported>> => ReplyTypeOK'
  BY DEF ReplyTypeOK
<1>5. ReplyTypeOK /\ reply' = NoReply /\ UNCHANGED unreported => ReplyTypeOK'
  BY DEF ReplyTypeOK, NoReply
<1>6. QED BY <1>1, <1>2, <1>3, <1>4, <1>5

\* Startup, login, the end of a connection and the loss of the Exasol session.
LEMMA TypeConnection ==
  TypeOK /\ (startup \/ password \/ disconnect \/ exasol_lost) => TypeOK'
<1> SUFFICES ASSUME TypeOK PROVE (startup \/ password \/ disconnect \/ exasol_lost) => TypeOK'
  OBVIOUS
<1> USE DEF TypeOK
<1>1. ASSUME startup PROVE TypeOK'
  <2>1. ConnTypeOK' BY <1>1 DEF startup, ConnTypeOK
  <2>2. QED BY <1>1, <2>1, TypeUnchanged DEF startup, state, extended, simple
<1>2. ASSUME password PROVE TypeOK'
  <2>1. ConnTypeOK' BY <1>2 DEF password, ConnTypeOK
  <2>2. StateTypeOK'
    <3>1. [up |-> TRUE, schema |-> None] \in [up : BOOLEAN, schema : Schemas \cup {None}]
      OBVIOUS
    <3>2. exasol' \in [up : BOOLEAN, schema : Schemas \cup {None}]
      BY <1>2, <3>1 DEF password, StateTypeOK
    <3>3. QED BY <1>2, <3>2 DEF password, StateTypeOK, IsMap
  <2>3. QED BY <1>2, <2>1, <2>2, TypeUnchanged DEF password, extended, simple
<1>3. ASSUME disconnect PROVE TypeOK'
  <2>1. ConnTypeOK' BY <1>3 DEF disconnect, ConnTypeOK
  <2>2. StateTypeOK' BY <1>3, EmptyIsMap DEF disconnect, StateTypeOK, NoExasol
  <2>3. ExtendedTypeOK' BY <1>3, EmptyIsMap DEF disconnect, ExtendedTypeOK
  <2>4. SimpleTypeOK' BY <1>3, TypeUnchanged DEF disconnect
  <2>5. ReplyTypeOK' BY <1>3 DEF disconnect, ReplyTypeOK, NoReply
  <2>6. QED BY <2>1, <2>2, <2>3, <2>4, <2>5
<1>4. ASSUME exasol_lost PROVE TypeOK'
  <2>1. ConnTypeOK' BY <1>4 DEF exasol_lost, ConnTypeOK
  <2>2. StateTypeOK' BY <1>4 DEF exasol_lost, StateTypeOK, IsMap
  <2>3. SimpleTypeOK' BY <1>4 DEF exasol_lost, SimpleTypeOK
  <2>4. QED BY <1>4, <2>1, <2>2, <2>3, TypeUnchanged DEF exasol_lost, extended
<1>5. QED BY <1>1, <1>2, <1>3, <1>4

\* The simple query protocol.
LEMMA TypeSimple ==
  ASSUME TypeOK, Gateway \/ \E text \in Texts : query(text)
  PROVE  TypeOK'
<1> USE DEF TypeOK
<1>1. ASSUME NEW text \in Texts, query(text) PROVE TypeOK'
  <2>1. ConnTypeOK' BY <1>1 DEF query, ConnTypeOK
  <2>2. SimpleTypeOK'
    <3>1. text \in Seq(Statements) BY TextsAssumption
    <3>2. <<"Empty">> \in Seq(Kinds) /\ << >> \in Seq(Kinds) BY DEF Kinds
    <3>3. batch' \in Seq(Statements) /\ responses' \in Seq(Kinds)
      BY <1>1, <3>1, <3>2 DEF query
    <3>4. conn' = "QueryInProgress" BY <1>1 DEF query
    <3>5. QED BY <3>3, <3>4 DEF SimpleTypeOK
  <2>3. QED BY <1>1, <2>1, <2>2, TypeUnchanged DEF query
<1>2. ASSUME execute_simple_query PROVE TypeOK'
  <2>1. PICK kind \in Kinds \cup {"Err"}, res \in Kinds \cup {"Err"} :
          /\ execute_statement(Head(batch), kind)
          /\ (res = "Err" /\ AbandonBatch) \/ (res # "Err" /\ AdvanceBatch(res))
    BY <1>2 DEF execute_simple_query
  <2>2. Head(batch) \in Statements /\ Tail(batch) \in Seq(Statements)
    BY <1>2 DEF execute_simple_query, SimpleTypeOK
  <2>3. StateTypeOK' BY <2>1, <2>2, StatementType
  <2>4. ConnTypeOK'
    BY <1>2, <2>1, DeliveryType
    DEF execute_simple_query, AbandonBatch, AdvanceBatch, ConnTypeOK
  <2>5. SimpleTypeOK'
    <3>1. conn = "QueryInProgress" BY <1>2 DEF execute_simple_query
    <3>2. CASE res = "Err" BY <2>1, <3>2 DEF AbandonBatch, SimpleTypeOK
    <3>3. CASE res # "Err"
      <4>1. responses' = Append(responses, res) /\ res \in Kinds
        BY <2>1, <3>3 DEF AdvanceBatch
      <4>2. responses' \in Seq(Kinds) BY <4>1 DEF SimpleTypeOK
      <4>3. batch' \in Seq(Statements)
        <5>1. batch' = << >> \/ batch' = Tail(batch) BY <2>1, <3>3 DEF AdvanceBatch
        <5>2. << >> \in Seq(Statements) OBVIOUS
        <5>3. QED BY <2>2, <5>1, <5>2
      <4>4. conn' = conn BY <2>1, <3>3 DEF AdvanceBatch
      <4>5. QED BY <3>1, <4>2, <4>3, <4>4 DEF SimpleTypeOK
    <3>4. QED BY <3>2, <3>3
  <2>6. ReplyTypeOK'
    BY <1>2, <2>1 DEF execute_simple_query, AbandonBatch, AdvanceBatch, ReplyTypeOK
  <2>7. QED BY <1>2, <2>3, <2>4, <2>5, <2>6, TypeUnchanged DEF execute_simple_query
<1>3. ASSUME send_response PROVE TypeOK'
  <2>1. ConnTypeOK' BY <1>3, DeliveryType DEF send_response, ConnTypeOK
  <2>2. SimpleTypeOK' BY <1>3 DEF send_response, SimpleTypeOK
  <2>3. QED BY <1>3, <2>1, <2>2, TypeUnchanged DEF send_response
<1>4. ASSUME ready_for_query PROVE TypeOK'
  <2>1. ConnTypeOK' BY <1>4 DEF ready_for_query, ConnTypeOK
  <2>2. SimpleTypeOK' BY <1>4 DEF ready_for_query, SimpleTypeOK, simple
  <2>3. QED BY <1>4, <2>1, <2>2, TypeUnchanged DEF ready_for_query
<1>5. QED BY <1>1, <1>2, <1>3, <1>4 DEF Gateway

\* The extended query protocol.
LEMMA TypeParse ==
  ASSUME TypeOK, NEW name \in StatementNames, NEW text \in Texts, on_parse(name, text)
  PROVE  TypeOK'
<1> USE DEF TypeOK
<1>1. ConnTypeOK' BY DeliveryType DEF on_parse, Fail, Succeed, ConnTypeOK
<1>2. ASSUME Len(text) <= 1
      PROVE  (IF text = << >> THEN Statement("Empty", None, FALSE) ELSE text[1]) \in Statements
  <2>1. text \in Seq(Statements) BY TextsAssumption
  <2>2. CASE text = << >> BY <2>2 DEF Statement, Statements, PlainPlans
  <2>3. CASE text # << >>
    <3>1. text[1] \in Statements BY <2>1, <2>3
    <3>2. QED BY <2>3, <3>1
  <2>4. QED BY <2>2, <2>3
<1>3. IsMap(prepared', StatementNames, Statements)
  BY <1>2, InsertMap DEF on_parse, ExtendedTypeOK
<1>4. ExtendedTypeOK' BY <1>3 DEF on_parse, ExtendedTypeOK, IsMap
<1>5. QED BY <1>1, <1>4, TypeUnchanged DEF on_parse

\* Bind keeps the types.
LEMMA TypeBind ==
  ASSUME TypeOK, NEW portal \in PortalNames, NEW name \in StatementNames,
         NEW bad \in BOOLEAN, on_bind(portal, name, bad)
  PROVE  TypeOK'
<1> USE DEF TypeOK
<1>1. ConnTypeOK' BY DeliveryType DEF on_bind, Fail, Succeed, ConnTypeOK
<1>2. ASSUME name \in DOMAIN prepared
      PROVE  [statement |-> prepared[name], bad |-> bad] \in Portal
  BY <1>2 DEF ExtendedTypeOK, IsMap, Portal
<1>3. IsMap(portals', PortalNames, Portal)
  BY <1>2, InsertMap DEF on_bind, ExtendedTypeOK
<1>4. stale' \subseteq PortalNames BY DEF on_bind, ExtendedTypeOK
<1>5. ExtendedTypeOK' BY <1>3, <1>4 DEF on_bind, ExtendedTypeOK, IsMap
<1>6. QED BY <1>1, <1>5, TypeUnchanged DEF on_bind

\* Describe keeps the types.
LEMMA TypeDescribe ==
  ASSUME TypeOK, NEW portal \in PortalNames, do_describe_portal(portal)
  PROVE  TypeOK'
<1> USE DEF TypeOK
<1>1. ConnTypeOK' BY DeliveryType DEF do_describe_portal, Fail, Succeed, ConnTypeOK
<1>2. ASSUME Renderable(portal) PROVE portals[portal].statement \in Statements
  BY <1>2 DEF Renderable, ExtendedTypeOK, IsMap, Portal
<1>3. StateTypeOK'
  BY <1>2, StatementType, TypeUnchanged DEF do_describe_portal
<1>4. \/ UNCHANGED <<extended_results, stale, answered, unreported>>
      \/ \E kind \in Kinds : cache_extended_result(portal, kind)
  BY DEF do_describe_portal
<1>5. IsMap(extended_results', PortalNames, Kinds)
  BY <1>4, InsertMap DEF cache_extended_result, ExtendedTypeOK
<1>6. stale' \subseteq PortalNames /\ answered' \subseteq PortalNames
  BY <1>4 DEF cache_extended_result, ExtendedTypeOK
<1>7. unreported' \in BOOLEAN
  BY <1>4 DEF cache_extended_result, ReplyTypeOK
<1>8. ExtendedTypeOK' BY <1>5, <1>6 DEF do_describe_portal, ExtendedTypeOK, IsMap
<1>9. ReplyTypeOK' BY <1>7 DEF do_describe_portal, ReplyTypeOK, NoReply
<1>10. QED BY <1>1, <1>3, <1>8, <1>9, TypeUnchanged DEF do_describe_portal

\* Execute keeps the types.
LEMMA TypeExecute ==
  ASSUME TypeOK, NEW portal \in PortalNames, on_execute(portal)
  PROVE  TypeOK'
<1> USE DEF TypeOK
<1>1. ConnTypeOK' BY DeliveryType DEF on_execute, Fail, ConnTypeOK
<1>2. CASE portal \notin DOMAIN portals
  <2>1. UNCHANGED <<state, extended>> /\ reply' = NoReply
    BY <1>2 DEF on_execute, extended
  <2>2. QED BY <1>1, <2>1, TypeUnchanged DEF on_execute
<1>3. CASE portal \in DOMAIN portals
  <2>1. PICK kind \in Kinds \cup {"Err"}, res \in Kinds \cup {"Err"} :
          /\ PortalResponse(portal, kind)
          /\ reply' = [kind |-> res, stale |-> portal \in stale]
          /\ UNCHANGED portals \/ portals' = Remove(portals, portal)
    BY <1>3 DEF on_execute
  <2>2. portals[portal].statement \in Statements
    BY <1>3 DEF ExtendedTypeOK, IsMap, Portal
  <2>3. StateTypeOK'
    BY <2>1, <2>2, StatementType, TypeUnchanged DEF PortalResponse
  <2>4. /\ IsMap(extended_results', PortalNames, Kinds)
        /\ stale' \subseteq PortalNames /\ answered' \subseteq PortalNames
    BY <2>1, RemoveMap DEF PortalResponse, take_cached_extended_result, ExtendedTypeOK
  <2>5. IsMap(portals', PortalNames, Portal)
    BY <2>1, RemoveMap DEF ExtendedTypeOK
  <2>6. ExtendedTypeOK' BY <2>4, <2>5 DEF on_execute, ExtendedTypeOK, IsMap
  <2>7. ReplyTypeOK' BY <2>1 DEF on_execute, ReplyTypeOK
  <2>8. QED BY <1>1, <2>3, <2>6, <2>7, TypeUnchanged DEF on_execute
<1>4. QED BY <1>2, <1>3

\* Close keeps the types.
LEMMA TypeClose ==
  ASSUME TypeOK,
         \/ \E portal \in PortalNames : on_close_portal(portal)
         \/ \E name \in StatementNames : on_close_statement(name)
         \/ on_sync
  PROVE  TypeOK'
<1> USE DEF TypeOK
<1>1. ASSUME NEW portal \in PortalNames, on_close_portal(portal) PROVE TypeOK'
  <2>1. ConnTypeOK' BY <1>1 DEF on_close_portal, ConnTypeOK
  <2>2. IsMap(portals', PortalNames, Portal)
    BY <1>1, RemoveMap DEF on_close_portal, ExtendedTypeOK
  <2>3. ExtendedTypeOK' BY <1>1, <2>2 DEF on_close_portal, ExtendedTypeOK, IsMap
  <2>4. QED BY <1>1, <2>1, <2>3, TypeUnchanged DEF on_close_portal
<1>2. ASSUME NEW name \in StatementNames, on_close_statement(name) PROVE TypeOK'
  <2>1. ConnTypeOK' BY <1>2 DEF on_close_statement, ConnTypeOK
  <2>2. IsMap(prepared', StatementNames, Statements)
    BY <1>2, RemoveMap DEF on_close_statement, ExtendedTypeOK
  <2>3. ExtendedTypeOK' BY <1>2, <2>2 DEF on_close_statement, ExtendedTypeOK, IsMap
  <2>4. QED BY <1>2, <2>1, <2>3, TypeUnchanged DEF on_close_statement
<1>3. ASSUME on_sync PROVE TypeOK'
  <2>1. ConnTypeOK' BY <1>3 DEF on_sync, ConnTypeOK
  <2>2. conn # "QueryInProgress" BY <1>3 DEF on_sync
  <2>3. QED BY <1>3, <2>1, <2>2, TypeUnchanged DEF on_sync
<1>4. QED BY <1>1, <1>2, <1>3

\* Every step keeps the types.
LEMMA TypeStep == TypeOK /\ [Next]_vars => TypeOK'
<1> SUFFICES ASSUME TypeOK, [Next]_vars PROVE TypeOK' OBVIOUS
<1>1. CASE UNCHANGED vars
  BY <1>1 DEF vars, TypeOK, ConnTypeOK, StateTypeOK, ExtendedTypeOK, SimpleTypeOK,
              ReplyTypeOK, IsMap
<1>2. CASE Next
  BY <1>2, TypeConnection, TypeSimple, TypeParse, TypeBind, TypeDescribe, TypeExecute,
     TypeClose DEF Next, Client
<1>3. QED BY <1>1, <1>2

\* Every reachable state of a connection is well typed, and no simple query
\* leaves work behind when it ends.
THEOREM TypeCorrect == Spec => []TypeOK
<1>1. QED BY TypeInit, TypeStep, PTL DEF Spec
-----------------------------------------------------------------------------
\* What a client was told and the status it is shown move together.
LEMMA DeliveryAgrees ==
  ASSUME ConnTypeOK, StatusAgreesWithAcks, NEW kind
  PROVE  /\ (StatusAfter(txStatus, kind) = "I") <=> (ToldAfter(kind) = "I")
         /\ (to_error_state(txStatus) = "I") <=> (told = "I")
  BY DEF ConnTypeOK, StatusAgreesWithAcks, StatusAfter, ToldAfter,
         to_in_transaction_state, to_error_state

\* Every step moves the status with what was acknowledged.
LEMMA StatusStep ==
  ASSUME TypeOK, StatusAgreesWithAcks, [Next]_vars
  PROVE  StatusAgreesWithAcks'
<1>1. ConnTypeOK BY DEF TypeOK
<1>2. ASSUME UNCHANGED <<txStatus, told>> PROVE StatusAgreesWithAcks'
  BY <1>2 DEF StatusAgreesWithAcks
<1>3. ASSUME txStatus' = to_error_state(txStatus), told' = told PROVE StatusAgreesWithAcks'
  BY <1>1, <1>3, DeliveryAgrees DEF StatusAgreesWithAcks
<1>4. ASSUME NEW kind, txStatus' = StatusAfter(txStatus, kind), told' = ToldAfter(kind)
      PROVE  StatusAgreesWithAcks'
  BY <1>1, <1>4, DeliveryAgrees DEF StatusAgreesWithAcks
<1>5. CASE startup \/ password \/ exasol_lost BY <1>2, <1>5 DEF startup, password, exasol_lost
<1>6. CASE disconnect BY <1>6 DEF disconnect, StatusAgreesWithAcks
<1>7. ASSUME NEW text \in Texts, query(text) PROVE StatusAgreesWithAcks'
  BY <1>2, <1>7 DEF query
<1>8. CASE Gateway
  BY <1>2, <1>3, <1>4, <1>8
  DEF Gateway, execute_simple_query, AbandonBatch, AdvanceBatch, send_response, ready_for_query
<1>9. ASSUME NEW name \in StatementNames, NEW text \in Texts, on_parse(name, text)
      PROVE  StatusAgreesWithAcks'
  BY <1>2, <1>3, <1>9 DEF on_parse, Fail, Succeed
<1>10. ASSUME NEW portal \in PortalNames, NEW name \in StatementNames, NEW bad \in BOOLEAN,
              on_bind(portal, name, bad)
       PROVE  StatusAgreesWithAcks'
  BY <1>2, <1>3, <1>10 DEF on_bind, Fail, Succeed
<1>11. ASSUME NEW portal \in PortalNames, do_describe_portal(portal)
       PROVE  StatusAgreesWithAcks'
  BY <1>2, <1>3, <1>11 DEF do_describe_portal, Fail, Succeed
<1>12. ASSUME NEW portal \in PortalNames, on_execute(portal) PROVE StatusAgreesWithAcks'
  BY <1>3, <1>4, <1>12 DEF on_execute, Fail
<1>13. ASSUME NEW portal \in PortalNames, on_close_portal(portal) PROVE StatusAgreesWithAcks'
  BY <1>2, <1>13 DEF on_close_portal
<1>14. ASSUME NEW name \in StatementNames, on_close_statement(name)
       PROVE  StatusAgreesWithAcks'
  BY <1>2, <1>14 DEF on_close_statement
<1>15. CASE on_sync BY <1>2, <1>15 DEF on_sync
<1>16. CASE UNCHANGED vars BY <1>2, <1>16 DEF vars
<1>17. QED
  BY <1>5, <1>6, <1>7, <1>8, <1>9, <1>10, <1>11, <1>12, <1>13, <1>14, <1>15, <1>16
  DEF Next, Client

\* The status of ReadyForQuery is idle exactly when the last transaction
\* command acknowledged to the client was an end, for every sequence of simple
\* and extended messages and every failure in between.
THEOREM StatusTheorem == Spec => []StatusAgreesWithAcks
<1>1. Init => StatusAgreesWithAcks BY DEF Init, StatusAgreesWithAcks
<1>2. TypeOK /\ StatusAgreesWithAcks /\ [Next]_vars => StatusAgreesWithAcks' BY StatusStep
<1>3. QED BY <1>1, <1>2, TypeCorrect, PTL DEF Spec
-----------------------------------------------------------------------------
\* A session is stored only by a successful login.
LoginFirst == conn \in {"AwaitingStartup", "AuthenticationInProgress"} => ~session

SchemaInv == LoginFirst /\ NoStateWithoutSession /\ ShownSchemaWasOpened

\* Running a statement keeps the recorded schema the open one ...
LEMMA StatementSchema ==
  ASSUME StateTypeOK, ShownSchemaWasOpened, NEW s \in Statements, NEW res,
         execute_statement(s, res)
  PROVE  ShownSchemaWasOpened'
<1>1. ASSUME UNCHANGED <<exasol, current_schema>> PROVE ShownSchemaWasOpened'
  BY <1>1 DEF ShownSchemaWasOpened
<1>2. ASSUME NEW ok \in BOOLEAN, ExasolAnswers(ok), UNCHANGED current_schema
      PROVE  ShownSchemaWasOpened'
  BY <1>2 DEF ExasolAnswers, ExasolExecute, ShownSchemaWasOpened, StateTypeOK
<1>3. ASSUME set_search_path(s, res) PROVE ShownSchemaWasOpened'
  <2>1. CASE ExasolExecute(TRUE, s.arg) /\ current_schema' = s.arg
    BY <2>1 DEF ExasolExecute, ShownSchemaWasOpened, StateTypeOK
  <2>2. CASE ExasolExecute(FALSE, s.arg) /\ UNCHANGED current_schema
    BY <2>2 DEF ExasolExecute, ShownSchemaWasOpened, StateTypeOK
  <2>3. CASE NotConnected(res) BY <1>1, <2>3 DEF NotConnected, state
  <2>4. QED BY <1>3, <2>1, <2>2, <2>3 DEF set_search_path
<1>4. CASE local_statement(s, res) BY <1>1, <1>4 DEF local_statement, state
<1>5. CASE end_transaction(s, res) BY <1>1, <1>5 DEF end_transaction
<1>6. CASE show_search_path(s, res)
  BY <1>1, <1>6 DEF show_search_path, NotConnected, state
<1>7. CASE execute_metadata_query(s, res)
  BY <1>1, <1>2, <1>7 DEF execute_metadata_query, NotConnected, state
<1>8. CASE execute_exasol(s, res)
  BY <1>1, <1>2, <1>8 DEF execute_exasol, NotConnected, state
<1>9. CASE declare_cursor(s, res)
  BY <1>1, <1>2, <1>9 DEF declare_cursor, NotConnected, state
<1>10. CASE fetch_or_move_cursor(s, res) BY <1>1, <1>10 DEF fetch_or_move_cursor, state
<1>11. CASE close_cursor(s, res) BY <1>1, <1>11 DEF close_cursor, NotConnected, state
<1>12. QED
  BY <1>3, <1>4, <1>5, <1>6, <1>7, <1>8, <1>9, <1>10, <1>11 DEF execute_statement

\* ... and, without a session, leaves no trace.
LEMMA StatementWithoutSession ==
  ASSUME NoStateWithoutSession, ~session, NEW s, NEW res, execute_statement(s, res)
  PROVE  DOMAIN cursors' = {} /\ current_schema' = None /\ ~exasol'.up
<1>1. DOMAIN cursors = {} /\ current_schema = None /\ ~exasol.up
  BY DEF NoStateWithoutSession
<1>2. CASE UNCHANGED state BY <1>1, <1>2 DEF state
<1>3. CASE end_transaction(s, res) BY <1>1, <1>3 DEF end_transaction
<1>4. UNCHANGED state \/ end_transaction(s, res)
  BY DEF execute_statement, local_statement, set_search_path, show_search_path,
         execute_metadata_query, execute_exasol, declare_cursor, fetch_or_move_cursor,
         close_cursor, NotConnected
<1>5. QED BY <1>2, <1>3, <1>4

\* There is no session and no state at first.
LEMMA SchemaInit == Init => SchemaInv
  BY DEF Init, SchemaInv, LoginFirst, NoStateWithoutSession, ShownSchemaWasOpened, NoExasol,
         EmptyMap

\* A handler that runs a statement, or none, keeps the invariant.
LEMMA SchemaHandler ==
  ASSUME StateTypeOK, SchemaInv, UNCHANGED session,
         conn \notin {"AwaitingStartup", "AuthenticationInProgress"},
         conn' \notin {"AwaitingStartup", "AuthenticationInProgress"},
         ~session => UNCHANGED extended_results \/ DOMAIN extended_results' = {},
         UNCHANGED state \/ \E s \in Statements, res \in Kinds \cup {"Err"} :
                              execute_statement(s, res)
  PROVE  SchemaInv'
<1>1. LoginFirst' BY DEF LoginFirst
<1>2. NoStateWithoutSession'
  <2>1. CASE session BY <2>1 DEF NoStateWithoutSession
  <2>2. CASE ~session
    <3>1. DOMAIN extended_results' = {}
      BY <2>2 DEF SchemaInv, NoStateWithoutSession
    <3>2. DOMAIN cursors' = {} /\ current_schema' = None /\ ~exasol'.up
      <4>1. CASE UNCHANGED state BY <2>2, <4>1 DEF state, SchemaInv, NoStateWithoutSession
      <4>2. QED BY <2>2, <4>1, StatementWithoutSession DEF SchemaInv
    <3>3. QED BY <2>2, <3>1, <3>2 DEF NoStateWithoutSession
  <2>3. QED BY <2>1, <2>2
<1>3. ShownSchemaWasOpened'
  <2>1. CASE UNCHANGED state BY <2>1 DEF state, SchemaInv, ShownSchemaWasOpened
  <2>2. QED BY <2>1, StatementSchema DEF SchemaInv
<1>4. QED BY <1>1, <1>2, <1>3 DEF SchemaInv

\* Every step keeps the schema shown and the order of login and state.
LEMMA SchemaStep ==
  ASSUME TypeOK, SchemaInv, [Next]_vars
  PROVE  SchemaInv'
<1>0. StateTypeOK BY DEF TypeOK
<1>1. CASE startup
  BY <1>1 DEF startup, SchemaInv, LoginFirst, NoStateWithoutSession, ShownSchemaWasOpened
<1>2. CASE password
  BY <1>2 DEF password, SchemaInv, LoginFirst, NoStateWithoutSession, ShownSchemaWasOpened
<1>3. CASE disconnect
  BY <1>3 DEF disconnect, SchemaInv, LoginFirst, NoStateWithoutSession, ShownSchemaWasOpened,
              NoExasol, EmptyMap
<1>4. CASE exasol_lost
  BY <1>0, <1>4 DEF exasol_lost, SchemaInv, LoginFirst, NoStateWithoutSession,
                    ShownSchemaWasOpened, StateTypeOK
<1>5. ASSUME NEW text \in Texts, query(text) PROVE SchemaInv'
  BY <1>0, <1>5, SchemaHandler DEF query, extended
<1>6. CASE execute_simple_query
  <2>1. Head(batch) \in Statements
    BY <1>6 DEF execute_simple_query, TypeOK, SimpleTypeOK
  <2>2. PICK kind \in Kinds \cup {"Err"} : execute_statement(Head(batch), kind)
    BY <1>6 DEF execute_simple_query
  <2>3. conn = "QueryInProgress" /\ conn' \in {"QueryInProgress", "ReadyForQuery"}
    BY <1>6 DEF execute_simple_query, AbandonBatch, AdvanceBatch
  <2>4. UNCHANGED <<session, extended_results>>
    BY <1>6 DEF execute_simple_query, extended
  <2>5. QED BY <1>0, <2>1, <2>2, <2>3, <2>4, SchemaHandler
<1>7. CASE send_response BY <1>0, <1>7, SchemaHandler DEF send_response, extended
<1>8. CASE ready_for_query BY <1>0, <1>8, SchemaHandler DEF ready_for_query, extended
<1>9. ASSUME NEW name \in StatementNames, NEW text \in Texts, on_parse(name, text)
      PROVE  SchemaInv'
  BY <1>0, <1>9, SchemaHandler DEF on_parse, Fail, Succeed
<1>10. ASSUME NEW portal \in PortalNames, NEW name \in StatementNames, NEW bad \in BOOLEAN,
              on_bind(portal, name, bad)
       PROVE  SchemaInv'
  BY <1>0, <1>10, SchemaHandler DEF on_bind, Fail, Succeed
<1>11. ASSUME NEW portal \in PortalNames, do_describe_portal(portal) PROVE SchemaInv'
  <2>1. conn = "ReadyForQuery" /\ conn' \in {"ReadyForQuery", "AwaitingSync"}
    BY <1>11 DEF do_describe_portal, Fail, Succeed
  <2>2. UNCHANGED session /\ (~session => UNCHANGED extended_results)
    BY <1>11 DEF do_describe_portal
  <2>3. Renderable(portal) => portals[portal].statement \in Statements
    BY DEF Renderable, TypeOK, ExtendedTypeOK, IsMap, Portal
  <2>4. UNCHANGED state \/ \E s \in Statements, res \in Kinds \cup {"Err"} :
                             execute_statement(s, res)
    BY <1>11, <2>3 DEF do_describe_portal
  <2>5. QED BY <1>0, <2>1, <2>2, <2>4, SchemaHandler
<1>12. ASSUME NEW portal \in PortalNames, on_execute(portal) PROVE SchemaInv'
  <2>1. conn = "ReadyForQuery" /\ conn' \in {"ReadyForQuery", "AwaitingSync"}
    BY <1>12 DEF on_execute, Fail
  <2>2. UNCHANGED session BY <1>12 DEF on_execute
  <2>3. \/ UNCHANGED <<state, extended_results>>
        \/ \E kind \in Kinds \cup {"Err"} :
             portal \in DOMAIN portals /\ PortalResponse(portal, kind)
    BY <1>12 DEF on_execute
  <2>4. portal \in DOMAIN portals => portals[portal].statement \in Statements
    BY DEF TypeOK, ExtendedTypeOK, IsMap, Portal
  <2>5. UNCHANGED state \/ \E s \in Statements, res \in Kinds \cup {"Err"} :
                             execute_statement(s, res)
    BY <2>3, <2>4 DEF PortalResponse
  <2>6. UNCHANGED extended_results \/ portal \in DOMAIN extended_results
    BY <2>3 DEF PortalResponse, take_cached_extended_result
  <2>7. ~session => UNCHANGED extended_results
    BY <2>6 DEF SchemaInv, NoStateWithoutSession
  <2>8. QED BY <1>0, <2>1, <2>2, <2>5, <2>7, SchemaHandler
<1>13. ASSUME NEW portal \in PortalNames, on_close_portal(portal) PROVE SchemaInv'
  BY <1>0, <1>13, SchemaHandler DEF on_close_portal
<1>14. ASSUME NEW name \in StatementNames, on_close_statement(name) PROVE SchemaInv'
  BY <1>0, <1>14, SchemaHandler DEF on_close_statement
<1>15. CASE on_sync BY <1>0, <1>15, SchemaHandler DEF on_sync, extended
<1>16. CASE UNCHANGED vars
  BY <1>16 DEF vars, SchemaInv, LoginFirst, NoStateWithoutSession, ShownSchemaWasOpened
<1>17. QED
  BY <1>1, <1>2, <1>3, <1>4, <1>5, <1>6, <1>7, <1>8, <1>9, <1>10, <1>11, <1>12, <1>13,
     <1>14, <1>15, <1>16 DEF Next, Client, Gateway

\* The invariant of the two theorems that follow.
LEMMA SchemaAlways == Spec => []SchemaInv
<1>1. TypeOK /\ SchemaInv /\ [Next]_vars => SchemaInv' BY SchemaStep
<1>2. QED BY SchemaInit, <1>1, TypeCorrect, PTL DEF Spec

\* While the Exasol session lives, SHOW search_path names the schema that
\* Exasol has open, whatever statements failed in between.
THEOREM SchemaTheorem == Spec => []ShownSchemaWasOpened
<1>1. SchemaInv => ShownSchemaWasOpened BY DEF SchemaInv
<1>2. QED BY SchemaAlways, <1>1, PTL

\* A client whose login failed leaves no cursor, no cached response and no
\* schema behind, whatever it sends.
THEOREM NoStateTheorem == Spec => []NoStateWithoutSession
<1>1. SchemaInv => NoStateWithoutSession BY DEF SchemaInv
<1>2. QED BY SchemaAlways, <1>1, PTL
-----------------------------------------------------------------------------
\* Every step keeps what was delivered apart from what is cached.
LEMMA DeliveryStep ==
  ASSUME AtMostOnceDelivery, [Next]_vars
  PROVE  AtMostOnceDelivery'
<1>1. ASSUME UNCHANGED <<extended_results, answered>> PROVE AtMostOnceDelivery'
  BY <1>1 DEF AtMostOnceDelivery
<1>2. CASE disconnect BY <1>2 DEF disconnect, AtMostOnceDelivery
<1>3. ASSUME NEW portal \in PortalNames, do_describe_portal(portal)
      PROVE  AtMostOnceDelivery'
  <2>1. \/ UNCHANGED <<extended_results, answered>>
        \/ \E kind : cache_extended_result(portal, kind)
    BY <1>3 DEF do_describe_portal
  <2>2. QED BY <1>1, <2>1 DEF cache_extended_result, AtMostOnceDelivery, Insert
<1>4. ASSUME NEW portal \in PortalNames, on_execute(portal) PROVE AtMostOnceDelivery'
  <2>1. \/ UNCHANGED <<extended_results, answered>>
        \/ /\ extended_results' = Remove(extended_results, portal)
           /\ answered' = answered \cup {portal}
    BY <1>4 DEF on_execute, PortalResponse, take_cached_extended_result
  <2>2. QED BY <1>1, <2>1 DEF AtMostOnceDelivery, Remove
<1>5. CASE startup \/ password \/ exasol_lost BY <1>1, <1>5 DEF startup, password, exasol_lost
<1>6. CASE Gateway
  BY <1>1, <1>6 DEF Gateway, execute_simple_query, send_response, ready_for_query, extended
<1>7. ASSUME NEW text \in Texts, query(text) PROVE AtMostOnceDelivery'
  BY <1>1, <1>7 DEF query, extended
<1>8. ASSUME NEW name \in StatementNames, NEW text \in Texts, on_parse(name, text)
      PROVE  AtMostOnceDelivery'
  BY <1>1, <1>8 DEF on_parse
<1>9. ASSUME NEW portal \in PortalNames, NEW name \in StatementNames, NEW bad \in BOOLEAN,
             on_bind(portal, name, bad)
      PROVE  AtMostOnceDelivery'
  BY <1>1, <1>9 DEF on_bind
<1>10. ASSUME NEW portal \in PortalNames, on_close_portal(portal) PROVE AtMostOnceDelivery'
  BY <1>1, <1>10 DEF on_close_portal
<1>11. ASSUME NEW name \in StatementNames, on_close_statement(name) PROVE AtMostOnceDelivery'
  BY <1>1, <1>11 DEF on_close_statement
<1>12. CASE on_sync BY <1>1, <1>12 DEF on_sync, extended
<1>13. CASE UNCHANGED vars BY <1>1, <1>13 DEF vars
<1>14. QED
  BY <1>2, <1>3, <1>4, <1>5, <1>6, <1>7, <1>8, <1>9, <1>10, <1>11, <1>12, <1>13
  DEF Next, Client

\* The response of a described statement is delivered at most once, however
\* often the portal is described, bound, executed and closed.
THEOREM AtMostOnceTheorem == Spec => []AtMostOnceDelivery
<1>1. Init => AtMostOnceDelivery BY DEF Init, AtMostOnceDelivery
<1>2. AtMostOnceDelivery /\ [Next]_vars => AtMostOnceDelivery' BY DeliveryStep
<1>3. QED BY <1>1, <1>2, PTL DEF Spec
-----------------------------------------------------------------------------
\* ErrorEndsTheBatch is inductive with TypeOK: a statement only runs when the
\* batch is not empty, so no response before its own is an Error.
LEMMA BatchStep ==
  ASSUME TypeOK, ErrorEndsTheBatch, [Next]_vars
  PROVE  ErrorEndsTheBatch'
<1>0. batch \in Seq(Statements) /\ responses \in Seq(Kinds) BY DEF TypeOK, SimpleTypeOK
<1>1. ASSUME UNCHANGED simple PROVE ErrorEndsTheBatch'
  BY <1>1 DEF simple, ErrorEndsTheBatch
<1>2. ASSUME NEW text \in Texts, query(text) PROVE ErrorEndsTheBatch'
  <2>1. responses' = << "Empty" >> \/ responses' = << >> BY <1>2 DEF query
  <2>2. QED BY <2>1 DEF ErrorEndsTheBatch
<1>3. CASE execute_simple_query
  <2>1. CASE AbandonBatch
    <3>1. responses' = << >> BY <2>1 DEF AbandonBatch
    <3>2. QED BY <3>1 DEF ErrorEndsTheBatch
  <2>2. ASSUME NEW res \in Kinds, AdvanceBatch(res) PROVE ErrorEndsTheBatch'
    <3>1. \A i \in DOMAIN responses : responses[i] # "Error"
      BY <1>3 DEF execute_simple_query, ErrorEndsTheBatch
    <3>2. responses' = Append(responses, res) BY <2>2 DEF AdvanceBatch
    <3>3. Len(responses') = Len(responses) + 1 BY <1>0, <3>2
    <3>4. \A i \in DOMAIN responses' : responses'[i] = "Error" => i = Len(responses') /\ res = "Error"
      BY <1>0, <3>1, <3>2
    <3>5. res = "Error" => batch' = << >> BY <2>2 DEF AdvanceBatch
    <3>6. QED BY <3>4, <3>5 DEF ErrorEndsTheBatch
  <2>3. QED BY <1>3, <2>1, <2>2 DEF execute_simple_query
<1>4. CASE send_response
  <2>1. responses' = Tail(responses) /\ batch = << >> /\ batch' = << >> /\ responses # << >>
    BY <1>4 DEF send_response
  <2>2. \A i \in DOMAIN responses' :
          /\ i + 1 \in DOMAIN responses /\ responses'[i] = responses[i + 1]
          /\ Len(responses') = Len(responses) - 1 /\ i \in Nat
    BY <1>0, <2>1
  <2>3. Len(responses) \in Nat BY <1>0
  <2>4. QED BY <2>1, <2>2, <2>3 DEF ErrorEndsTheBatch
<1>5. CASE ready_for_query BY <1>1, <1>5 DEF ready_for_query
<1>6. CASE startup \/ password \/ disconnect \/ exasol_lost
  BY <1>1, <1>6 DEF startup, password, disconnect, exasol_lost, simple
<1>7. ASSUME NEW name \in StatementNames, NEW text \in Texts, on_parse(name, text)
      PROVE  ErrorEndsTheBatch'
  BY <1>1, <1>7 DEF on_parse
<1>8. ASSUME NEW portal \in PortalNames, NEW name \in StatementNames, NEW bad \in BOOLEAN,
             on_bind(portal, name, bad)
      PROVE  ErrorEndsTheBatch'
  BY <1>1, <1>8 DEF on_bind
<1>9. ASSUME NEW portal \in PortalNames,
             do_describe_portal(portal) \/ on_execute(portal) \/ on_close_portal(portal)
      PROVE  ErrorEndsTheBatch'
  BY <1>1, <1>9 DEF do_describe_portal, on_execute, on_close_portal
<1>10. ASSUME NEW name \in StatementNames, on_close_statement(name) PROVE ErrorEndsTheBatch'
  BY <1>1, <1>10 DEF on_close_statement
<1>11. CASE on_sync BY <1>1, <1>11 DEF on_sync
<1>12. CASE UNCHANGED vars BY <1>1, <1>12 DEF vars, simple
<1>13. QED
  BY <1>2, <1>3, <1>4, <1>5, <1>6, <1>7, <1>8, <1>9, <1>10, <1>11, <1>12
  DEF Next, Client, Gateway

\* Whatever a client batches, nothing of the batch runs after a statement that
\* was refused (execute_simple_query leaves its loop at an Error response).
THEOREM BatchTheorem == Spec => []ErrorEndsTheBatch
<1>1. Init => ErrorEndsTheBatch BY DEF Init, ErrorEndsTheBatch
<1>2. TypeOK /\ ErrorEndsTheBatch /\ [Next]_vars => ErrorEndsTheBatch' BY BatchStep
<1>3. QED BY <1>1, <1>2, TypeCorrect, PTL DEF Spec
=============================================================================
