--------------------------- MODULE WebSocketProofs ----------------------------
(***************************************************************************)
(* The safety properties of WebSocketTransport, for result sets of any     *)
(* size, any number of control frames and any session_init_sql.            *)
(*                                                                         *)
(* InStep and RowsAreComplete are not inductive: which request is under    *)
(* way while the gateway waits (RequestInv), what has been collected when  *)
(* a fetch is asked for and which rows its answer may hold (FetchInv), and *)
(* what Exasol has done of a statement of session_init_sql whose answer is *)
(* still to be read (InitInv) complete them to IInv.                       *)
(***************************************************************************)
EXTENDS WebSocketTransport, SequenceTheorems, TLAPS

\* The request under way is the one the gateway waits for, for a statement that
\* has not ended; nothing is under way on a connection that is down.
RequestInv ==
  /\ phase \in Waiting => outcome = "none"
  /\ \A i \in DOMAIN toExasol : toExasol[i].command = phase
  /\ ~up => toExasol = << >> /\ Unread = {}

\* While rows are being fetched the first ones are there, and the request and
\* its answer are about the next.
FetchInv ==
  /\ phase = "fetch" =>
       /\ rows = Numbers(0, fetched) /\ fetched < total
       /\ \A i \in DOMAIN toExasol : toExasol[i].start = fetched
  /\ \A i \in Unread :
       LET a == toGateway[i] IN
       /\ a.status # "none"
       /\ a.status = "count" => phase = "execute"
       /\ a.status = "ok" /\ phase = "execute" => a.from = 0 /\ a.upto <= a.n /\ (a.handle \/ a.upto = a.n)
       /\ a.status = "ok" /\ phase = "fetch" => a.from = fetched /\ a.upto \in (fetched + 1) .. total

\* What initialize has left and what Exasol has executed add up, but for the
\* answer that is under way or was lost.
InitInv ==
  /\ left = 0 => applied = InitSql
  /\ phase \in {"key", "login"} => left = InitSql /\ applied = 0
  /\ left > 0 => applied \in {InitSql - left, (InitSql - left) + 1}
  /\ left > 0 /\ (phase = "idle" \/ toExasol # << >>) => applied = InitSql - left
  /\ \A i \in Unread : left > 0 => applied = (InitSql - left) + (IF toGateway[i].status = "count" THEN 1 ELSE 0)

IInv == TypeOK /\ InStep /\ RequestInv /\ FetchInv /\ InitInv /\ RowsAreComplete

USE DEF Waiting, Request

(***************************************************************************)
(* The channel to the gateway.                                             *)
(***************************************************************************)

\* Reading the answer leaves none behind.
LEMMA AnswerRead ==
  ASSUME TypeOK, InStep, NEW purposes, HasAnswer(purposes)
  PROVE  /\ 1 \in Unread /\ Head(toGateway) = toGateway[1] /\ toGateway[1] \in Message
         /\ toGateway' \in Seq(Message) /\ Unread' = {} /\ toExasol = << >>
         /\ phase \in purposes /\ up
<1>1. toGateway \in Seq(Message) /\ toGateway # << >> /\ Head(toGateway).kind = "text"
  BY DEF TypeOK, HasAnswer
<1>2. 1 \in Unread /\ Head(toGateway) = toGateway[1] /\ toGateway[1] \in Message
  BY <1>1 DEF Unread
<1>3. toGateway' = Tail(toGateway) /\ toGateway' \in Seq(Message)
  BY <1>1 DEF HasAnswer
<1>4. ASSUME NEW i \in Unread' PROVE FALSE
  <2>1. i \in 1 .. (Len(toGateway) - 1) /\ toGateway'[i] = toGateway[i + 1] /\ toGateway'[i].kind = "text"
    BY <1>1, <1>3, <1>4 DEF Unread
  <2>2. i + 1 \in Unread
    BY <1>1, <2>1 DEF Unread
  <2>. QED  BY <1>2, <2>1, <2>2 DEF InStep
<1>. QED  BY <1>2, <1>3, <1>4 DEF InStep, HasAnswer

\* Reading a frame moves the answers up.
LEMMA FrameRead ==
  ASSUME TypeOK, read_frame
  PROVE  /\ toGateway' \in Seq(Message)
         /\ \A i \in Unread' : i + 1 \in Unread /\ toGateway'[i] = toGateway[i + 1]
         /\ \A i, j \in Unread' : i \in Nat /\ j \in Nat
<1>1. toGateway \in Seq(Message) /\ toGateway # << >> /\ toGateway' = Tail(toGateway)
  BY DEF TypeOK, read_frame
<1>2. toGateway' \in Seq(Message) /\ Len(toGateway') = Len(toGateway) - 1
  BY <1>1
<1>3. ASSUME NEW i \in Unread' PROVE i \in Nat /\ i + 1 \in Unread /\ toGateway'[i] = toGateway[i + 1]
  BY <1>1, <1>2, <1>3 DEF Unread
<1>. QED  BY <1>2, <1>3

\* A message that arrives is behind the others.
LEMMA MessageArrives ==
  ASSUME TypeOK, NEW m \in Message, toGateway' = Append(toGateway, m)
  PROVE  /\ toGateway' \in Seq(Message)
         /\ \A i \in Unread : i \in Unread' /\ toGateway'[i] = toGateway[i]
         /\ \A i \in Unread' : IF i = Len(toGateway) + 1 THEN toGateway'[i] = m
                               ELSE i \in Unread /\ toGateway'[i] = toGateway[i]
<1>1. toGateway \in Seq(Message)
  BY DEF TypeOK
<1>2. toGateway' \in Seq(Message) /\ Len(toGateway') = Len(toGateway) + 1
  BY <1>1
<1>3. ASSUME NEW i \in Unread PROVE i \in Unread' /\ toGateway'[i] = toGateway[i]
  BY <1>1, <1>2, <1>3 DEF Unread
<1>4. ASSUME NEW i \in Unread'
      PROVE  IF i = Len(toGateway) + 1 THEN toGateway'[i] = m ELSE i \in Unread /\ toGateway'[i] = toGateway[i]
  BY <1>1, <1>2, <1>4 DEF Unread
<1>. QED  BY <1>2, <1>3, <1>4

\* A sequence of one element.
LEMMA Singleton ==
  ASSUME NEW S, NEW s \in Seq(S), s # << >>, Len(s) <= 1
  PROVE  Len(s) = 1 /\ Head(s) = s[1] /\ s[1] \in S /\ Tail(s) = << >>
<1>1. Len(s) = 1
  <2>1. Len(s) \in Nat /\ Len(s) # 0
    OBVIOUS
  <2>. QED  BY <2>1
<1>2. Tail(s) \in Seq(S) /\ Len(Tail(s)) = 0
  BY <1>1
<1>3. Tail(s) = << >>
  BY <1>2
<1>. QED  BY <1>1, <1>3

\* A request is sent when none is under way.
LEMMA RequestSent ==
  ASSUME NEW req \in [command : Waiting, start : Nat], NEW purpose,
         toExasol = << >>, send(req, purpose)
  PROVE  /\ phase' = purpose /\ toExasol' \in Seq([command : Waiting, start : Nat])
         /\ Len(toExasol') = 1 /\ DOMAIN toExasol' = {1} /\ toExasol'[1] = req
BY DEF send

\* The rows of two parts that meet.
LEMMA NumbersMeet ==
  ASSUME NEW a \in Nat, NEW b \in Nat, a <= b
  PROVE  Numbers(0, a) \o Numbers(a, b) = Numbers(0, b) /\ Numbers(0, b) \in Seq(Nat)
<1>1. Numbers(0, a) \in Seq(Nat) /\ Len(Numbers(0, a)) = a
  BY DEF Numbers
<1>2. Numbers(a, b) \in Seq(Nat) /\ Len(Numbers(a, b)) = b - a
  BY DEF Numbers
<1>3. Numbers(0, b) \in Seq(Nat) /\ Len(Numbers(0, b)) = b
  BY DEF Numbers
<1>. DEFINE joined == Numbers(0, a) \o Numbers(a, b)
<1>4. joined \in Seq(Nat) /\ Len(joined) = b
  BY <1>1, <1>2
<1>5. ASSUME NEW i \in 1 .. b PROVE joined[i] = Numbers(0, b)[i]
  BY <1>1, <1>2, <1>5 DEF Numbers
<1>6. joined = Numbers(0, b)
  <2>. HIDE DEF joined
  <2>. QED  BY <1>3, <1>4, <1>5, SeqEqual
<1>. QED  BY <1>3, <1>6

(***************************************************************************)
(* The invariant holds at first, and every action keeps it.                *)
(***************************************************************************)

\* Nothing is under way at first.
LEMMA InitIInv == Init => IInv
<1>. SUFFICES ASSUME Init PROVE IInv
  OBVIOUS
<1>. USE BoundsAssumption DEF Init
<1>1. toExasol \in Seq([command : Waiting, start : Nat]) /\ DOMAIN toExasol = {1} /\ Len(toExasol) = 1
  OBVIOUS
<1>2. Unread = {}
  BY DEF Unread
<1>3. TypeOK
  BY <1>1 DEF TypeOK
<1>4. InStep /\ RequestInv /\ FetchInv /\ InitInv /\ RowsAreComplete
  BY <1>1, <1>2 DEF InStep, RequestInv, FetchInv, InitInv, RowsAreComplete
<1>. QED  BY <1>3, <1>4 DEF IInv

\* A step that fails the statement with nothing under way.
LEMMA FailIInv ==
  ASSUME IInv, Fail, phase \in Waiting \cup {"idle"}, UNCHANGED <<up, toExasol>>,
         toExasol = << >>, toGateway' \in Seq(Message), Unread' = {}
  PROVE  IInv'
<1>. USE DEF IInv
<1>1. phase' \in {"dropped", "idle"} /\ (phase' = "idle" => left = 0) /\ outcome' = "error"
  BY BoundsAssumption DEF Fail, Connecting, TypeOK
<1>2. UNCHANGED <<rows, fetched, total, left, applied>>
  BY DEF Fail, result, initVars
<1>3. TypeOK'
  BY <1>1, <1>2 DEF TypeOK
<1>4. InStep' /\ RequestInv' /\ RowsAreComplete'
  BY <1>1, <1>2 DEF TypeOK, InStep, RequestInv, RowsAreComplete
<1>5. FetchInv' /\ InitInv'
  BY <1>1, <1>2 DEF TypeOK, FetchInv, InitInv
<1>. QED  BY <1>3, <1>4, <1>5

\* The first request of a statement.
LEMMA SendIInv ==
  ASSUME IInv, phase = "idle", up, send(Request("execute", 0), "execute"), outcome' = "none",
         UNCHANGED <<up, toGateway, result, initVars>>
  PROVE  IInv'
<1>. USE DEF IInv
<1>1. toExasol = << >> /\ Unread = {}
  BY DEF InStep
<1>2. /\ phase' = "execute" /\ toExasol' \in Seq([command : Waiting, start : Nat])
      /\ Len(toExasol') = 1 /\ DOMAIN toExasol' = {1} /\ toExasol'[1] = Request("execute", 0)
  BY <1>1, RequestSent
<1>3. UNCHANGED <<rows, fetched, total, left, applied>> /\ Unread' = {}
  BY <1>1 DEF result, initVars, Unread
<1>4. TypeOK'
  BY <1>2, <1>3 DEF TypeOK
<1>5. InStep' /\ RequestInv' /\ RowsAreComplete'
  BY <1>2, <1>3 DEF InStep, RequestInv, RowsAreComplete
<1>6. FetchInv' /\ InitInv'
  BY <1>2, <1>3 DEF FetchInv, InitInv
<1>. QED  BY <1>4, <1>5, <1>6

\* A control frame is read.
LEMMA FrameIInv == IInv /\ read_frame => IInv'
<1>. SUFFICES ASSUME IInv, read_frame PROVE IInv'
  OBVIOUS
<1>. USE DEF IInv
<1>1. /\ toGateway' \in Seq(Message)
      /\ \A i \in Unread' : i + 1 \in Unread /\ toGateway'[i] = toGateway[i + 1]
      /\ \A i, j \in Unread' : i \in Nat /\ j \in Nat
  BY FrameRead
<1>2. UNCHANGED <<phase, up, toExasol, rows, fetched, total, outcome, left, applied>>
  BY DEF read_frame, result, initVars
<1>3. \A i, j \in Unread' : i = j
  BY <1>1 DEF InStep
<1>4. TypeOK'
  BY <1>1, <1>2 DEF TypeOK
<1>5. InStep' /\ RequestInv' /\ RowsAreComplete'
  BY <1>1, <1>2, <1>3 DEF InStep, RequestInv, RowsAreComplete
<1>6. FetchInv'
  BY <1>1, <1>2 DEF FetchInv
<1>7. InitInv'
  BY <1>1, <1>2 DEF InitInv
<1>. QED  BY <1>4, <1>5, <1>6, <1>7

\* The gateway logs in.
LEMMA LoginIInv == IInv /\ login => IInv'
<1>. SUFFICES ASSUME IInv, login PROVE IInv'
  OBVIOUS
<1>. USE DEF IInv
<1>1. HasAnswer({"key", "login"})
  BY DEF login
<1>2. toGateway' \in Seq(Message) /\ Unread' = {} /\ toExasol = << >> /\ phase \in {"key", "login"} /\ up
  BY <1>1, AnswerRead
<1>3. UNCHANGED <<up, rows, fetched, total, outcome, left, applied>>
  BY DEF login, result, initVars
<1>4. CASE phase = "key"
  <2>1. send(Request("login", 0), "login")
    BY <1>4 DEF login
  <2>2. /\ phase' = "login" /\ toExasol' \in Seq([command : Waiting, start : Nat])
        /\ Len(toExasol') = 1 /\ DOMAIN toExasol' = {1} /\ toExasol'[1] = Request("login", 0)
    BY <1>2, <2>1, RequestSent
  <2>3. TypeOK'
    BY <1>2, <1>3, <2>2 DEF TypeOK
  <2>4. InStep' /\ RequestInv' /\ RowsAreComplete'
    BY <1>2, <1>3, <2>2 DEF InStep, RequestInv, RowsAreComplete
  <2>5. FetchInv' /\ InitInv'
    BY <1>2, <1>3, <1>4, <2>2, BoundsAssumption DEF FetchInv, InitInv
  <2>. QED  BY <2>3, <2>4, <2>5
<1>5. CASE phase = "login"
  <2>1. phase' = "idle" /\ toExasol' = << >>
    BY <1>2, <1>5 DEF login
  <2>2. TypeOK'
    BY <1>2, <1>3, <2>1 DEF TypeOK
  <2>3. InStep' /\ RequestInv' /\ RowsAreComplete'
    BY <1>2, <1>3, <2>1 DEF InStep, RequestInv, RowsAreComplete
  <2>4. FetchInv' /\ InitInv'
    BY <1>2, <1>3, <1>5, <2>1, BoundsAssumption DEF FetchInv, InitInv
  <2>. QED  BY <2>2, <2>3, <2>4
<1>. QED  BY <1>2, <1>4, <1>5

\* The fetch loop: the first n of count rows are collected, and there is a handle
\* unless they are all.
LEMMA FetchIInv ==
  ASSUME IInv, phase \in {"execute", "fetch"}, up, toExasol = << >>, UNCHANGED up,
         toGateway' \in Seq(Message), Unread' = {},
         NEW n \in Nat, NEW count \in Nat, n <= count,
         NEW handle, handle \/ n = count,
         left > 0 => applied = InitSql - left,
         FetchMore(n, count, Numbers(0, n), handle)
  PROVE  IInv'
<1>. USE DEF IInv
<1>1. rows' = Numbers(0, n) /\ fetched' = n /\ total' = count /\ applied' = applied /\ rows' \in Seq(Nat)
  BY NumbersMeet DEF FetchMore
<1>2. left' = left /\ left \in 0 .. InitSql
  BY DEF FetchMore, EndWithRows, TypeOK
<1>3. CASE handle /\ n < count
  <2>1. send(Request("fetch", n), "fetch") /\ outcome' = outcome
    BY <1>3 DEF FetchMore
  <2>2. /\ phase' = "fetch" /\ toExasol' \in Seq([command : Waiting, start : Nat])
        /\ Len(toExasol') = 1 /\ DOMAIN toExasol' = {1} /\ toExasol'[1] = Request("fetch", n)
    BY <2>1, RequestSent
  <2>3. TypeOK'
    BY <1>1, <1>2, <2>1, <2>2 DEF TypeOK
  <2>4. InStep' /\ RequestInv' /\ RowsAreComplete'
    BY <2>1, <2>2 DEF InStep, RequestInv, RowsAreComplete
  <2>5. FetchInv' /\ InitInv'
    BY <1>1, <1>2, <1>3, <2>2, BoundsAssumption DEF FetchInv, InitInv
  <2>. QED  BY <2>3, <2>4, <2>5
<1>4. CASE ~(handle /\ n < count)
  <2>1. EndWithRows /\ toExasol' = << >> /\ n = count
    BY <1>4 DEF FetchMore
  <2>2. \/ phase' = "dropped" /\ outcome' = "error" /\ left > 0
        \/ phase' = "idle" /\ outcome' = "rows" /\ left = 0
    BY <1>2, <2>1, BoundsAssumption DEF EndWithRows
  <2>3. TypeOK'
    BY <1>1, <1>2, <2>1, <2>2 DEF TypeOK
  <2>4. InStep' /\ RequestInv' /\ RowsAreComplete'
    BY <1>1, <2>1, <2>2 DEF InStep, RequestInv, RowsAreComplete
  <2>5. FetchInv' /\ InitInv'
    BY <1>1, <1>2, <2>1, <2>2, BoundsAssumption DEF FetchInv, InitInv
  <2>. QED  BY <2>3, <2>4, <2>5
<1>. QED  BY <1>3, <1>4

\* The first part of a result set is read.
LEMMA ResultSetIInv == IInv /\ parse_result_set => IInv'
<1>. SUFFICES ASSUME IInv, parse_result_set PROVE IInv'
  OBVIOUS
<1>. USE DEF IInv
<1>. DEFINE a == toGateway[1]
<1>1. HasAnswer({"execute"})
  BY DEF parse_result_set
<1>2. /\ 1 \in Unread /\ Head(toGateway) = a /\ a \in Message
      /\ toGateway' \in Seq(Message) /\ Unread' = {} /\ toExasol = << >> /\ phase = "execute" /\ up
  BY <1>1, AnswerRead
<1>3. a.status = "ok" /\ FetchMore(a.upto, a.n, Numbers(a.from, a.upto), a.handle) /\ UNCHANGED up
  BY <1>2 DEF parse_result_set
<1>4. a.from = 0 /\ a.upto <= a.n /\ (a.handle \/ a.upto = a.n)
  BY <1>2, <1>3 DEF FetchInv
<1>5. a.upto \in Nat /\ a.n \in Nat
  BY <1>2 DEF Message
<1>6. left > 0 => applied = InitSql - left
  BY <1>2, <1>3, BoundsAssumption DEF InitInv, TypeOK
<1>7. FetchMore(a.upto, a.n, Numbers(0, a.upto), a.handle)
  BY <1>3, <1>4
<1>. HIDE DEF a, IInv
<1>. QED  BY <1>2, <1>3, <1>4, <1>5, <1>6, <1>7, FetchIInv

\* A further part of a result set is read.
LEMMA FetchedIInv == IInv /\ fetch => IInv'
<1>. SUFFICES ASSUME IInv, fetch PROVE IInv'
  OBVIOUS
<1>. USE DEF IInv
<1>. DEFINE a == toGateway[1]
<1>1. HasAnswer({"fetch"})
  BY DEF fetch
<1>2. /\ 1 \in Unread /\ Head(toGateway) = a /\ a \in Message
      /\ toGateway' \in Seq(Message) /\ Unread' = {} /\ toExasol = << >> /\ phase = "fetch" /\ up
  BY <1>1, AnswerRead
<1>3. /\ a.status = "ok" /\ UNCHANGED up
      /\ FetchMore(fetched + (a.upto - a.from), total, rows \o Numbers(a.from, a.upto), TRUE)
  BY <1>2 DEF fetch
<1>4. fetched \in Nat /\ total \in Nat /\ a.from = fetched /\ a.upto \in (fetched + 1) .. total
  BY <1>2, <1>3 DEF FetchInv, TypeOK
<1>5. rows = Numbers(0, fetched)
  BY <1>2 DEF FetchInv
<1>6. fetched + (a.upto - a.from) = a.upto /\ a.upto \in Nat /\ a.upto <= total
  BY <1>4
<1>7. rows \o Numbers(a.from, a.upto) = Numbers(0, a.upto)
  <2>1. PICK k \in Nat : k = a.upto /\ fetched <= k
    BY <1>4, <1>6
  <2>2. Numbers(0, fetched) \o Numbers(fetched, k) = Numbers(0, k)
    BY <1>4, <2>1, NumbersMeet
  <2>. QED  BY <1>4, <1>5, <2>1, <2>2
<1>8. left > 0 => applied = InitSql - left
  BY <1>2, <1>3, BoundsAssumption DEF InitInv, TypeOK
<1>9. FetchMore(a.upto, total, Numbers(0, a.upto), TRUE)
  BY <1>3, <1>6, <1>7
<1>. HIDE DEF a, IInv
<1>. QED  BY <1>2, <1>3, <1>4, <1>6, <1>8, <1>9, FetchIInv

\* A row count is read.
LEMMA CountIInv == IInv /\ row_count => IInv'
<1>. SUFFICES ASSUME IInv, row_count PROVE IInv'
  OBVIOUS
<1>. USE DEF IInv
<1>1. HasAnswer({"execute"})
  BY DEF row_count
<1>2. /\ 1 \in Unread /\ Head(toGateway) = toGateway[1]
      /\ toGateway' \in Seq(Message) /\ Unread' = {} /\ toExasol = << >> /\ phase = "execute" /\ up
  BY <1>1, AnswerRead
<1>3. /\ toGateway[1].status = "count" /\ phase' = "idle" /\ outcome' = "count"
      /\ UNCHANGED <<up, toExasol, rows, fetched, total, applied>>
      /\ left' = IF left > 0 THEN left - 1 ELSE 0
  BY <1>2 DEF row_count, result
<1>4. left \in 0 .. InitSql /\ (left > 0 => applied = (InitSql - left) + 1) /\ (left = 0 => applied = InitSql)
  BY <1>2, <1>3 DEF InitInv, TypeOK
<1>5. TypeOK'
  BY <1>2, <1>3, <1>4, BoundsAssumption DEF TypeOK
<1>6. InStep' /\ RequestInv' /\ RowsAreComplete' /\ FetchInv'
  BY <1>2, <1>3 DEF InStep, RequestInv, RowsAreComplete, FetchInv
<1>7. InitInv'
  BY <1>2, <1>3, <1>4, BoundsAssumption DEF InitInv
<1>. QED  BY <1>5, <1>6, <1>7

\* The transport is closed.
LEMMA CloseIInv == IInv /\ close => IInv'
<1>. SUFFICES ASSUME IInv, close PROVE IInv'
  OBVIOUS
<1>. USE DEF IInv
<1>1. /\ phase = "idle" /\ phase' = "dropped" /\ up' = FALSE /\ left = 0
      /\ UNCHANGED <<toExasol, toGateway, rows, fetched, total, outcome, left, applied>>
  BY DEF close, channels, result, initVars
<1>2. toExasol = << >> /\ Unread = {} /\ Unread' = {}
  BY <1>1 DEF InStep, Unread
<1>3. TypeOK'
  BY <1>1 DEF TypeOK
<1>4. InStep' /\ RequestInv' /\ RowsAreComplete' /\ FetchInv' /\ InitInv'
  BY <1>1, <1>2 DEF InStep, RequestInv, RowsAreComplete, FetchInv, InitInv
<1>. QED  BY <1>3, <1>4

\* The connection breaks.
LEMMA LostIInv == IInv /\ connection_lost => IInv'
<1>. SUFFICES ASSUME IInv, connection_lost PROVE IInv'
  OBVIOUS
<1>. USE DEF IInv
<1>1. /\ up' = FALSE /\ toExasol' = << >> /\ toGateway' = << >>
      /\ UNCHANGED <<phase, rows, fetched, total, outcome, left, applied>>
  BY DEF connection_lost, result, initVars
<1>2. Unread' = {}
  BY <1>1 DEF Unread
<1>3. TypeOK'
  <2>1. toExasol' \in Seq([command : Waiting, start : Nat])
    BY <1>1
  <2>2. toGateway' \in Seq(Message)
    <3>. HIDE DEF Message
    <3>. QED  BY <1>1
  <2>3. up' \in BOOLEAN
    BY <1>1
  <2>. QED  BY <1>1, <2>1, <2>2, <2>3 DEF TypeOK
<1>4. InStep' /\ RequestInv' /\ RowsAreComplete' /\ FetchInv'
  BY <1>1, <1>2 DEF InStep, RequestInv, RowsAreComplete, FetchInv
<1>5. InitInv'
  BY <1>1, <1>2 DEF InitInv
<1>. QED  BY <1>3, <1>4, <1>5

\* What Exasol answers.
LEMMA AnswerTypes ==
  ASSUME NEW req \in [command : Waiting, start : Nat], total \in Nat, NEW m \in Answers(req)
  PROVE  /\ m \in Message /\ m.kind = "text" /\ m.to.command = req.command /\ m.status # "none"
         /\ m.status = "count" => req.command = "execute"
         /\ m.status = "ok" /\ req.command = "execute" => m.from = 0 /\ m.upto <= m.n /\ (m.handle \/ m.upto = m.n)
         /\ m.status = "ok" /\ req.command = "fetch" => m.from = req.start /\ m.upto \in (req.start + 1) .. total
<1>. USE BoundsAssumption DEF Answers, Answer, Message
<1>1. CASE m = Answer(req, "error", 0, 0, 0, FALSE)
  BY <1>1
<1>2. CASE req.command \in {"key", "login"} /\ m = Answer(req, "ok", 0, 0, 0, FALSE)
  BY <1>2
<1>3. CASE req.command = "execute" /\ m = Answer(req, "count", 0, 0, 0, FALSE)
  BY <1>3
<1>4. ASSUME NEW k \in 0 .. MaxRows, NEW n \in 0 .. MaxRows, NEW h \in BOOLEAN, req.command = "execute",
             m = Answer(req, "ok", 0, k, n, h), m.upto <= m.n /\ (m.handle \/ m.upto = m.n)
      PROVE  m \in Message /\ m.kind = "text" /\ m.to.command = req.command /\ m.status = "ok" /\ m.from = 0
  BY <1>4
<1>5. ASSUME NEW k \in (req.start + 1) .. total, req.command = "fetch", m = Answer(req, "ok", req.start, k, total, FALSE)
      PROVE  m \in Message /\ m.kind = "text" /\ m.to.command = req.command /\ m.status = "ok" /\ m.from = req.start /\ m.upto = k
  BY <1>5
<1>. QED  BY <1>1, <1>2, <1>3, <1>4, <1>5

\* Exasol answers.
LEMMA AnsweredIInv == IInv /\ exasol_answers => IInv'
<1>. SUFFICES ASSUME IInv, exasol_answers PROVE IInv'
  OBVIOUS
<1>. USE DEF IInv
<1>. DEFINE req == toExasol[1]
<1>1. /\ up /\ toExasol # << >> /\ Len(toExasol) = 1
      /\ Head(toExasol) = req /\ req \in [command : Waiting, start : Nat]
      /\ toExasol' = << >> /\ toExasol' \in Seq([command : Waiting, start : Nat])
  <2>1. up /\ toExasol # << >> /\ toExasol' = Tail(toExasol)
    BY DEF exasol_answers
  <2>2. toExasol \in Seq([command : Waiting, start : Nat]) /\ Len(toExasol) <= 1
    BY DEF TypeOK, InStep
  <2>3. /\ Len(toExasol) = 1 /\ Head(toExasol) = req /\ req \in [command : Waiting, start : Nat]
        /\ Tail(toExasol) = << >>
    BY <2>1, <2>2, Singleton
  <2>4. << >> \in Seq([command : Waiting, start : Nat])
    OBVIOUS
  <2>. QED  BY <2>1, <2>3, <2>4
<1>2. Unread = {} /\ req.command = phase /\ phase \in Waiting /\ (phase = "fetch" => req.start = fetched)
  BY <1>1 DEF InStep, RequestInv, FetchInv
<1>3. PICK m \in Answers(req) :
        /\ toGateway' = Append(toGateway, m)
        /\ applied' = IF left > 0 /\ m.status = "count" THEN applied + 1 ELSE applied
  BY <1>1 DEF exasol_answers
<1>4. UNCHANGED <<phase, up, rows, fetched, total, outcome, left>> /\ total \in Nat
  BY DEF exasol_answers, result, TypeOK
<1>5. /\ m \in Message /\ m.kind = "text" /\ m.to.command = phase /\ m.status # "none"
      /\ m.status = "count" => phase = "execute"
      /\ m.status = "ok" /\ phase = "execute" => m.from = 0 /\ m.upto <= m.n /\ (m.handle \/ m.upto = m.n)
      /\ m.status = "ok" /\ phase = "fetch" => m.from = fetched /\ m.upto \in (fetched + 1) .. total
  BY <1>1, <1>2, <1>4, AnswerTypes
<1>6. toGateway' \in Seq(Message) /\ \A i \in Unread' : i = Len(toGateway) + 1 /\ toGateway'[i] = m
  BY <1>2, <1>3, <1>5, MessageArrives
<1>7. left \in 0 .. InitSql /\ (left > 0 => applied = InitSql - left) /\ (left = 0 => applied = InitSql)
  BY <1>1 DEF InitInv, TypeOK
<1>8. TypeOK'
  BY <1>1, <1>3, <1>4, <1>6, <1>7, BoundsAssumption DEF TypeOK
<1>9. InStep' /\ RequestInv' /\ RowsAreComplete'
  BY <1>1, <1>2, <1>4, <1>5, <1>6 DEF InStep, RequestInv, RowsAreComplete
<1>10. FetchInv'
  BY <1>1, <1>4, <1>5, <1>6 DEF FetchInv
<1>11. InitInv'
  <2>1. phase \in {"key", "login"} => m.status # "count"
    BY <1>5
  <2>. QED  BY <1>1, <1>2, <1>3, <1>4, <1>6, <1>7, <2>1, BoundsAssumption DEF InitInv
<1>. QED  BY <1>8, <1>9, <1>10, <1>11

\* Exasol sends a control frame.
LEMMA FrameSentIInv == IInv /\ exasol_sends_frame => IInv'
<1>. SUFFICES ASSUME IInv, exasol_sends_frame PROVE IInv'
  OBVIOUS
<1>. USE DEF IInv
<1>1. PICK kind \in {"ping", "pong"} : toGateway' = Append(toGateway, Frame(kind))
  BY DEF exasol_sends_frame
<1>2. /\ up /\ UNCHANGED <<phase, up, toExasol, rows, fetched, total, outcome, left, applied>>
  BY DEF exasol_sends_frame, result, initVars
<1>3. toGateway' \in Seq(Message) /\ \A i \in Unread' : i \in Unread /\ toGateway'[i] = toGateway[i]
  <2>1. Frame(kind).kind # "text"
    BY DEF Frame
  <2>2. toGateway \in Seq(Message) /\ Len(toGateway') = Len(toGateway) + 1
    BY <1>1 DEF TypeOK
  <2>3. ASSUME NEW i \in Unread' PROVE i \in Unread /\ toGateway'[i] = toGateway[i]
    BY <1>1, <2>1, <2>2, <2>3 DEF Unread
  <2>4. Frame(kind) \in Message
    BY DEF Frame, Message
  <2>5. toGateway' \in Seq(Message)
    BY <1>1, <2>2, <2>4
  <2>. QED  BY <2>3, <2>5
<1>4. TypeOK'
  BY <1>2, <1>3 DEF TypeOK
<1>5. InStep' /\ RequestInv' /\ RowsAreComplete'
  BY <1>2, <1>3 DEF InStep, RequestInv, RowsAreComplete
<1>6. FetchInv'
  BY <1>2, <1>3 DEF FetchInv
<1>7. InitInv'
  BY <1>2, <1>3 DEF InitInv
<1>. QED  BY <1>4, <1>5, <1>6, <1>7

\* An error is read.
LEMMA ErrorIInv == IInv /\ read_error => IInv'
<1>. SUFFICES ASSUME IInv, read_error PROVE IInv'
  OBVIOUS
<1>1. HasAnswer(Waiting) /\ Fail /\ UNCHANGED <<up, toExasol>>
  BY DEF read_error
<1>2. toGateway' \in Seq(Message) /\ Unread' = {} /\ toExasol = << >> /\ phase \in Waiting
  BY <1>1, AnswerRead DEF IInv
<1>. QED  BY <1>1, <1>2, FailIInv

\* The end of the connection is read.
LEMMA ClosedIInv == IInv /\ read_closed => IInv'
<1>. SUFFICES ASSUME IInv, read_closed PROVE IInv'
  OBVIOUS
<1>1. phase \in Waiting /\ ~up /\ Fail /\ UNCHANGED <<up, toExasol, toGateway>>
  BY DEF read_closed, channels
<1>2. toGateway' \in Seq(Message) /\ Unread' = {} /\ toExasol = << >>
  BY <1>1 DEF IInv, TypeOK, RequestInv, Unread
<1>. QED  BY <1>1, <1>2, FailIInv

\* A statement of session_init_sql is sent.
LEMMA InitializeIInv == IInv /\ initialize => IInv'
<1>. SUFFICES ASSUME IInv, initialize PROVE IInv'
  OBVIOUS
<1>1. CASE /\ up /\ send(Request("execute", 0), "execute") /\ outcome' = "none"
           /\ UNCHANGED <<up, toGateway, result, initVars>>
  BY <1>1, SendIInv DEF initialize
<1>2. CASE ~up /\ Fail /\ UNCHANGED <<up, toExasol, toGateway>>
  <2>1. toGateway' \in Seq(Message) /\ Unread' = {} /\ toExasol = << >> /\ phase = "idle"
    BY <1>2 DEF IInv, TypeOK, RequestInv, Unread, initialize
  <2>. QED  BY <1>2, <2>1, FailIInv
<1>. QED  BY <1>1, <1>2 DEF initialize, channels

\* A statement of the client is sent.
LEMMA ExecuteIInv == IInv /\ execute => IInv'
<1>. SUFFICES ASSUME IInv, execute PROVE IInv'
  OBVIOUS
<1>1. CASE /\ up /\ send(Request("execute", 0), "execute") /\ outcome' = "none" /\ UNCHANGED toGateway
  BY <1>1, SendIInv DEF execute
<1>2. CASE ~up /\ outcome' = "error" /\ UNCHANGED <<phase, toExasol, toGateway>>
  <2>1. phase = "idle" /\ UNCHANGED <<up, rows, fetched, total, left, applied>>
    BY DEF execute, result, initVars
  <2>2. Unread = {} /\ Unread' = {}
    BY <1>2 DEF IInv, RequestInv, Unread
  <2>3. TypeOK'
    BY <1>2, <2>1 DEF IInv, TypeOK
  <2>4. InStep' /\ RequestInv' /\ RowsAreComplete'
    BY <1>2, <2>1, <2>2 DEF IInv, InStep, RequestInv, RowsAreComplete
  <2>5. FetchInv' /\ InitInv'
    BY <1>2, <2>1, <2>2 DEF IInv, FetchInv, InitInv
  <2>. QED  BY <2>3, <2>4, <2>5 DEF IInv
<1>. QED  BY <1>1, <1>2 DEF execute, channels

\* A step that changes nothing.
LEMMA StutterIInv == IInv /\ UNCHANGED vars => IInv'
<1>. SUFFICES ASSUME IInv, UNCHANGED vars PROVE IInv'
  OBVIOUS
<1>. USE DEF IInv, vars
<1>1. Unread' = Unread
  BY DEF Unread
<1>2. TypeOK' /\ InStep' /\ RequestInv' /\ RowsAreComplete'
  BY <1>1 DEF TypeOK, InStep, RequestInv, RowsAreComplete
<1>3. FetchInv' /\ InitInv'
  BY <1>1 DEF FetchInv, InitInv
<1>. QED  BY <1>2, <1>3

\* Every step keeps the invariant.
LEMMA StepIInv == IInv /\ [Next]_vars => IInv'
<1>1. IInv /\ Gateway => IInv'
  BY InitializeIInv, FrameIInv, ClosedIInv, ErrorIInv, LoginIInv, ResultSetIInv, FetchedIInv, CountIInv DEF Gateway
<1>2. IInv /\ Next => IInv'
  BY <1>1, ExecuteIInv, CloseIInv, AnsweredIInv, FrameSentIInv, LostIInv DEF Next
<1>. QED  BY <1>2, StutterIInv

\* The invariant of the theorems that follow.
LEMMA InvariantHolds == Spec => []IInv
BY InitIInv, StepIInv, PTL DEF Spec

(***************************************************************************)
(* What follows.                                                           *)
(***************************************************************************)

\* Type correctness; in particular the fetch loop of parse_result_set never
\* counts more rows than the result set has.
THEOREM TypeCorrect == Spec => []TypeOK
<1>1. IInv => TypeOK
  BY DEF IInv
<1>. QED  BY <1>1, InvariantHolds, PTL

\* request and read_json_response stay in step with Exasol, whatever control
\* frames, failures and breaks of the connection come in between: no statement
\* is ever given the answer to another.
THEOREM AnswersStayInStep == Spec => []InStep
<1>1. IInv => InStep
  BY DEF IInv
<1>. QED  BY <1>1, InvariantHolds, PTL

\* parse_result_set returns every row once and in order, for result sets of any
\* size and however Exasol cuts them into chunks.
THEOREM ResultSetsAreComplete == Spec => []RowsAreComplete
<1>1. IInv => RowsAreComplete
  BY DEF IInv
<1>. QED  BY <1>1, InvariantHolds, PTL

\* ExasolSession::initialize: a client gets a session only when Exasol has
\* executed each statement of session_init_sql once, however many there are.
THEOREM SessionsAreInitialized == Spec => []InitializedFirst
<1>1. IInv => InitializedFirst
  <2>. SUFFICES ASSUME IInv PROVE InitializedFirst
    OBVIOUS
  <2>1. left \in 0 .. InitSql /\ applied \in 0 .. InitSql
    BY DEF IInv, TypeOK
  <2>2. ~Connecting => applied = InitSql
    BY <2>1, BoundsAssumption DEF IInv, InitInv, Connecting
  <2>3. phase = "idle" => applied + left = InitSql
    BY <2>1, BoundsAssumption DEF IInv, InitInv
  <2>. QED  BY <2>2, <2>3 DEF InitializedFirst
<1>. QED  BY <1>1, InvariantHolds, PTL
=============================================================================
