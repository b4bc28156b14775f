# Verification of exa-postgres-interface

exa-postgres-interface is a gateway: PostgreSQL clients connect to it with the
PostgreSQL wire protocol, and it executes their statements in an Exasol
session that it opens with the client's own credentials. This directory holds
TLA+ models of its stateful parts, the TLC configurations that check them on
small instances, and proofs that TLAPS checks for all instances.

Paths below are those of the repository (`src/pg_server.rs` and so on).

## Inventory

| Part | State | Operations | Hard behaviour |
|---|---|---|---|
| Session and statement executor (`src/pg_server.rs`) | `SessionState`: Exasol session, `current_schema`, `cursors`, `extended_results`; connection state and transaction status in pgwire | startup and password, simple query, Parse, Bind, Describe, Execute, Close, Sync; one executor per statement plan | Describe executes and caches, Execute takes from the cache; batches that fail half way; the Exasol session lost at any statement; messages after a failed login |
| SQL cursors (`GatewayCursor` in `src/pg_server.rs`, directions in `src/policy.rs`) | materialised rows, position, SCROLL, WITH HOLD | DECLARE, FETCH, MOVE, CLOSE, end of transaction | position arithmetic at both ends, negative counts, i64 limits, long sequences of moves |
| Results (`src/pg_server.rs`, `src/exasol/arrow_transport.rs`) | record batches (Arrow) or rows (WebSocket) | describe, encode, cut a range forwards or backwards | boundaries of batches, results without rows, two type mappings for the same column and a third for drivers |
| WebSocket transport (`src/exasol/websocket_transport.rs`, `src/exasol/mod.rs`) | the websocket, one outstanding request | connect and login, `session_init_sql`, execute, fetch loop, close | answers without ids, control frames, lost connection, chunked results, initialization that fails half way |
| Arrow transport (`src/exasol/arrow_transport.rs`) | the driver's session | connect, execute, close | in the driver, which is another repository |
| Bootstrap (`src/bootstrap.rs`, `src/main.rs`) | configuration file; compatibility objects in Exasol | prompts, check, install scripts | failure or kill between statements, two gateways at once |
| Statement policy (`src/policy.rs`) | none | classify a statement | order of the tests, white space, comments, spellings with noise words |
| Translator, metadata detection (`src/translator.rs`, `src/metadata.rs`) | none | recognise catalog queries, rewrite SQL text | regular expressions run one after the other over text with literals, comments and quoted names |
| SQL text helpers (`split_simple_query`, `render_portal_sql`, `split_exasol_sql`) | none | split, substitute | quotes, comments, repeated substitution |
| Configuration, TLS, listener (`src/config.rs`, `src/main.rs`) | read-only configuration | load, accept | none shared between connections |

A connection is one asynchronous task; its handlers run one after the other,
and connections share only the configuration. So concurrency is between the
gateway, its client and Exasol, and (in the bootstrap) between gateways on one
database; there is none between the handlers of a connection.

What makes each part correct:

- cursors: a position never leaves the rows, each clause lands where it means
  and delivers the rows in between, forward reads lose nothing, NO SCROLL never
  goes back; the same rows whatever the transport;
- session: the transaction status agrees with what was acknowledged, a cached
  response is delivered once and for the statement that was bound, the schema
  shown was opened, a refused statement ends its batch, no state without a
  login, every query is answered;
- transport: an answer belongs to the request that is waiting, result sets are
  complete, statements end, a client's session is initialized;
- results: what is described is what is sent and what Exasol answered, the same
  over both transports, and of the types drivers are told;
- metadata and translator: Exasol is asked for what the client's query selects,
  and given a statement that means what the client's does;
- policy and text: a statement is planned as it is meant or refused, a batch is
  cut where the client separated its statements, and parameters end up as
  literals at their placeholders;
- bootstrap: scripts are installed in order and completely when reported, with
  the operator's agreement.

## Modules

| Module | Models | Of |
|---|---|---|
| `GatewayCursor` | the arithmetic of a cursor, as operators | `GatewayCursor::apply` and its methods, `parse_cursor_direction`, `direction_requires_scroll` |
| `CursorRegistry` | the cursor commands of a session | `declare_cursor`, `fetch_cursor`, `move_cursor`, `close_cursor`, `clear_non_hold_cursors` |
| `CursorSpec` | the promise: walking and jumping over places, with mathematical integers | abstract, no code |
| `CursorProofs` | proofs about `CursorRegistry` | |
| `CursorRefinement` | the proof that `CursorRegistry` implements `CursorSpec`, and of forward reading | |
| `RecordBatches` | `slice_batches` and `reverse_slice_batches`, turn by turn | the same functions and the typed slices |
| `ResultTypes` | the types and the written forms of values, as operators | `pg_type_for_*`, `decimal_pg_type`, `map_exasol_column_type`, the conversions of JSON and Arrow values |
| `Responses` | what is made of Exasol's answer: the outcome of each transport, the response, the message; no state, so that any module can use it | `ArrowTransport::execute`, `backfill_schema_when_empty`, `WebSocketTransport::execute` and `transpose_data`, `map_exasol_result`, `fetch_query_rows`, the rows of `MetadataPlan::JdbcColumns`, `query_response_arrow`, `query_response_typed` |
| `Results` | one statement's answer over both transports; uses the three above | `execute_client_sql`, `fetch_cursor`, the way of a response to `Response::try_from` |
| `ResultsProofs` | proofs about `Results` and `RecordBatches` | |
| `Session` | a connection: handlers, executor, `SessionState`, an Exasol session | `on_startup`, `execute_simple_query`, `execute_statement`, `do_describe_portal`, `on_execute`, `do_query`, `parse_sql` and the cache |
| `SessionProofs` | proofs about `Session` | |
| `WebSocketTransport` | the transport and Exasol, over two channels | `login`, `request`, `read_json_response`, `execute`, `execute_update`, `parse_result_set`, `close`, `ExasolSession::initialize` |
| `WebSocketProofs` | proofs about `WebSocketTransport` | |
| `Bootstrap` | gateways starting against one database | `ensure_config_file`, `run_interactive_bootstrap`, `ensure_optional_preprocessor`, `execute_exasol_script` |
| `BootstrapProofs` | proofs about `Bootstrap` | |
| `SqlWords` | texts as words and what separates them | the splitting, comment removal and quoting shared by policy, metadata and translator |
| `Policy` | the reading of one statement's text, word by word | `classify_statement` and the parsers it calls, `declare_cursor`'s check of the query |
| `Metadata` | the recognition of catalog queries | `metadata::detect` |
| `Translator` | the rewritings, one operator each, in their order | `translate_postgres_to_exasol` and what it calls |
| `Frontend` | one statement from its text to its plan and to the text for Exasol; composes the three above | the beginning of `execute_sql`, `execute_metadata_query`, `declare_cursor` |
| `SqlRequests`, `SqlFragments` | what clients mean, the words they say it with, and what Exasol has to be given | PostgreSQL's and Exasol's grammar and `docs/compatibility-matrix.md`; no code |
| `SqlLexer` | the quotes and comments of SQL | no code; the reference for `SqlText` |
| `ScriptLines` | the lines of installation scripts | the tests of `split_exasol_sql` on a line |
| `PortalParameters` | the literal made of one bound value; no state | `render_portal_parameter`, `render_binary_parameter`, `sql_string_literal` |
| `SqlText` | one call of `split_simple_query`, turn by turn, of `render_portal_sql`, parameter by parameter, or of `split_exasol_sql`, line by line | the same functions, the use of the first in `parse_sql`, `max_parameter_index` |
| `SqlTextProofs` | proofs about `SqlText` | |
| `SequenceFolds` | lemmas about lists, their concatenation, reversal and folds, that the last two proof modules rest on | no code |
| `MCDocuments` | a client that tries what the documents promise; uses `Frontend`, `PortalParameters` and `Responses` | the promises are quoted from the documents; no code |
| other `MC*` | the constants of the runs | |

`PROJECT.json` maps every definition to its lines. Operators whose comment
starts with "Mutant" are not part of a model: each is a plausible bug, and is
used to see that a property notices it.

### Correspondence and abstractions

*Cursors.* A cursor is its rows, position (`-1 .. len`, as in the code), scroll
and hold. Rows are a flat sequence; `RecordBatches` shows that the list of
batches behaves like one. `CursorStep` carries rows and count; the code's
`return_rows` tells FETCH from MOVE. i64 and isize are one width with the
largest value `IMax`; the one place where a sum can leave it (`relative`)
wraps, as in a release build. The operand `IMin` is excluded by an assumption:
`forward` and `backward` negate it into itself and recurse for ever, which is
listed as a hazard. A command is one action, since the cursor map is locked
and nothing else of the connection runs meanwhile. `reading` is a history
variable: the rows a cursor delivered while it was only read forwards.

*Session.* A statement is the plan that `classify_statement` or metadata
detection makes of it; a text is a sequence of plans, as `split_simple_query`
would split it. `execute_statement(s, res)` relates a statement to its result:
a kind of `GatewayResponse`, or `"Err"` for an error raised with `?`. The two
are told apart because the code treats them differently: `Response::Error`
stops a batch and keeps the earlier answers, an `Err` throws them away; after
an Execute, the former leaves the connection ready, the latter skips to Sync.
A simple query is several actions (statement by statement, then response by
response), so that the Exasol session may be lost in between; an extended
message is one. Exasol is a session that is up or not and the schema that
`OPEN SCHEMA` opened last. A statement may succeed, be refused, or lose the
session before or after its effect. DDL of a client that moves Exasol's own
current schema is left out: nothing in the code tells what Exasol does then.
The message loop, the portal store and the transaction status belong to the
pgwire library and are modelled as the gateway uses them (marked external).
After a disconnection the same variables stand for the next client.

*WebSocket.* Requests and messages are records on ordered channels. A result
set is numbered rows, so that missing or repeated ones show. Exasol may answer
with an error, a count, or a result set cut at any place, with a handle
whenever rows are missing; it may send control frames; the connection may
break, which loses what is under way. A fetch is assumed to return at least
one row: the loop of `parse_result_set` would ask for ever otherwise. `left`
counts the statements of `session_init_sql` still to run; a client has the
session when there are none, which stands for `connect_exasol` returning. Only
statements with a row count are counted as executed in `applied`:
`execute_update` refuses a result set.

*Results.* One behaviour is one statement, executed over both transports side
by side, so that their answers can be compared. A column is described as each
transport and the catalog describe it (an Arrow field, a JSON data type, a type's
text); a value is an identity and the form it is written in, since the digits
of a number do not matter to any property. FETCH walks the record batches turn
by turn (`RecordBatches`). How Exasol and the driver describe a type in the three
ways is `ExasolType` (external): the types of `MCResults` are instances of it,
which TLC checks with `StatementsAssumption`. Blanks in the names of types are
written `_`.

*Bootstrap.* A script is the numbers of its statements; the first two of the
catalog script create the schemas that `installed_schema_count` counts.
`permitted` and `finished` are history variables.

*Front end.* A text is the sequence of its words with markers for what lies
between them: a single space (no marker), a line break, or a comment. That is
what the regular expressions and `split_whitespace` of the code tell apart; the
characters of a word are not, except that quoted words are in a small table
with what is between the quotes, one with a space in it and one literal with a
comment sign. Keywords are compared without case and therefore upper case. The
rows of a local answer for `pg_settings` are left out. A request of
`SqlRequests` carries its words and its meaning, both made from its parts.
The regular expressions of the translator are operators on windows of words,
applied in the order of the code; where one looks inside a word (`x::int`,
`s.t`), the word is in a table with its parts. `polyglot_sql` is external and
modelled by what it is used for (casts and their types) or by a refusal. A
catalog query recognised in the translator is the name of the fixed query it
is replaced by and the conditions carried over into it. A query of
`SqlFragments` is put together from parts, each with what Exasol has to be
given for it, so that every combination has a meaning that is not computed with
the translator.

*Split and substitution.* These are about characters, so texts are
sequences of characters, over an alphabet with one representative for all that
the loops do not look at; block comments are not in it. A script is a sequence
of items, each a few lines with the statements they are. `MCSqlText` binds ten
parameters, since `$1` must be a prefix of `$10`, and varies the value of the
first or the last. A decoded number is a sign and digits, because it is put into
the text without quotes; TRUE, FALSE and NULL are one character each.

## Runs

All bounds are constants of the `.cfg` files.

| Run | Checks | Bounds |
|---|---|---|
| `cursor` | `TypeOK`, `ForwardReadsLoseNothing`, `NoScrollNeverGoesBack`, `ImplementsCursorSpec` | one name, no row or three rows, operands of both signs inside and beyond the rows: every branch of the arithmetic from every position. Cursors do not influence each other, so one name suffices; the width is large enough for no sum to wrap |
| `session_simple` | `TypeOK`, `StatusAgreesWithAcks`, `ShownSchemaWasOpened`, `ErrorEndsTheBatch`, `SimpleQueryIsAnswered` | every plan alone, with two schemas and two cursors, and batches of up to three that fail or are refused half way |
| `session_extended` | `StatusAgreesWithAcks`, `AtMostOnceDelivery`, `NoStateWithoutSession` | one prepared statement, the unnamed and a named portal, transaction commands, a write, a text of two statements. Two portals are needed because only the unnamed one is dropped by Execute |
| `results` | `TypeOK`, `LoopInvariant`, `SlicesAgree`, `DescribedAsAnswered`, `SameOverEitherTransport`, `CatalogMatchesResults` | every column type the mappings tell apart, with and without rows and nulls; FETCH of every range, up to past the end, of up to three batches of up to two rows (empty ones too); writes; the columns of a table |
| `websocket` | `TypeOK`, `InStep`, `RowsAreComplete`, `InitializedFirst`, `StatementEnds` | up to three rows, cut anywhere, so up to three fetches; two statements of `session_init_sql`, so that the second may fail; one control frame under way. Deadlock is off: a closed transport may stop |
| `bootstrap` | `TypeOK`, `InstalledInOrder`, `ReportedIsInstalled`, `AskedFirst` | two gateways, four and two statements |
| `frontend` | `TypeOK`, `OnlyKnownDepartures`, `CatalogQueriesSelectTheRows`, `ExasolGetsTheMeaning`, `FoldedForAReason` | some 950 requests in four layouts (one line, one word to a line, comments between the words, a comment before and semicolons behind): every arm of the dispatch, every list of options, every direction clause; every kind of catalog query with and without each condition; for the translator, every head of a query with every expression or literal, with and without a reserved alias, from every source; every alias with every source and limit; each of the selects also wrapped and read with a cursor; and the known catalog queries of clients. All with and without translation |
| `sql_text` | `TypeOK`, `FlagsAreTheMode`, `StatementsAreThePieces`, `AllAtOnce`, `ValuesStayLiterals`, `MalformedIsRefused`, `ScriptsAreTheirStatements`, `Returns` | every query of up to five of the five characters: two statements, one with a quoted semicolon, doubled quotes, unclosed quotes; queries with comments; every prepared statement of up to four characters, with one- and two-digit placeholders or with quotes, semicolons and dashes; ten parameters, values of every kind, some with a placeholder in them, some negative; scripts of up to three items: statements, bodies, comments, markers, empty lines. Deadlock is off: a call returns |

Four more runs state what a document of the repository says and TLC refutes:

| Run | Property | What happens |
|---|---|---|
| `session_rebind` | `ExecuteAnswersItsPortal` | Describe, Bind of the same portal name, Execute: the answer is that of the first statement, and the second never runs |
| `documents` | `DocumentsKept` | a client tries thirteen promises one after the other; the last state of the trace lists in `broken` the ones that were not kept: all of them, see the next section |
| `session_batch` | `WritesAreReported` | a simple query of two writes whose second fails: the first is not reported |
| `bootstrap_present` | `PresentIsInstalled` | an installation fails at its third statement; the next start finds the schemas "present" |

The findings in `PROJECT.json` quote the documents.

`MCCursor.cfg` chooses a width in which no sum wraps. With `IMax = 7` and all
operands of that width TLC refutes `ImplementsCursorSpec`: `FETCH RELATIVE 7`
from a row past the first wraps and lands before the first row.

### Known departures

Some properties name the ways in which the code departs from what is meant, each
with the inputs it concerns and what becomes of them. They are the places where
the code reads text in two ways. A change of the code that repairs one of them
leaves the property true (or asks for the entry of a table to be removed); one
that adds another, or lets one spread to other statements, violates it. A
departure that a document of the repository rules out is also refuted: the run
`documents` has a case for it, named in the tables, and `PROJECT.json` a finding.
Once the code is repaired the case drops out of `broken`; `DocumentsKept` holds
when all are.

`OnlyKnownDepartures` says that every request is planned as meant but for the
following (`session-management/spec.md` and `spec.md` are those under
`specs/protocol/read-write-statement-path/`):

| Departure | What happens | Document, and the case of `documents` |
|---|---|---|
| `DeclarationMisread` | `NO SCROLL` with a line break or comment between the words declares a SCROLL cursor, `WITH HOLD` so written is dropped; a query loses what looks like a comment inside a literal | `session-management/spec.md:48`: unsupported semantics are not silently downgraded ("NO SCROLL is kept", "WITH HOLD is kept") |
| `SavepointMisread` | `ROLLBACK WORK TO p` ends the transaction and drops its cursors | `docs/compatibility-matrix.md:22`: savepoints are unsupported ("savepoints are refused") |
| `ListCut` | a search path of two schemas opens the first, or over several lines none | `session-management/spec.md:73`: several schemas are rejected ("a list of schemas is refused") |
| `NameRefused` | a cursor named `"my c"` can be declared but neither fetched from nor closed by name | `session-management/spec.md:39`: CLOSE releases the cursor ("CLOSE releases the cursor") |
| `SettingsAnswered` | a write or a declaration that names `pg_settings` is answered locally and not run | `spec.md:35`: a write is executed against Exasol ("a write is executed") |
| `ProbeMissed` | a probe such as `SELECT version()` over two lines goes to Exasol; SHOW of a name of several words is refused | none; the tests of `src/policy.rs` have them on one line |
| `CatalogQueryMissed` | a catalog query with a comment in it or before it is not answered by the gateway but translated and given to Exasol | none |
| `ConditionIgnored` | a condition `detect` does not know makes no difference to its answer | none |

`CatalogQueriesSelectTheRows` excuses the last of these, and
`information_schema` without a schema, which has no rows.
`ExasolGetsTheMeaning` takes its departures from the tables of `SqlFragments`:

- a keyword behind AS is quoted although it is no alias: the SELECT of a view or
  of CREATE TABLE AS (ruled out by `docs/compatibility-matrix.md:18` and `:19`;
  cases "CREATE TABLE AS is supported" and "CREATE VIEW is supported"), a type
  of several words in a CAST (`DOUBLE PRECISION`);
- the regular expressions look into literals: `AS time`, `OFFSET 0` and the
  prefix `exasol.` in any statement; a catalog name behind FROM, `session_user`
  and ILIKE in a translated one. A literal with `::` or a catalog name makes the
  statement one to translate, and its labels are folded (`FoldedForAReason`);
- in a translated statement `"s"."t"` and aliases of tables lose their quotes,
  and with them the case of the names;
- ILIKE with a qualified operand leaves the qualifier outside, with a computed
  operand it is not rewritten; a call that is not behind white space and
  `pg_get_viewdef` alone do not make a statement one to translate;
- of the known catalog queries of clients: a condition with `=` where only IN is
  expected is dropped, an apostrophe cuts a name, and a `regclass` without a
  schema matches every schema.

`SqlText` excuses, of `split_simple_query`, that a quote or a semicolon in a
comment misleads it (`Misleading`); of `render_portal_sql`,

- that a value with the placeholder of a lower parameter in it is substituted
  into again (`Resubstituted`);
- that a number directly behind a `$`, or behind another placeholder, may make
  another placeholder with it (`Joined`: `$$1` with 2 for `$1`);
- that a placeholder in quotes or in a comment is replaced too (`Enquoted`);
- that a negative number behind a minus sign begins a comment (`Negated`: `-$1`);
- that a binary value of a type the gateway cannot read is taken for text if its
  bytes are UTF-8 (`TakenForText`; ruled out by `session-management/spec.md:56`
  and `docs/compatibility-matrix.md:11`, case "unsupported binary formats are
  refused");

and of `split_exasol_sql`, that it goes astray on a comment line that ends with a
semicolon inside a statement, on a body whose CREATE and SCRIPT are on two
lines, and on SCRIPT as a word in a plain CREATE (`Astray`) - the statements
before it are right all the same.

`Results` excuses, between the transports,

- two spellings and the types of geometries and intervals (`Respelled`,
  `SameField`; ruled out by `_recorded/2026-05-28-change-dual-transport/plan.md:26`,
  cases "a boolean ...", "a timestamp ..." and "a geometry is the same over either
  transport");
- that an Arrow result without a batch has no columns if the driver does not know
  the schema either (`ColumnsUnknown`): what the driver does not tell the gateway
  cannot know. In every other case both transports have as many columns;

and of the columns a driver asks for, the types it is told differently
(`TwoTypes`), and that over WebSocket a NOT NULL column may be missed (the code
misses all of them: `sql/postgres_catalog_compatibility.sql:1040` and
`plan.md:26` rule that out, case "NOT NULL columns are reported over
WebSocket"). That a column which may be null is told to be NOT NULL is excused
over neither.

Not stated as a property: a COMMIT that is described before a cursor is declared
and executed after it is answered from the cache and drops no cursor, so that
the cursor outlives its transaction (`session-management/spec.md:40`).

### Fairness

`SimpleQueryIsAnswered` assumes weak fairness of the gateway's own actions: the
task of a connection is scheduled by tokio while it has work, and a statement
sent to Exasol ends in an answer or an error. Nothing is assumed of clients.
`StatementEnds` assumes the same of the transport, and that Exasol answers a
request it received; the code has no timeout (`queryTimeout` is 0), so without
that a statement may wait for ever. `Returns` assumes that the loop
runs. The other properties need no fairness.

## Proofs

Every theorem holds for all values of the constants under the assumptions of
the module.

| Theorem | Says | Argument |
|---|---|---|
| `CursorProofs!TypeCorrect` | `Spec => []TypeOK` | a lemma per movement: from a position in `-1 .. len` and a well-formed direction it lands in `-1 .. len`. That a parsed direction is well formed (a FORWARD or BACKWARD count is not negative) is a lemma about `parse_cursor_direction` |
| `CursorProofs!NoScrollTheorem` | `Spec => NoScrollNeverGoesBack` | a direction that passes the SCROLL check never moves back; from `TypeOK` |
| `CursorRefinement!RefinementTheorem` | `NoOverflow` implies `Spec => ImplementsCursorSpec` | a lemma per movement shows that its step walks or jumps over the places of the promise; `ClauseMoves` joins them with `parse_cursor_direction`, `ScrollAgrees` compares the two SCROLL checks; then one lemma per command simulates it under the mapping `Places`. The assumption is needed, because RELATIVE wraps (see Runs); it holds of the constants of `MCCursor.cfg` |
| `CursorRefinement!ForwardTheorem` | `Spec => []ForwardReadsLoseNothing` | inductive with `TypeOK` and the type of the history: a direction that reads on walks on by at least one row, and the rows of a walk continue the rows before it. No assumption on the width: RELATIVE does not read on |
| `SessionProofs!TypeCorrect` | `Spec => []TypeOK` | `TypeOK` is inductive, with one lemma per executor of a statement and one per message |
| `SessionProofs!StatusTheorem` | `Spec => []StatusAgreesWithAcks` | every action that sends moves the status and what was told together, and an error never makes an idle session busy or a busy one idle |
| `SessionProofs!SchemaTheorem`, `SessionProofs!NoStateTheorem` | `[]ShownSchemaWasOpened`, `[]NoStateWithoutSession` | the two are proved together: the schema can only be trusted if a login does not find an old one. `SchemaInv` adds `LoginFirst`, that a connection before its login has no session |
| `SessionProofs!AtMostOnceTheorem` | `Spec => []AtMostOnceDelivery` | inductive with `TypeOK`: a response leaves the cache in the step that delivers it |
| `WebSocketProofs!TypeCorrect`, `!AnswersStayInStep`, `!ResultSetsAreComplete`, `!SessionsAreInitialized` | `[]TypeOK`, `[]InStep`, `[]RowsAreComplete`, `[]InitializedFirst` | for result sets of any size, any number of frames and any `session_init_sql`. None is inductive alone: `RequestInv` says that the request under way is the one waited for and that nothing is under way on a lost connection, `FetchInv` that what is collected when a fetch is asked for are the first rows and that its answer holds the next, `InitInv` that what `initialize` has left and what Exasol has executed add up but for the one answer under way. One lemma per action keeps the conjunction |
| `SessionProofs!BatchTheorem` | `Spec => []ErrorEndsTheBatch` | inductive with `TypeOK`: the step that appends an error empties the batch, and later steps only take responses away from the front |
| `BootstrapProofs!InOrderTheorem`, `BootstrapProofs!ReportedTheorem`, `BootstrapProofs!TypeCorrect` | `[]InstalledInOrder`, `[]ReportedIsInstalled`, `[]TypeOK` | the first two are not inductive alone; `Running` adds that a gateway in a script has executed all before its index, with any number of gateways |
| `BootstrapProofs!AskedTheorem` | `Spec => []AskedFirst` | inductive with `TypeOK`: a gateway comes into a script only by `Agree`, which records its operator's agreement, and `start` forgets agreements only of a gateway that is off. Every statement of a script creates or replaces, so being in the script is what needs agreement, whether or not the objects are there |
| `ResultsProofs!LoopTheorem`, `!SlicesTheorem`, `!TypeCorrect` | `[]LoopInvariant`, `[]SlicesAgree`, `[]TypeOK` | for any number of batches of any size. `SliceInv` is the loops' invariant: what is sliced are the rows of the range in the batches passed, what is reversed and what waits to be are the range backwards; it rests on what `FlattenSeq`, `Reverse` and `SubSeq` do when a list grows |
| `ResultsProofs!DescribedTheorem`, `!SameTheorem`, `!CatalogTheorem` | `[]DescribedAsAnswered`, `[]SameOverEitherTransport`, `[]CatalogMatchesResults` | for any columns of Exasol's types and answers of any size. `ResultInv` gives answer, response and message at each point of a statement's way as functions of the statement and of the slices. What is sent of a row is a spelling of each of its cells (`Mapped`), and a mapping of cells commutes with flattening, cutting and reversing; so both transports send the same rows whatever the batches. The types are a table (`TypeTable`): one line for every way of `ExasolType`, with what each of the three mappings makes of it |
| `SqlTextProofs!TypeCorrect` | `Spec => []TypeOK` | `FoundInv`: what has been found is trimmed, and `trim` of what is trimmed is the same (`Trimmed`) |
| `SqlTextProofs!FlagsTheorem` | `Spec => []FlagsAreTheMode` | `SplitInv`: the flags are never both set and agree with the mode of the text read, or a comment has misled them. `OneCharacter` compares one turn of the loop with one turn of the fold `Mode`; a doubled quote is one turn of the loop and two of the fold |
| `SqlTextProofs!PiecesTheorem` | `Spec => []StatementsAreThePieces` | `PiecesInv`: the current statement begins behind the last semicolon outside quotes, and the statements found are the pieces that begin before it. Since the flags agree with the mode, the semicolons they find are the ends of the pieces (`EndsAreFound`), and what is pushed is the piece (`PushedIsThePiece`) |
| `SqlTextProofs!MalformedTheorem` | `Spec => []MalformedIsRefused` | `RenderInv`: the parameters the loop has gone past are well formed or taken for text, used or not (`RenderedIsAccepted`) |
| `SqlTextProofs!AllAtOnceTheorem` | `Spec => []AllAtOnce` | for any statement and portal. `BindInv`: the text so far is the statement with the placeholders above the `idx`-th replaced, put together part by part (`Put`), a part being a character with the digits behind it. `PutReplaced` is one turn: no occurrence of `$idx` begins in one part and ends in another, none is in a value (unless `Resubstituted` or `Joined`), and a part it begins is its placeholder as a whole, since the longer numbers are gone. `ReplaceConcat` cuts `replace` at the borders of the parts |
| `SqlTextProofs!ValuesTheorem` | `Spec => []ValuesStayLiterals` | from `BindInv`. `SameAll` goes over the parts: what a placeholder outside quotes is replaced by leaves the lexer where the placeholder does, and adds no semicolon outside quotes (`ValueIsHarmless`; `DoubledStays` for the doubled quotes of a literal, `NumberIsHarmless` for a number) |
| `SqlTextProofs!ScriptsTheorem` | `Spec => []ScriptsAreTheirStatements` | for a script of any number of items. `ScriptInv`: no item before the current one leads astray and what is found are their statements, the lines kept are those read of the current statement (`Whereabouts`), and the flag is set exactly inside a body; or an item led astray, and the statements before it are found (`Led`). `ReadLine` is one turn; `BodySays`, `PlainSays` and `UnfinishedSays` compare what is pushed at the end of a statement with what its lines say |
| `SqlTextProofs!TurnsTheorem` | `Spec => [][FewerTurns]_vars` | the variant of the three loops: what termination rests on besides fairness |

Assumptions: `IMaxAssumption` (the largest integer is positive),
`OperandsAssumption` (operands are integers of the width, but for the least),
`ResultsAssumption` (`GatewayCursor::len` refuses longer results),
`TextsAssumption` of `Session` (texts are sequences of statements),
`LengthsAssumption` (the scripts hold their `CREATE SCHEMA` statements),
`ManagedAssumption`, `BoundsAssumption` (the bounds of `WebSocketTransport` are
natural numbers), `StatementsAssumption` (a row is as wide as its columns, a
null has no value, columns are of Exasol's types, and the catalog's rows are
those of the table), `TextsAssumption` of `SqlText` (texts, scripts and their
items are sequences), `PortalsAssumption` (a portal has at most 99 parameters,
and an integer is written with digits and a sign) and `ScriptsAssumption` (an
item of a script leads astray, stands between statements, is a statement of
which the first line with a semicolon at its end, or with "/" behind a body, is
the last, or is the unfinished last one; and its statements are what its lines
say without the loop). TLC evaluates each of them on the constants of a run.
`RefinementTheorem` alone also assumes `NoOverflow`: no operand added to the
length of a result exceeds the largest integer.

### Induction over lists

The theorems about `Results` and `SqlText` are about lists of any length and
about operators that are defined by recursion. The induction theorems of the
library take an operator, which the provers cannot instantiate, so
`SequenceFolds` proves its own for sets: a set of numbers with 0 in it and with
every number the next holds all natural numbers (`SetInduction`, from the
well-foundedness of `<`), and likewise for lists (`SeqInduction`). The community
modules define `FlattenSeq` and `FoldLeft` by CHOOSE of a function that satisfies
a recursive equation; `Recursion` and `FoldExists` show that there is one, and
`FlattensAgree` (and `ScansAgree` and its like for a fold) that two of them
agree, which gives what every proof uses: `FlattenAppend`, `ModeAppend`, the
value for a list with one member more.

### Only model-checked

- The liveness properties (`SimpleQueryIsAnswered`, `StatementEnds`, `Returns`):
  fairness is beyond the prover. Of `Returns` the variant is proved
  (`TurnsTheorem`).
- `Frontend` and `SqlFragments`: their properties compare the outcome of a long
  chain of rewritings with tables of requests and of fragments. They are about
  the texts of these tables, which TLC goes through; there is no statement for
  all texts to prove.

## Not modelled

- polyglot_sql is a library: `transpile_by_name` is what `src/translator.rs`
  relies on, and it may refuse any statement it is given.
- Of the translator: the replacements of one fixed phrase by another in
  `rewrite_sqlglot_edge_cases`, the stars with a type name of
  `replace_case_type_name_star`, and the known queries about user mappings and
  foreign data wrappers, which differ from the modelled ones in their text only.
- Of the session: the types inferred for parameters, the projection of the rows
  of `pg_settings`, the digits of values (the values of `Results` are the
  classes the code tells apart), and DDL that moves Exasol's current schema.
- Of the bootstrap: how the schema count is read from either transport.
- Of the rendering of portals: more than 99 parameters, statements with a number
  that begins with a zero (PostgreSQL reads `$01` as `$1`, the loop does not) and
  portals with fewer parameters than the statement's description asks for.
- Block comments in a simple query: `SqlLexer` has those that end with the line.
- The error of a value that Arrow has no text for: `arrow_batches_to_text_rows`
  (`src/pg_server.rs:2260`) logs it and a catalog query goes on without rows. Every
  value of `Responses` has a text.
- Encoding of rows, TLS, password encryption, parsing of the configuration and
  `exasol_exec` are input and output. The accept loop hands each connection a
  session and keeps no state; its first error ends the process.
- The session at Exasol of a client that goes away is dropped, not closed
  (`ExasolSession::close` is not called); what Exasol does then is not known.
- Cancel requests are not handled by the code.

## Plan

Done: cursors, session, results over both transports, WebSocket transport with
the initialization of its session, bootstrap, the front end (metadata
detection, policy, translator), splitting of simple queries and of scripts,
rendering of portals; the proofs above. Left:

1. The local rows of `pg_settings` (`catalog_projection`) and the reading of the
   schema count (`first_count`).
2. Composition: `Session` with the rows of `CursorRegistry` instead of their
   hold option, and a proof that `WebSocketTransport` implements the outcomes
   of `Session`'s `ExasolExecute`.
3. Portals of more than 99 parameters.
