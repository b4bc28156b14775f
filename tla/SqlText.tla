------------------------------- MODULE SqlText --------------------------------
(***************************************************************************)
(* The loops over SQL text.  split_simple_query of src/pg_server.rs cuts   *)
(* the text of a simple query into its statements at the semicolons        *)
(* outside quotes (and parse_sql refuses a Parse message with more than    *)
(* one); render_portal_sql replaces $n, $n-1, ... , $1 in the text of a    *)
(* prepared statement, one after the other, by the literals                *)
(* render_portal_parameter makes of the values bound; split_exasol_sql of  *)
(* src/bootstrap.rs cuts an installation script into its statements.       *)
(*                                                                         *)
(* One behaviour is one call of one of them, one step one turn of its      *)
(* loop.  Texts are sequences of characters, scripts of items with lines.  *)
(* PortalParameters has the literals of values.                            *)
(***************************************************************************)
EXTENDS Naturals, FiniteSetsExt, SqlLexer, ScriptLines, PortalParameters

CONSTANTS Queries,     \* the texts of simple queries
          Statements,  \* the texts of prepared statements
          Portals,     \* the parameter lists clients bind
          Scripts      \* installation scripts: sequences of [lines, statements],
                       \* each item's lines and the statements they are

Figures == <<"0", "1", "2", "3", "4", "5", "6", "7", "8", "9">>
IsDigit(c) == c \in ToSet(Figures)

\* What to_string writes for an integer.
IsNumber(s) ==
  /\ s \in Seq(ToSet(s)) /\ s # << >> /\ s # << "-" >>
  /\ \A i \in DOMAIN s : IsDigit(s[i]) \/ (i = 1 /\ s[i] = "-")

\* Texts, scripts and the lines and statements of their items are lists.
ASSUME TextsAssumption ==
  /\ \A s \in Queries \cup Statements \cup Scripts : s \in Seq(ToSet(s))
  /\ \A s \in Scripts : \A item \in ToSet(s) :
       /\ item.lines \in Seq(ToSet(item.lines)) /\ item.statements \in Seq(ToSet(item.statements))
       /\ \A i \in DOMAIN item.statements : item.statements[i] \in Seq(ToSet(item.statements[i]))

\* A portal has parameters of at most two-digit numbers.  Each is NULL or
\* bytes, text in UTF-8 or not; number is what the bytes are as an integer.
ASSUME PortalsAssumption ==
  \A ps \in Portals :
    /\ ps \in Seq(ToSet(ps)) /\ Len(ps) <= 99
    /\ \A i \in DOMAIN ps :
         /\ {ps[i].null, ps[i].binary, ps[i].utf8} \subseteq BOOLEAN
         /\ ps[i].bytes \in Seq(ToSet(ps[i].bytes)) /\ IsNumber(ps[i].number)

VARIABLES call,             \* "split", "render" or "script"
          text,             \* the argument
          idx,              \* characters or lines read; render: parameters left
          start,            \* the characters before the current statement
          in_single_quote,
          in_double_quote,
          statements,       \* the statements found
          buffer,           \* the lines of the current statement of a script
          in_compound_statement,
          parameters,       \* the values bound
          sql,              \* the text rendered so far
          outcome           \* "running", "returned" or "error"

splitVars == <<start, in_single_quote, in_double_quote, statements>>
scriptVars == <<buffer, in_compound_statement>>
vars == <<call, text, idx, splitVars, scriptVars, parameters, sql, outcome>>

(***************************************************************************)
(* split_simple_query                                                      *)
(***************************************************************************)

ch == text[idx + 1]

trim(s) ==
  LET kept == {i \in DOMAIN s : s[i] \notin {" ", NL}}
  IN IF kept = {} THEN << >> ELSE SubSeq(s, Min(kept), Max(kept))

\* Mutant: the white space around a statement is kept.
PushedUntrimmed(end) == Append(statements, SubSeq(text, start + 1, end))

\* The statement that ends before the character at end is pushed, unless empty.
Pushed(end) ==
  LET statement == trim(SubSeq(text, start + 1, end))
  IN IF statement = << >> THEN statements ELSE Append(statements, statement)

InitSplit ==
  /\ call = "split" /\ text \in Queries /\ idx = 0
  /\ parameters = << >> /\ sql = << >>

Scanning == call = "split" /\ outcome = "running" /\ idx < Len(text)

\* Mutant: a quote inside a quoted identifier opens a string.
AnySingleQuote ==
  /\ Scanning /\ ch = "'"
  /\ in_single_quote' = ~in_single_quote
  /\ idx' = idx + 1
  /\ UNCHANGED <<call, text, scriptVars, start, in_double_quote, statements, parameters, sql, outcome>>

\* A doubled quote in a string is read in one turn.
SingleQuote ==
  /\ Scanning /\ ch = "'" /\ ~in_double_quote
  /\ IF in_single_quote /\ idx + 1 < Len(text) /\ text[idx + 2] = "'"
     THEN idx' = idx + 2 /\ UNCHANGED in_single_quote
     ELSE idx' = idx + 1 /\ in_single_quote' = ~in_single_quote
  /\ UNCHANGED <<call, text, scriptVars, start, in_double_quote, statements, parameters, sql, outcome>>

\* Mutant: the double quote is peeked at but not consumed.
DoubleQuoteNotRead ==
  /\ Scanning /\ ch = "\"" /\ ~in_single_quote
  /\ in_double_quote' = ~in_double_quote
  /\ UNCHANGED <<call, text, scriptVars, idx, start, in_single_quote, statements, parameters, sql, outcome>>

DoubleQuote ==
  /\ Scanning /\ ch = "\"" /\ ~in_single_quote
  /\ in_double_quote' = ~in_double_quote
  /\ idx' = idx + 1
  /\ UNCHANGED <<call, text, scriptVars, start, in_single_quote, statements, parameters, sql, outcome>>

Semicolon ==
  /\ Scanning /\ ch = ";" /\ ~in_single_quote /\ ~in_double_quote
  /\ statements' = Pushed(idx)
  /\ start' = idx + 1
  /\ idx' = idx + 1
  /\ UNCHANGED <<call, text, scriptVars, in_single_quote, in_double_quote, parameters, sql, outcome>>

Other ==
  /\ Scanning
  /\ \/ ch \notin {"'", "\"", ";"}
     \/ ch = "'" /\ in_double_quote
     \/ ch = "\"" /\ in_single_quote
     \/ ch = ";" /\ (in_single_quote \/ in_double_quote)
  /\ idx' = idx + 1
  /\ UNCHANGED <<call, text, scriptVars, splitVars, parameters, sql, outcome>>

\* Mutant: the text behind the last semicolon is forgotten.
DropTail ==
  /\ call = "split" /\ outcome = "running" /\ idx = Len(text)
  /\ outcome' = "returned"
  /\ UNCHANGED <<call, text, scriptVars, idx, splitVars, parameters, sql>>

ReturnStatements ==
  /\ call = "split" /\ outcome = "running" /\ idx = Len(text)
  /\ statements' = Pushed(Len(text))
  /\ outcome' = "returned"
  /\ UNCHANGED <<call, text, scriptVars, idx, start, in_single_quote, in_double_quote, parameters, sql>>

\* parse_sql of GatewayQueryParser: a Parse message carries one statement.
parse_sql_refuses == Len(statements) > 1

(***************************************************************************)
(* render_portal_sql                                                       *)
(***************************************************************************)

\* The placeholder of the k-th parameter.
Placeholder(k) == IF k < 10 THEN << "$", Figures[k + 1] >>
                  ELSE << "$", Figures[(k \div 10) + 1], Figures[(k % 10) + 1] >>

\* str::replace: every occurrence, from the left, not looking into what was put in.
Occurrences(s, part) ==
  {i \in 1 .. (Len(s) + 1 - Len(part)) : SubSeq(s, i, (i + Len(part)) - 1) = part}

replace(s, part, value) ==
  LET at == Occurrences(s, part)
      inside(i) == \E j \in at : j < i /\ i < j + Len(part)
  IN FlattenSeq([i \in DOMAIN s |-> IF i \in at THEN value
                                    ELSE IF inside(i) THEN << >> ELSE << s[i] >>])

Value(c) == CHOOSE d \in 0 .. 9 : Figures[d + 1] = c

\* The last of the digits behind position i of s.
DigitsEnd(s, i) == CHOOSE e \in i .. Len(s) :
                     /\ \A j \in (i + 1) .. e : IsDigit(s[j])
                     /\ e < Len(s) => ~IsDigit(s[e + 1])

\* The number behind the $ at position i of s, 0 for none.
NumberAt(s, i) == FoldLeft(LAMBDA n, c : 10 * n + Value(c), 0, SubSeq(s, i + 1, DigitsEnd(s, i)))

Numbers(s) == {NumberAt(s, i) : i \in {j \in DOMAIN s : s[j] = "$"}}

\* The number of parameters a statement has, which its description tells the
\* client (infer_parameter_types).
max_parameter_index(s) == CHOOSE n \in Numbers(s) \cup {0} :
                               \A m \in Numbers(s) : m <= n

\* No number begins with a zero: PostgreSQL reads $01 as $1, the loop does not.
Canonical(s) == Occurrences(s, << "$", "0" >>) = {}

\* The client binds no fewer parameters than the description asks for.
InitRender ==
  /\ call = "render" /\ parameters \in Portals
  /\ text \in {s \in Statements : Canonical(s) /\ max_parameter_index(s) <= Len(parameters)}
  /\ sql = text /\ idx = Len(parameters)

Rendering == call = "render" /\ outcome = "running" /\ idx > 0

\* Mutant: the placeholders are replaced in ascending order.
FirstPlaceholderFirst ==
  /\ Rendering
  /\ LET k     == Len(parameters) + 1 - idx
         value == render_portal_parameter(parameters[k])
     IN IF value = Error THEN outcome' = "error" /\ UNCHANGED sql
        ELSE sql' = replace(sql, Placeholder(k), value) /\ UNCHANGED outcome
  /\ idx' = idx - 1
  /\ UNCHANGED <<call, text, scriptVars, splitVars, parameters>>

Replace ==
  /\ Rendering
  /\ LET value == render_portal_parameter(parameters[idx])
     IN IF value = Error THEN outcome' = "error" /\ UNCHANGED sql
        ELSE sql' = replace(sql, Placeholder(idx), value) /\ UNCHANGED outcome
  /\ idx' = idx - 1
  /\ UNCHANGED <<call, text, scriptVars, splitVars, parameters>>

ReturnSql ==
  /\ call = "render" /\ outcome = "running" /\ idx = 0
  /\ outcome' = "returned"
  /\ UNCHANGED <<call, text, scriptVars, idx, splitVars, parameters, sql>>

(***************************************************************************)
(* split_exasol_sql                                                        *)
(***************************************************************************)

Lines == FlattenSeq([i \in DOMAIN text |-> text[i].lines])

InitScript ==
  /\ call = "script" /\ text \in Scripts /\ idx = 0
  /\ parameters = << >> /\ sql = << >>

Reading == call = "script" /\ outcome = "running" /\ idx < Len(Lines)

line == Lines[idx + 1]

\* The markers of a body, and what stands between statements.
Skipped == line = OPENS \/ (buffer = << >> /\ line \in Comments \cup {BLANK})

Compound == in_compound_statement \/ StartsCompound(line)

\* The lines of a statement, without the white space around them and the
\* semicolons at the end.
Unended(lines) ==
  LET kept == trim(lines)
  IN IF kept # << >> /\ Last(kept) \in DOMAIN Ended THEN trim(Append(Front(kept), Ended[Last(kept)])) ELSE kept

PushedLines(lines) == IF lines = << >> THEN statements ELSE Append(statements, lines)

SkipLine ==
  /\ Reading /\ Skipped
  /\ idx' = idx + 1
  /\ UNCHANGED <<call, text, scriptVars, splitVars, parameters, sql, outcome>>

KeepLine ==
  /\ Reading /\ ~Skipped
  /\ IF Compound THEN line # ENDS ELSE line \notin DOMAIN Ended
  /\ buffer' = Append(buffer, line) /\ in_compound_statement' = Compound
  /\ idx' = idx + 1
  /\ UNCHANGED <<call, text, splitVars, parameters, sql, outcome>>

EndStatement ==
  /\ Reading /\ ~Skipped /\ ~Compound /\ line \in DOMAIN Ended
  /\ statements' = PushedLines(Unended(Append(buffer, line)))
  /\ buffer' = << >>
  /\ idx' = idx + 1
  /\ UNCHANGED <<call, text, in_compound_statement, start, in_single_quote, in_double_quote, parameters, sql, outcome>>

\* Mutant: the next statement is taken for a body too.
StayCompound ==
  /\ Reading /\ Compound /\ line = ENDS
  /\ statements' = PushedLines(trim(buffer))
  /\ buffer' = << >>
  /\ idx' = idx + 1
  /\ UNCHANGED <<call, text, in_compound_statement, start, in_single_quote, in_double_quote, parameters, sql, outcome>>

EndCompound ==
  /\ Reading /\ Compound /\ line = ENDS
  /\ statements' = PushedLines(trim(buffer))
  /\ buffer' = << >> /\ in_compound_statement' = FALSE
  /\ idx' = idx + 1
  /\ UNCHANGED <<call, text, start, in_single_quote, in_double_quote, parameters, sql, outcome>>

ReturnScript ==
  /\ call = "script" /\ outcome = "running" /\ idx = Len(Lines)
  /\ statements' = PushedLines(Unended(buffer))
  /\ outcome' = "returned"
  /\ UNCHANGED <<call, text, idx, scriptVars, start, in_single_quote, in_double_quote, parameters, sql>>

Init ==
  /\ InitSplit \/ InitRender \/ InitScript
  /\ buffer = << >> /\ in_compound_statement = FALSE
  /\ start = 0 /\ in_single_quote = FALSE /\ in_double_quote = FALSE /\ statements = << >>
  /\ outcome = "running"

Next ==
  \/ SingleQuote \/ DoubleQuote \/ Semicolon \/ Other \/ ReturnStatements
  \/ Replace \/ ReturnSql
  \/ SkipLine \/ KeepLine \/ EndStatement \/ EndCompound \/ ReturnScript

Spec == Init /\ [][Next]_vars /\ WF_vars(Next)

(***************************************************************************)
(* Properties.                                                             *)
(***************************************************************************)

Limit == CASE call = "split"  -> Len(text)
           [] call = "render" -> Len(parameters)
           [] call = "script" -> Len(Lines)

\* No loop runs past its end, and a statement that was found is neither empty nor
\* surrounded by white space.
TypeOK ==
  /\ call \in {"split", "render", "script"} /\ outcome \in {"running", "returned", "error"}
  /\ idx \in 0 .. Limit /\ start \in 0 .. Len(text)
  /\ in_single_quote \in BOOLEAN /\ in_double_quote \in BOOLEAN /\ in_compound_statement \in BOOLEAN
  /\ \A i \in DOMAIN statements : statements[i] # << >> /\ trim(statements[i]) = statements[i]

\* A quote or a semicolon in a comment, which split_simple_query takes for one
\* outside it.
Misleading(s) ==
  \E i \in DOMAIN s : s[i] \in {"'", "\"", ";"} /\ Mode(SubSeq(s, 1, i - 1)) = "comment"

\* At every turn the two flags of split_simple_query say what the quotes of SQL
\* say of the text read so far, although the flags skip doubled quotes and the
\* lexer does not; a comment makes no difference unless it misleads them.
FlagsAreTheMode ==
  call = "split" =>
    LET read == SubSeq(text, 1, idx)
    IN \/ Mode(read) \in CASE in_single_quote -> {"string"}
                             [] in_double_quote -> {"name"}
                             [] OTHER           -> {"plain", "dash", "comment"}
       \/ Misleading(read)

\* Where a piece of a text ends: at a semicolon outside quotes, or behind its end.
Ends(s) == Plain(s, ";") \cup {Len(s) + 1}

\* The piece that begins at position k, trimmed; nothing if none begins there or
\* the piece is empty.
PieceFrom(s, k) ==
  LET piece == trim(SubSeq(s, k, Min({e \in Ends(s) : e >= k}) - 1))
  IN IF (k = 1 \/ k - 1 \in Ends(s)) /\ piece # << >> THEN << piece >> ELSE << >>

\* The pieces of a text between its semicolons outside quotes, trimmed, the
\* empty ones left out.
PiecesOf(s) == FlattenSeq([k \in 1 .. (Len(s) + 1) |-> PieceFrom(s, k)])

\* What split_simple_query returns is the text cut at the semicolons outside
\* quotes: no statement is lost, cut in two or joined with its neighbour, so a
\* batch runs the statements the client wrote and a Parse message is refused
\* exactly when it holds more than one.  A comment that misleads it is the only
\* exception.
StatementsAreThePieces ==
  call = "split" /\ outcome = "returned" =>
    \/ /\ statements = PiecesOf(text)
       /\ parse_sql_refuses <=> Len(PiecesOf(text)) > 1
    \/ Misleading(text)

Rendered == call = "render" /\ outcome = "returned"

\* A $ with a number, at position i of s.
IsPlaceholder(s, i) == s[i] = "$" /\ NumberAt(s, i) > 0

ValueAt(i) == render_portal_parameter(parameters[NumberAt(text, i)])

\* The statement with every placeholder replaced at once by the literal of its
\* parameter: what stands at a position that is no digit behind another one, with
\* the digits behind it, goes or stays as a whole.
BoundText ==
  FlattenSeq([i \in DOMAIN text |->
                CASE i > 1 /\ IsDigit(text[i])   -> << >>
                  [] IsPlaceholder(text, i)      -> ValueAt(i)
                  [] OTHER                       -> SubSeq(text, i, DigitsEnd(text, i))])

\* A value that is used has the placeholder of a lower parameter in it, which is
\* then replaced in turn.
Resubstituted ==
  \E i \in DOMAIN parameters : \E k \in 1 .. (i - 1) :
    /\ Occurrences(text, Placeholder(i)) # {}
    /\ Occurrences(render_portal_parameter(parameters[i]), Placeholder(k)) # {}

\* A $, or a placeholder, directly before a placeholder whose value begins with
\* a digit: the two may make another placeholder.
Joined ==
  \E i, j \in DOMAIN text :
    /\ text[i] = "$" /\ j = DigitsEnd(text, i) + 1
    /\ IsPlaceholder(text, j) /\ IsDigit(ValueAt(j)[1])

\* Replacing the placeholders one after the other, as render_portal_sql does,
\* gives what replacing them all at once would: $1 does not eat the beginning
\* of $10.  Only a value with a lower placeholder in it is not kept as it is, and
\* a number that a $ stands directly before.
AllAtOnce == Rendered => sql = BoundText \/ Resubstituted \/ Joined

\* A placeholder in quotes or in a comment, which is none to PostgreSQL.
Enquoted(s) ==
  \E i \in DOMAIN s : IsPlaceholder(s, i) /\ Mode(SubSeq(s, 1, i - 1)) \notin {"plain", "dash"}

\* A minus sign directly before a placeholder whose value is negative: the two
\* begin a comment.
Negated ==
  \E i \in DOMAIN text :
    /\ IsPlaceholder(text, i) /\ ValueAt(i)[1] = "-" /\ Mode(SubSeq(text, 1, i - 1)) = "dash"

\* A value stays inside the literal sql_string_literal makes of it: in the text
\* sent to Exasol quotes and comments are open at the end only if they were in
\* the statement, and no semicolon is outside them if none was.  The exceptions
\* are a statement with a placeholder in quotes, a value that was substituted
\* into or joined with what stands before it, and a sign behind a sign.
ValuesStayLiterals ==
  Rendered =>
    \/ /\ Mode(sql) = Mode(text)
       /\ Plain(text, ";") = {} => Plain(sql, ";") = {}
    \/ Enquoted(text) \/ Resubstituted \/ Joined \/ Negated

\* A value that is what its format and its type say it is.
WellFormed(p) ==
  \/ p.null
  \/ ~p.binary /\ p.utf8
  \/ p.binary /\ p.type \in DOMAIN Size /\ Len(p.bytes) = Size[p.type]
  \/ p.binary /\ p.type \in TextTypes /\ p.utf8

\* A binary value of a type the gateway cannot read, which it takes for text if
\* the bytes happen to be UTF-8 (DocumentsKept of MCDocuments has the document
\* that says it is rejected).
TakenForText(p) == p.binary /\ p.type \notin DOMAIN Size \cup TextTypes /\ p.utf8

\* A portal with a malformed parameter is never rendered, wherever the parameter
\* stands and whether the statement uses it or not; but for binary values of
\* other types, which are refused only if they are no text.
MalformedIsRefused ==
  Rendered => \A i \in DOMAIN parameters : WellFormed(parameters[i]) \/ TakenForText(parameters[i])

\* The lines of an item that lead split_exasol_sql astray: a comment that ends
\* with a semicolon inside a statement, a body whose CREATE and SCRIPT are on
\* two lines, a table with SCRIPT as a word in it.
Astray(item) ==
  \/ /\ item.lines[1] \notin Comments \cup {BLANK, OPENS} /\ ~StartsCompound(item.lines[1])
     /\ \E i \in 2 .. Len(item.lines) : item.lines[i] \in Comments \cap DOMAIN Ended
  \/ item.lines[1] \in {"CREATE", "CREATE TABLE script ("}

\* Lines between statements.
Between(item) == ToSet(item.lines) \subseteq Comments \cup {BLANK, OPENS} /\ item.statements = << >>

\* A statement behind the marker, if there is one; whether it has a body; and the
\* line that ends it, which no line before it does.
Opening(lines) == IF lines[1] = OPENS THEN 1 ELSE 0
HasBody(lines) == StartsCompound(lines[Opening(lines) + 1])
EndsIt(lines, l) == IF HasBody(lines) THEN l = ENDS ELSE l \in DOMAIN Ended

IsStatement(lines) ==
  LET first == Opening(lines) + 1
  IN /\ first <= Len(lines) /\ lines[first] \notin Comments \cup {BLANK}
     /\ \A i \in first .. Len(lines) :
          /\ lines[i] \notin {OPENS, NL}
          /\ StartsCompound(lines[i]) => HasBody(lines)
          /\ i < Len(lines) => ~EndsIt(lines, lines[i])

\* What the lines of a statement say: a body up to the line that ends it, a
\* statement with its semicolon on its last line or on one of its own, or
\* nothing but a semicolon.
Says(lines, means) ==
  LET written == SubSeq(lines, Opening(lines) + 1, Len(lines))
      last    == lines[Len(lines)]
  IN /\ EndsIt(lines, last)
     /\ \/ HasBody(lines) /\ means = << trim(Front(written)) >>
        \/ written = << ";" >> /\ means = << >>
        \/ /\ ~HasBody(lines) /\ means = << means[1] >> /\ means[1] # << >> /\ trim(means[1]) = means[1]
           /\ \/ written = Append(means[1], ";")
              \/ written = Append(Front(means[1]), last) /\ Last(means[1]) = Ended[last]

\* The last statement of a script need not end.
Unfinished(item) ==
  /\ IsStatement(item.lines) /\ ~HasBody(item.lines) /\ ~EndsIt(item.lines, Last(item.lines))
  /\ item.statements = << trim(SubSeq(item.lines, Opening(item.lines) + 1, Len(item.lines))) >>

ASSUME ScriptsAssumption ==
  \A s \in Scripts : \A i \in DOMAIN s :
    /\ s[i].lines # << >>
    /\ \/ Astray(s[i]) \/ Between(s[i])
       \/ IsStatement(s[i].lines) /\ Says(s[i].lines, s[i].statements)
       \/ i = Len(s) /\ Unfinished(s[i])

\* What split_exasol_sql has found are the statements of the script, in order and
\* whole: bodies are not cut at their semicolons, the statement behind a body
\* is not taken for part of it, and comments and markers between statements are
\* no statements.  The statements before lines that lead it astray are right.
ScriptsAreTheirStatements ==
  call = "script" /\ outcome = "returned" =>
    LET astray   == SelectInSeq(text, Astray)
        meant(n) == FlattenSeq([i \in 1 .. n |-> text[i].statements])
    IN IF astray = 0 THEN statements = meant(Len(text)) ELSE IsPrefix(meant(astray - 1), statements)

\* Every call ends, in a result or an error.
Returns == <>(outcome # "running")
=============================================================================
