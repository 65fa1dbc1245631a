---------------------------- MODULE LinkerScript ----------------------------
(***************************************************************************)
(* lib/ReaderWriter/LinkerScript.cpp: script::Lexer and script::Parser     *)
(* (text to tokens, tokens to expressions and commands, expressions to     *)
(* values, and trees back to text: dump, also in LinkerScript.h), and      *)
(* script::Sema, which answers what the scripts say of the output.         *)
(*                                                                         *)
(* A text is a sequence of pieces: a digit, a sign, a blank, or a word     *)
(* (letters, dots, underscores, slashes) that the lexer never splits. A    *)
(* name is therefore a sequence of pieces too, e.g. <<".text", "*">>. A    *)
(* comment is a blank.                                                     *)
(*                                                                         *)
(* An expression that is absent, and a parse that fails, is Null.          *)
(***************************************************************************)
EXTENDS Integers, Sequences, SequencesExt, FiniteSetsExt

Blank == " "
Digits == <<"0", "1", "2", "3", "4", "5", "6", "7", "8", "9",
            "a", "b", "c", "d", "e", "f">>
Upper == <<"A", "B", "C", "D", "E", "F">>
DigitValue(c) ==
    IF c \in Range(Upper) THEN 9 + (CHOOSE i \in DOMAIN Upper : Upper[i] = c)
    ELSE (CHOOSE i \in DOMAIN Digits : Digits[i] = c) - 1
IsDigit(c, base) == \/ \E i \in 1..base : Digits[i] = c
                    \/ base = 16 /\ c \in Range(Upper)

Signs == {"(", ")", "{", "}", "=", "!", ",", ";", ":", "&", "|", "+", "-", "<", ">",
          "~", "?", "[", "]", "'", "#", Blank}
CanStartNumber(c) == IsDigit(c, 10)
CanContinueNumber(c) == IsDigit(c, 16) \/ c \in {"x", "X", "h", "H", "o", "O", "M", "K"}
CanStartName(c) == c \notin Signs /\ ~IsDigit(c, 10)
CanContinueName(c) ==
    CanStartName(c) \/ IsDigit(c, 10) \/ c \in {"~", "=", "+", "[", "]", "?", "-", ":"}

(* The number of leading pieces that satisfy P. *)
Run(text, P(_)) == CHOOSE n \in 0..Len(text) :
    /\ \A i \in 1..n : P(text[i])
    /\ n = Len(text) \/ ~P(text[n + 1])
Drop(s, n) == SubSeq(s, n + 1, Len(s))
Take(s, n) == SubSeq(s, 1, n)

-----------------------------------------------------------------------------
(* Tokens *)

Token(kind, range) == [kind |-> kind, range |-> range]
Eof == Token("eof", <<>>)

(* Operators, the longer spelling of a prefix first. *)
Operators == <<
    <<<<"<", "<", "=">>, "lesslessequal">>, <<<<">", ">", "=">>, "greatergreaterequal">>,
    <<<<"<", "<">>, "lessless">>, <<<<">", ">">>, "greatergreater">>,
    <<<<"<", "=">>, "lessequal">>, <<<<">", "=">>, "greaterequal">>,
    <<<<"=", "=">>, "equalequal">>, <<<<"!", "=">>, "exclaimequal">>,
    <<<<"&", "=">>, "ampequal">>, <<<<"|", "=">>, "pipeequal">>,
    <<<<"+", "=">>, "plusequal">>, <<<<"-", "=">>, "minusequal">>,
    <<<<"/", "=">>, "slashequal">>, <<<<"*", "=">>, "starequal">>,
    <<<<"(">>, "l_paren">>, <<<<")">>, "r_paren">>, <<<<"{">>, "l_brace">>,
    <<<<"}">>, "r_brace">>, <<<<"=">>, "equal">>, <<<<"!">>, "exclaim">>,
    <<<<",">>, "comma">>, <<<<";">>, "semicolon">>, <<<<":">>, "colon">>,
    <<<<"&">>, "amp">>, <<<<"|">>, "pipe">>, <<<<"+">>, "plus">>, <<<<"-">>, "minus">>,
    <<<<"<">>, "less">>, <<<<">">>, "greater">>, <<<<"~">>, "tilde">>,
    <<<<"/">>, "slash">>, <<<<"*">>, "star">>, <<<<"?">>, "question">> >>

(* '/', '*' and '?' are operators only where no name goes on. *)
IsOperator(o, text) ==
    /\ IsPrefix(o[1], text)
    /\ o[2] \in {"slash", "star", "question"} =>
          Len(text) > 1 /\ ~CanContinueName(text[2])

Keywords == [
    ALIGN |-> "kw_align", ALIGN_WITH_INPUT |-> "kw_align_with_input",
    AS_NEEDED |-> "kw_as_needed", AT |-> "kw_at", ENTRY |-> "kw_entry",
    EXCLUDE_FILE |-> "kw_exclude_file", EXTERN |-> "kw_extern", GROUP |-> "kw_group",
    HIDDEN |-> "kw_hidden", INPUT |-> "kw_input", KEEP |-> "kw_keep",
    LENGTH |-> "kw_length", l |-> "kw_length", len |-> "kw_length",
    MEMORY |-> "kw_memory", ONLY_IF_RO |-> "kw_only_if_ro",
    ONLY_IF_RW |-> "kw_only_if_rw", ORIGIN |-> "kw_origin", o |-> "kw_origin",
    org |-> "kw_origin", OUTPUT |-> "kw_output", OUTPUT_ARCH |-> "kw_output_arch",
    OUTPUT_FORMAT |-> "kw_output_format", OVERLAY |-> "kw_overlay",
    PROVIDE |-> "kw_provide", PROVIDE_HIDDEN |-> "kw_provide_hidden",
    SEARCH_DIR |-> "kw_search_dir", SECTIONS |-> "kw_sections",
    SORT |-> "kw_sort_by_name", SORT_BY_ALIGNMENT |-> "kw_sort_by_alignment",
    SORT_BY_INIT_PRIORITY |-> "kw_sort_by_init_priority",
    SORT_BY_NAME |-> "kw_sort_by_name", SORT_NONE |-> "kw_sort_none",
    SUBALIGN |-> "kw_subalign"]
KeywordKind(word) ==
    IF word = <<"/DISCARD/">> THEN "kw_discard"
    ELSE IF Len(word) = 1 /\ word[1] \in DOMAIN Keywords THEN Keywords[word[1]]
    ELSE "identifier"

(* Lexer::lex on a text that starts with no blank: the token and how many   *)
(* pieces it takes. A number or a name that the buffer ends with is not     *)
(* recognized: the loop that looks for its end runs into the end of the     *)
(* buffer.                                                                  *)
LexNumber(text) ==
    LET n == Run(text, CanContinueNumber)
    IN  IF n = Len(text) THEN <<Token("unknown", Take(text, 1)), 1>>
        ELSE <<Token("number", Take(text, n)), n>>
LexName(text) ==
    LET n == 1 + Run(Tail(text), CanContinueName)
    IN  IF n = Len(text) THEN <<Token("unknown", Take(text, 1)), 1>>
        ELSE <<Token(KeywordKind(Take(text, n)), Take(text, n)), n>>
LexLibrary(text) ==
    LET colon == Len(text) > 2 /\ text[3] = ":"
        start == IF colon THEN 4 ELSE 3
    IN  IF Len(text) < start \/ ~CanStartName(text[start])
        THEN <<Token("unknown", <<"#">>), start>>
        ELSE LET n == Run(Drop(text, start), CanContinueName)
             IN  <<Token("libname", SubSeq(text, 3, start + n)), start + n>>
LexQuoted(text) ==
    LET n == Run(Tail(text), LAMBDA c : c # "'")
    IN  IF n = Len(text) - 1 \/ n = 0 THEN <<Token("unknown", <<"#">>), 2>>
        ELSE <<Token("identifier", SubSeq(text, 2, n + 1)), n + 2>>
LexOne(text) ==
    LET op == {i \in DOMAIN Operators : IsOperator(Operators[i], text)}
        o == Operators[CHOOSE i \in op : \A j \in op : i <= j]
    IN  IF IsPrefix(<<"-", "l">>, text) THEN LexLibrary(text)
        ELSE IF text[1] = "'" THEN LexQuoted(text)
        ELSE IF op # {} THEN <<Token(o[2], o[1]), Len(o[1])>>
        ELSE IF CanStartNumber(text[1]) THEN LexNumber(text)
        ELSE IF CanStartName(text[1]) THEN LexName(text)
        ELSE <<Token("unknown", Take(text, 1)), 1>>

SkipWhitespace(text) == Drop(text, Run(text, LAMBDA c : c = Blank))
(* The end of the buffer is read again and again. *)
RECURSIVE Lex(_)
Lex(text) ==
    LET t == SkipWhitespace(text)
        one == LexOne(t)
    IN  IF t = <<>> THEN <<Eof, Eof, Eof, Eof, Eof, Eof>> ELSE <<one[1]>> \o Lex(Drop(t, one[2]))

-----------------------------------------------------------------------------
(* Numerals *)

NoNumber == -1
Fold(digits, base) ==
    IF \A i \in DOMAIN digits : IsDigit(digits[i], base)
    THEN FoldLeft(LAMBDA v, c : v * base + DigitValue(c), 0, digits)
    ELSE NoNumber
EndsWith(str, cs) == str # <<>> /\ Last(str) \in cs
Scale(str) == IF EndsWith(str, {"K"}) THEN 1024
              ELSE IF EndsWith(str, {"M"}) THEN 1024 * 1024 ELSE 1
TypeSuffixes == <<[cs |-> {"o", "O"}, base |-> 8], [cs |-> {"h", "H"}, base |-> 16],
              [cs |-> {"d", "D"}, base |-> 10], [cs |-> {"b", "B"}, base |-> 2]>>
HasHexPrefix(str) == IsPrefix(<<"0", "x">>, str) \/ IsPrefix(<<"0", "X">>, str)

(* parseNum: a suffix overrules the prefix, so a hexadecimal numeral that   *)
(* ends with the digit b or d is read as binary or decimal.                 *)
ParseNum(str) ==
    LET body == IF EndsWith(str, {"K", "M"}) THEN Front(str) ELSE str
        suffix == SelectSeq(TypeSuffixes, LAMBDA s : EndsWith(body, s.cs))
        base == IF suffix # <<>> THEN suffix[1].base
                ELSE IF HasHexPrefix(str) THEN 16 ELSE IF str[1] = "0" THEN 8 ELSE 10
        digits == IF suffix # <<>> THEN Front(body) ELSE body
        value == Fold(IF base = 16 /\ HasHexPrefix(digits) THEN Drop(digits, 2) ELSE digits,
                      base)
    IN  IF value = NoNumber THEN NoNumber ELSE value * Scale(str)

(* parseHexToByteStream: an odd first digit is a byte of its own. *)
ParseHexToByteStream(str) ==
    LET padded == IF Len(str) % 2 = 0 THEN str ELSE <<"0">> \o str
    IN  IF \E i \in DOMAIN str : ~IsDigit(str[i], 16) THEN <<NoNumber>>
        ELSE [k \in 1..(Len(padded) \div 2) |->
                 16 * DigitValue(padded[2 * k - 1]) + DigitValue(padded[2 * k])]

-----------------------------------------------------------------------------
(* Trees *)

Null == [kind |-> "null"]
Constant(num) == [kind |-> "Constant", num |-> num]
Symbol(name) == [kind |-> "Symbol", name |-> name]
FunctionCall(name, args) == [kind |-> "FunctionCall", name |-> name, args |-> args]
Unary(op, child) == [kind |-> "Unary", op |-> op, child |-> child]
BinOp(lhs, op, rhs) == [kind |-> "BinOp", op |-> op, lhs |-> lhs, rhs |-> rhs]
TernaryConditional(cond, t, f) ==
    [kind |-> "TernaryConditional", cond |-> cond, t |-> t, f |-> f]

(* TokenToBinOp *)
Binary == [
    star |-> [op |-> "Mul", precedence |-> 3], slash |-> [op |-> "Div", precedence |-> 3],
    plus |-> [op |-> "Sum", precedence |-> 4], minus |-> [op |-> "Sub", precedence |-> 4],
    lessless |-> [op |-> "Shl", precedence |-> 5],
    greatergreater |-> [op |-> "Shr", precedence |-> 5],
    less |-> [op |-> "CompareLess", precedence |-> 6],
    greater |-> [op |-> "CompareGreater", precedence |-> 6],
    lessequal |-> [op |-> "CompareLessEqual", precedence |-> 6],
    greaterequal |-> [op |-> "CompareGreaterEqual", precedence |-> 6],
    equalequal |-> [op |-> "CompareEqual", precedence |-> 7],
    exclaimequal |-> [op |-> "CompareDifferent", precedence |-> 7],
    amp |-> [op |-> "And", precedence |-> 8], pipe |-> [op |-> "Or", precedence |-> 10]]
IsExpressionOperator(tok) == tok.kind \in DOMAIN Binary \cup {"question"}

(* A parser takes the tokens that are left, the first is _tok, and gives a  *)
(* node and the tokens after it; a failed one gives Null.                   *)
Parsed(node, rest) == [node |-> node, rest |-> rest]
Failed == Parsed(Null, <<Eof>>)
Is(ts, kind) == ts[1].kind = kind
Peek(ts) == IF Len(ts) > 1 THEN ts[2].kind ELSE "eof"
With(p, Parse(_, _)) == IF p.node = Null THEN Failed ELSE Parse(p.node, p.rest)
Made(p, Make(_)) == With(p, LAMBDA node, rest : Parsed(Make(node), rest))
Then(p, kind) ==                        \* p, and the token kind after it
    With(p, LAMBDA node, rest : IF Is(rest, kind) THEN Parsed(node, Tail(rest)) ELSE Failed)
StartsOperand == {"identifier", "number", "kw_align", "l_paren", "minus", "tilde"}

RECURSIVE ParseExpression(_, _)
RECURSIVE ParseExprOperand(_)
RECURSIVE ParseOperatorOperandLoop(_, _, _, _)
RECURSIVE ParseParams(_, _)

(* The parameters after an opening parenthesis, up to the closing one. *)
ParseParams(ts, params) ==
    With(ParseExpression(ts, 13), LAMBDA p, rest :
        CASE Is(rest, "comma") -> ParseParams(Tail(rest), Append(params, p))
          [] Is(rest, "r_paren") -> Parsed([kind |-> "params", of |-> Append(params, p)], Tail(rest))
          [] OTHER -> Failed)

(* A call without parameters is named after the token behind it. *)
ParseFunctionCall(ts) ==
    IF Peek(ts) # "l_paren" THEN Failed
    ELSE IF ts[3].kind = "r_paren"
         THEN Parsed(FunctionCall(ts[4].range, <<>>), Drop(ts, 3))
    ELSE Made(ParseParams(Drop(ts, 2), <<>>), LAMBDA params : FunctionCall(ts[1].range, params.of))

ParseUnary(ts, op) ==
    LET p == ParseExprOperand(Tail(ts)) IN Parsed(Unary(op, p.node), p.rest)

ParseExprOperand(ts) ==
    IF ts[1].kind \notin StartsOperand THEN Failed
    ELSE IF Is(ts, "kw_align") \/ (Is(ts, "identifier") /\ Peek(ts) = "l_paren")
         THEN ParseFunctionCall(ts)
    ELSE IF Is(ts, "identifier") THEN Parsed(Symbol(ts[1].range), Tail(ts))
    ELSE IF Is(ts, "minus") THEN ParseUnary(ts, "Minus")
    ELSE IF Is(ts, "tilde") THEN ParseUnary(ts, "Not")
    ELSE IF Is(ts, "l_paren") THEN Then(ParseExpression(Tail(ts), 13), "r_paren")
    ELSE LET n == ParseNum(ts[1].range)
         IN  IF n = NoNumber THEN Failed ELSE Parsed(Constant(n), Tail(ts))

(* The three parts of a conditional, the other two may be conditionals. *)
ParseTernaryOnce(ts, lhs) ==
    With(Then(ParseExpression(Tail(ts), 13), "colon"), LAMBDA t, rest :
        Made(ParseExpression(rest, 12), LAMBDA f : TernaryConditional(lhs, t, f)))
ParseTernaryCondOp(ts, lhs) ==
    With(Then(ParseExpression(Tail(ts), 13), "colon"), LAMBDA t, rest :
        Made(ParseExpression(rest, 13), LAMBDA f : TernaryConditional(lhs, t, f)))

(* Operators of a lower or equal precedence number than highest. *)
ParseOperatorOperandLoop(ts, lhs, binOp, highest) ==
    IF ts[1].kind \notin DOMAIN Binary
    THEN IF Is(ts, "question") /\ highest >= 13 THEN ParseTernaryCondOp(ts, lhs)
         ELSE Parsed(binOp, ts)
    ELSE LET b == Binary[ts[1].kind]
         IN  IF b.precedence > highest THEN Parsed(binOp, ts)
             ELSE With(ParseExpression(Tail(ts), b.precedence - 1), LAMBDA rhs, rest :
                      LET node == BinOp(lhs, b.op, rhs)
                      IN  ParseOperatorOperandLoop(rest, node, node, highest))

ParseExpression(ts, precedence) ==
    With(ParseExprOperand(ts), LAMBDA e, rest :
        LET next == rest[1].kind
        IN  IF \/ next \in DOMAIN Binary /\ precedence >= Binary[next].precedence
               \/ next = "question" /\ precedence >= 13
            THEN ParseOperatorOperandLoop(rest, e, Null, precedence)
            ELSE Parsed(e, rest))

-----------------------------------------------------------------------------
(* Values. int64_t has Width bits here; shifts by a negative count and      *)
(* division by zero are errors here and undefined there.                    *)

Width == 20
Bit(a, i) == (a \div (2 ^ i)) % 2 = 1
FromBits(S) ==
    LET v == MapThenSumSet(LAMBDA i : 2 ^ i, S)
    IN  IF v >= 2 ^ (Width - 1) THEN v - (2 ^ Width) ELSE v
BitByBit(a, b, Op(_, _)) ==
    FromBits({i \in 0..(Width - 1) : Op(Bit(a % (2 ^ Width), i), Bit(b % (2 ^ Width), i))})
Quotient(a, b) ==
    LET q == (IF a < 0 THEN -a ELSE a) \div (IF b < 0 THEN -b ELSE b)
    IN  IF (a < 0) = (b < 0) THEN q ELSE -q
Truth(b) == IF b THEN 1 ELSE 0

NoValue == [ok |-> FALSE, v |-> 0]
Value(v) == [ok |-> TRUE, v |-> v]
Calculate(op, a, b) ==
    CASE op = "And" -> Value(BitByBit(a, b, LAMBDA x, y : x /\ y))
      [] op = "Or" -> Value(BitByBit(a, b, LAMBDA x, y : x \/ y))
      [] op = "CompareDifferent" -> Value(Truth(a # b))
      [] op = "CompareEqual" -> Value(Truth(a = b))
      [] op = "CompareGreater" -> Value(Truth(a > b))
      [] op = "CompareGreaterEqual" -> Value(Truth(a >= b))
      [] op = "CompareLess" -> Value(Truth(a < b))
      [] op = "CompareLessEqual" -> Value(Truth(a <= b))
      [] op = "Div" -> IF b = 0 THEN NoValue ELSE Value(Quotient(a, b))
      [] op = "Mul" -> Value(a * b)
      [] op = "Shl" -> IF b < 0 THEN NoValue ELSE Value(a * (2 ^ b))
      [] op = "Shr" -> IF b < 0 THEN NoValue ELSE Value(a \div (2 ^ b))
      [] op = "Sub" -> Value(a - b)
      [] op = "Sum" -> Value(a + b)

(* evalExpr: symbols is a function from names to integers. No function is   *)
(* ever recognized.                                                         *)
RECURSIVE EvalExpr(_, _)
EvalExpr(e, symbols) ==
    CASE e.kind = "Constant" -> Value(e.num)
      [] e.kind = "Symbol" ->
            IF e.name \in DOMAIN symbols THEN Value(symbols[e.name]) ELSE NoValue
      [] e.kind = "FunctionCall" -> NoValue
      [] e.kind = "Unary" ->
            LET c == EvalExpr(e.child, symbols)
            IN  IF ~c.ok THEN c
                ELSE Value(IF e.op = "Minus" THEN -c.v ELSE -c.v - 1)
      [] e.kind = "BinOp" ->
            LET a == EvalExpr(e.lhs, symbols)
                b == EvalExpr(e.rhs, symbols)
            IN  IF a.ok /\ b.ok THEN Calculate(e.op, a.v, b.v) ELSE NoValue
      [] e.kind = "TernaryConditional" ->
            LET c == EvalExpr(e.cond, symbols)
            IN  IF ~c.ok THEN c
                ELSE EvalExpr(IF c.v # 0 THEN e.t ELSE e.f, symbols)

-----------------------------------------------------------------------------
(* dump: the text of a tree. *)

RECURSIVE DumpNum(_)
DumpNum(n) == IF n < 10 THEN <<Digits[n + 1]>>
              ELSE DumpNum(n \div 10) \o <<Digits[(n % 10) + 1]>>
Spelling == [
    Sum |-> <<"+">>, Sub |-> <<"-">>, Mul |-> <<"*">>, Div |-> <<"/">>,
    Shl |-> <<"<", "<">>, Shr |-> <<">", ">">>, And |-> <<"&">>, Or |-> <<"|">>,
    CompareEqual |-> <<"=", "=">>, CompareDifferent |-> <<"!", "=">>,
    CompareLess |-> <<"<">>, CompareGreater |-> <<">">>,
    CompareLessEqual |-> <<"<", "=">>, CompareGreaterEqual |-> <<">", "=">>]
Blanked(text) == <<Blank>> \o text \o <<Blank>>
Paren(text) == <<"(">> \o text \o <<")">>
(* The texts of a list, with sep between two of them. *)
Joined(texts, sep) ==
    FoldLeftDomain(LAMBDA t, i : (IF i = 1 THEN t ELSE t \o sep) \o texts[i], <<>>, texts)

RECURSIVE DumpExpr(_)
DumpExpr(e) ==
    CASE e.kind = "Constant" -> DumpNum(e.num)
      [] e.kind = "Symbol" -> e.name
      [] e.kind = "FunctionCall" ->
            e.name \o Paren(Joined([i \in DOMAIN e.args |-> DumpExpr(e.args[i])],
                                   <<",", Blank>>))
      [] e.kind = "Unary" ->
            Paren((IF e.op = "Minus" THEN <<"-">> ELSE <<"~">>) \o DumpExpr(e.child))
      [] e.kind = "BinOp" ->
            Paren(DumpExpr(e.lhs) \o Blanked(Spelling[e.op]) \o DumpExpr(e.rhs))
      [] e.kind = "TernaryConditional" ->
            DumpExpr(e.cond) \o Blanked(<<"?">>) \o DumpExpr(e.t)
                \o Blanked(<<":">>) \o DumpExpr(e.f)

-----------------------------------------------------------------------------
(* The commands of a script.                                               *)

Output(file) == [kind |-> "Output", name |-> file]
OutputFormat(formats) == [kind |-> "OutputFormat", names |-> formats]
OutputArch(arch) == [kind |-> "OutputArch", name |-> arch]
Path(path, asNeeded, isLib) == [path |-> path, asNeeded |-> asNeeded, dashL |-> isLib]
PathList(kind, paths) == [kind |-> kind, paths |-> paths]        \* Input or Group
Entry(name) == [kind |-> "Entry", name |-> name]
SearchDir(path) == [kind |-> "SearchDir", name |-> path]
Extern(symbols) == [kind |-> "Extern", names |-> symbols]
(* The constructor drops the kind of the assignment: all are Simple. *)
SymbolAssignment(symbol, expr, kind, visibility) ==
    [kind |-> "SymbolAssignment", symbol |-> symbol, expr |-> expr, op |-> "Simple",
     visibility |-> visibility]
InputSectionName(name, exclude) ==
    [kind |-> "InputSectionName", name |-> name, excludeFile |-> exclude]
SortedGroup(mode, sections) ==
    [kind |-> "SortedGroup", sortMode |-> mode, sections |-> sections]
InputSectionsCmd(member, archive, keep, fileMode, archiveMode, sections) ==
    [kind |-> "InputSectionsCmd", memberName |-> member, archiveName |-> archive,
     keep |-> keep, fileSortMode |-> fileMode, archiveSortMode |-> archiveMode,
     sections |-> sections]
NoDescription == [address |-> Null, at |-> Null, align |-> Null, alignWithInput |-> FALSE,
                  subAlign |-> Null, constraint |-> "None"]
OutputSectionDescription(name, discard, d, fill, cmds) ==
    [kind |-> "OutputSectionDescription", name |-> name, discard |-> discard, d |-> d,
     fillExpr |-> fill.expr, fillStream |-> fill.stream, cmds |-> cmds]
NoFill == [expr |-> Null, stream |-> <<>>]
Sections(cmds) == [kind |-> "Sections", cmds |-> cmds]
MemoryBlock(name, attr, origin, length) ==
    [name |-> name, attr |-> attr, origin |-> origin, length |-> length]
Memory(blocks) == [kind |-> "Memory", blocks |-> blocks]

-----------------------------------------------------------------------------
(* Parsers. Kinds(ts, ks): the tokens start with these kinds. *)

Kinds(ts, ks) == Len(ts) >= Len(ks) /\ \A i \in DOMAIN ks : ts[i].kind = ks[i]
Ranges(ts) == [i \in DOMAIN ts |-> ts[i].range]
Named(ts, Make(_)) ==                              \* KEYWORD(name)
    IF Kinds(Tail(ts), <<"l_paren", "identifier", "r_paren">>)
    THEN Parsed(Make(ts[3].range), Drop(ts, 4)) ELSE Failed

ParseOutput(ts) == Named(ts, Output)
ParseOutputArch(ts) == Named(ts, OutputArch)
ParseEntry(ts) == Named(ts, Entry)
ParseSearchDir(ts) == Named(ts, SearchDir)

(* The first format, then any number of them behind commas. *)
ParseOutputFormat(ts) ==
    LET commas == CHOOSE n \in 0..Len(ts) :
                      /\ \A i \in 1..n : Kinds(Drop(ts, 2 * i + 1), <<"comma", "identifier">>)
                      /\ ~Kinds(Drop(ts, 2 * n + 3), <<"comma", "identifier">>)
        names == [i \in 0..commas |-> ts[2 * i + 3].range]
    IN  IF /\ Kinds(Tail(ts), <<"l_paren", "identifier">>)
           /\ Kinds(Drop(ts, 2 * commas + 3), <<"r_paren">>)
        THEN Parsed(OutputFormat([i \in 1..(commas + 1) |-> names[i - 1]]),
                    Drop(ts, 2 * commas + 4))
        ELSE Failed

IsPath(t) == t.kind \in {"identifier", "libname"}
PathsOf(ts, asNeeded) ==
    [i \in DOMAIN ts |-> Path(ts[i].range, asNeeded, ts[i].kind = "libname")]
ParseAsNeeded(ts) ==
    LET n == IF Peek(ts) = "l_paren" THEN Run(Drop(ts, 2), IsPath) ELSE 0
    IN  IF Kinds(Tail(ts), <<"l_paren">>) /\ Kinds(Drop(ts, n + 2), <<"r_paren">>)
        THEN Parsed([kind |-> "paths", of |-> PathsOf(SubSeq(ts, 3, n + 2), TRUE)],
                    Drop(ts, n + 3))
        ELSE Failed
RECURSIVE ParsePaths(_, _, _)
ParsePaths(ts, kind, paths) ==
    LET n == Run(ts, IsPath)
    IN  IF n > 0 THEN ParsePaths(Drop(ts, n), kind, paths \o PathsOf(Take(ts, n), FALSE))
        ELSE IF Is(ts, "kw_as_needed")
             THEN With(ParseAsNeeded(ts), LAMBDA as, rest : ParsePaths(rest, kind, paths \o as.of))
        ELSE IF Is(ts, "r_paren") THEN Parsed(PathList(kind, paths), Tail(ts))
        ELSE Failed
ParsePathList(ts, kind) ==
    IF Peek(ts) = "l_paren" THEN ParsePaths(Drop(ts, 2), kind, <<>>) ELSE Failed

ParseExtern(ts) ==
    LET n == Run(Drop(ts, 2), LAMBDA t : t.kind = "identifier")
    IN  IF Peek(ts) = "l_paren" /\ n > 0 /\ Kinds(Drop(ts, n + 2), <<"r_paren">>)
        THEN Parsed(Extern(Ranges(SubSeq(ts, 3, n + 2))), Drop(ts, n + 3))
        ELSE Failed

Visibilities == [kw_hidden |-> "Hidden", kw_provide |-> "Provide",
                 kw_provide_hidden |-> "ProvideHidden"]
AssignmentKinds == [equal |-> "Simple", plusequal |-> "Sum", minusequal |-> "Sub",
                    starequal |-> "Mul", slashequal |-> "Div", ampequal |-> "And",
                    pipeequal |-> "Or", lesslessequal |-> "Shl",
                    greatergreaterequal |-> "Shr"]
ParseSymbolAssignment(ts) ==
    LET wrapped == ts[1].kind \in DOMAIN Visibilities
        at == IF wrapped THEN Drop(ts, 2) ELSE ts
        Closed(p) == IF wrapped THEN Then(p, "r_paren") ELSE p
    IN  IF \/ (wrapped /\ Peek(ts) # "l_paren")
           \/ Peek(at) \notin DOMAIN AssignmentKinds
           \/ at[3].kind \notin {"number", "kw_align", "identifier", "l_paren"}
        THEN Failed
        ELSE Made(Closed(ParseExpression(Drop(at, 2), 13)), LAMBDA e :
                 SymbolAssignment(at[1].range, e, AssignmentKinds[Peek(at)],
                                  IF wrapped THEN Visibilities[ts[1].kind] ELSE "Default"))

(* SORT directives, each with its parenthesis: how many of them are taken,  *)
(* the mode they stand for, and whether each has its parenthesis.           *)
SortKinds == [kw_sort_by_name |-> "ByName", kw_sort_by_alignment |-> "ByAlignment",
              kw_sort_by_init_priority |-> "ByInitPriority", kw_sort_none |-> "None"]
ParseSortDirectives(ts) ==
    LET mode(i) == IF ts[i].kind \in DOMAIN SortKinds THEN SortKinds[ts[i].kind] ELSE "NA"
        first == mode(1)
        two == <<first, mode(3)>>
        Taken(n, m) == [n |-> n, mode |-> m,
                        ok |-> \A i \in 1..n : ts[2 * i].kind = "l_paren"]
    IN  CASE two = <<"ByName", "ByInitPriority">> /\ mode(5) = "ByAlignment" ->
                Taken(3, "ByAlignment")
          [] two = <<"ByName", "ByInitPriority">> /\ mode(5) # "ByAlignment" ->
                Taken(2, "ByInitPriority")
          [] two = <<"ByName", "ByAlignment">> -> Taken(2, "ByNameAndAlignment")
          [] two = <<"ByAlignment", "ByName">> -> Taken(2, "ByAlignmentAndName")
          [] two = <<"ByInitPriority", "ByAlignment">> -> Taken(2, "ByAlignment")
          [] two \in {<<"ByName", "ByName">>, <<"ByAlignment", "ByAlignment">>,
                      <<"ByInitPriority", "ByName">>} -> Taken(2, first)
          [] OTHER -> Taken(IF first = "NA" THEN 0 ELSE 1, first)

(* A name behind its SORT directives, with their closing parentheses. *)
ParseSortedName(ts) ==
    LET s == ParseSortDirectives(ts)
        at == Drop(ts, 2 * s.n)
    IN  IF s.ok /\ \A i \in 1..s.n : Kinds(Drop(at, i), <<"r_paren">>)
        THEN Parsed([kind |-> "sorted", name |-> at[1].range, mode |-> s.mode],
                    Drop(at, s.n + 1))
        ELSE Failed

ParseSortedInputSections(ts) ==
    LET s == ParseSortDirectives(ts)
        at == Drop(ts, 2 * s.n)
        n == Run(at, LAMBDA t : t.kind = "identifier")
    IN  IF s.ok /\ \A i \in 1..s.n : Kinds(Drop(at, n + i - 1), <<"r_paren">>)
        THEN Parsed(SortedGroup(s.mode,
                        [i \in 1..n |-> InputSectionName(at[i].range, FALSE)]),
                    Drop(at, n + s.n))
        ELSE Failed

ParseExcludeFile(ts) ==
    LET n == Run(Drop(ts, 2), LAMBDA t : t.kind = "identifier")
    IN  IF Peek(ts) = "l_paren" /\ Kinds(Drop(ts, n + 2), <<"r_paren">>)
        THEN Parsed([kind |-> "names",
                     of |-> [i \in 1..n |-> InputSectionName(ts[i + 2].range, TRUE)]],
                    Drop(ts, n + 3))
        ELSE Failed

(* The list between the parentheses of an InputSectionsCmd. *)
RECURSIVE ParseInputSectionList(_, _)
ParseInputSectionList(ts, secs) ==
    IF Is(ts, "identifier")
    THEN ParseInputSectionList(Tail(ts), Append(secs, InputSectionName(ts[1].range, FALSE)))
    ELSE IF Is(ts, "kw_exclude_file")
         THEN With(ParseExcludeFile(ts), LAMBDA excluded, rest :
                  ParseInputSectionList(rest, secs \o excluded.of))
    ELSE IF ts[1].kind \in DOMAIN SortKinds
         THEN With(ParseSortedInputSections(ts), LAMBDA group, rest :
                  ParseInputSectionList(rest, Append(secs, group)))
    ELSE Parsed([kind |-> "list", of |-> secs], ts)

(* [archive] [(list)] of a command whose member is m: both may be absent.   *)
NoName == [kind |-> "sorted", name |-> <<>>, mode |-> "NA"]
ParseArchive(ts) ==
    IF ~Is(ts, "colon") THEN Parsed(NoName, ts)
    ELSE IF Peek(ts) \in {"identifier"} \cup DOMAIN SortKinds THEN ParseSortedName(Tail(ts))
    ELSE Parsed(NoName, Tail(ts))
ParseRest(m, archive, keep) ==
    LET Cmd(list) == InputSectionsCmd(m.name, archive.node.name, keep, m.mode, archive.node.mode, list.of)
        listed == Made(Then(ParseInputSectionList(Tail(archive.rest), <<>>), "r_paren"), Cmd)
    IN  IF archive.node = Null THEN Failed
        ELSE IF ~Is(archive.rest, "l_paren") THEN Parsed(Cmd([of |-> <<>>]), archive.rest)
        ELSE IF keep THEN Then(listed, "r_paren") ELSE listed
ParseMember(ts) == IF Is(ts, "colon") THEN Parsed(NoName, ts) ELSE ParseSortedName(ts)
BehindMember(member, keep) ==
    IF member.node = Null THEN Failed ELSE ParseRest(member.node, ParseArchive(member.rest), keep)
ParseInputSectionsCmd(ts) ==
    IF ~Is(ts, "kw_keep") THEN BehindMember(ParseMember(ts), FALSE)
    ELSE IF Peek(ts) # "l_paren" THEN Failed ELSE BehindMember(ParseMember(Drop(ts, 2)), TRUE)

StartsSections == {"identifier", "kw_keep", "star", "colon"} \cup DOMAIN SortKinds
IsAssignment(ts) == \/ ts[1].kind \in DOMAIN Visibilities
                    \/ (Is(ts, "identifier") /\ Peek(ts) \in DOMAIN AssignmentKinds)

(* The commands up to the closing brace. *)
RECURSIVE ParseOutputSectionCommands(_, _)
ParseOutputSectionCommands(ts, cmds) ==
    LET p == IF IsAssignment(ts) THEN ParseSymbolAssignment(ts)
             ELSE IF ts[1].kind \in StartsSections THEN ParseInputSectionsCmd(ts)
             ELSE Failed
    IN  IF Is(ts, "r_brace") THEN Parsed([kind |-> "cmds", of |-> cmds], Tail(ts))
        ELSE IF Is(ts, "semicolon") THEN ParseOutputSectionCommands(Tail(ts), cmds)
        ELSE With(p, LAMBDA c, rest : ParseOutputSectionCommands(rest, Append(cmds, c)))

(* Optional parts of a description: KEYWORD expression, and a keyword that  *)
(* stands for a value.                                                      *)
Optional(p, keyword, part) ==
    IF p.node = Null \/ ~Is(p.rest, keyword) THEN p
    ELSE Made(ParseExpression(Tail(p.rest), 13), LAMBDA e : [p.node EXCEPT ![part] = e])
Flag(p, values, part) ==
    IF p.node = Null \/ p.rest[1].kind \notin DOMAIN values THEN p
    ELSE Parsed([p.node EXCEPT ![part] = values[p.rest[1].kind]], Tail(p.rest))

ParseDescription(ts) ==
    LET address == IF ts[2].kind \in {"number", "identifier", "kw_align", "l_paren"}
                   THEN Made(ParseExpression(Tail(ts), 13), LAMBDA e : [NoDescription EXCEPT !.address = e])
                   ELSE Parsed(NoDescription, Tail(ts))
        at == Optional(Then(address, "colon"), "kw_at", "at")
        align == Optional(at, "kw_align", "align")
        withInput == Flag(align, [kw_align_with_input |-> TRUE], "alignWithInput")
        subAlign == Optional(withInput, "kw_subalign", "subAlign")
        constraint == Flag(subAlign, [kw_only_if_ro |-> "OnlyIfRO", kw_only_if_rw |-> "OnlyIfRW"],
                           "constraint")
    IN  Then(constraint, "l_brace")

(* A fill that is a plain hexadecimal numeral is a string of bytes. *)
ParseFill(ts) ==
    LET bytes == ParseHexToByteStream(Drop(ts[2].range, 2))
    IN  IF ~Is(ts, "equal") THEN Parsed(NoFill, ts)
        ELSE IF /\ Kinds(Tail(ts), <<"number">>) /\ HasHexPrefix(ts[2].range)
                /\ ~IsExpressionOperator(ts[3]) /\ bytes # <<NoNumber>>
             THEN Parsed([expr |-> Null, stream |-> bytes], Drop(ts, 2))
        ELSE Made(ParseExpression(Tail(ts), 13), LAMBDA e : [expr |-> e, stream |-> <<>>])

ParseOutputSectionDescription(ts) ==
    LET discard == Is(ts, "kw_discard")
    IN  With(ParseDescription(ts), LAMBDA d, r1 :
            With(ParseOutputSectionCommands(r1, <<>>), LAMBDA cmds, r2 :
                Made(ParseFill(r2), LAMBDA fill :
                    OutputSectionDescription(IF discard THEN <<>> ELSE ts[1].range, discard,
                                             d, fill, cmds.of))))

RECURSIVE ParseSectionsCommands(_, _)
ParseSectionsCommands(ts, cmds) ==
    LET p == IF IsAssignment(ts) THEN ParseSymbolAssignment(ts)
             ELSE IF ts[1].kind \in {"identifier", "kw_discard", "star"}
                  THEN ParseOutputSectionDescription(ts)
             ELSE IF Is(ts, "kw_entry") THEN ParseEntry(ts)
             ELSE Failed                                  \* OVERLAY is not supported
    IN  IF Is(ts, "semicolon") THEN ParseSectionsCommands(Tail(ts), cmds)
        ELSE IF Is(ts, "r_brace") THEN Parsed(Sections(cmds), Tail(ts))
        ELSE With(p, LAMBDA c, rest : ParseSectionsCommands(rest, Append(cmds, c)))
ParseSections(ts) ==
    IF Peek(ts) = "l_brace" THEN ParseSectionsCommands(Drop(ts, 2), <<>>) ELSE Failed

(* name [ (attributes) ] : ORIGIN = expression, LENGTH = expression *)
ParseMemoryBlock(ts) ==
    LET attrs == Kinds(Tail(ts), <<"l_paren", "identifier", "r_paren">>)
        at == IF attrs THEN Drop(ts, 4) ELSE Tail(ts)
        Block(origin, length) ==
            [kind |-> "block", of |-> MemoryBlock(ts[1].range, IF attrs THEN ts[3].range ELSE <<>>,
                                                  origin, length)]
    IN  IF ~Kinds(at, <<"colon", "kw_origin", "equal">>) THEN Failed
        ELSE With(Then(ParseExpression(Drop(at, 3), 13), "comma"), LAMBDA origin, rest :
                 IF ~Kinds(rest, <<"kw_length", "equal">>) THEN Failed
                 ELSE Made(ParseExpression(Drop(rest, 2), 13), LAMBDA length : Block(origin, length)))
RECURSIVE ParseBlocks(_, _)
ParseBlocks(ts, blocks) ==
    IF Is(ts, "r_brace") THEN Parsed(Memory(blocks), Tail(ts))
    ELSE IF ~Is(ts, "identifier") THEN Failed
    ELSE With(ParseMemoryBlock(ts), LAMBDA b, rest : ParseBlocks(rest, Append(blocks, b.of)))
ParseMemory(ts) == IF Peek(ts) = "l_brace" THEN ParseBlocks(Drop(ts, 2), <<>>) ELSE Failed

-----------------------------------------------------------------------------
(* Parser::parse: the commands, or Null where one cannot be parsed. *)

ParseCommand(ts) ==
    CASE Is(ts, "kw_output") -> ParseOutput(ts)
      [] Is(ts, "kw_output_format") -> ParseOutputFormat(ts)
      [] Is(ts, "kw_output_arch") -> ParseOutputArch(ts)
      [] Is(ts, "kw_input") -> ParsePathList(ts, "Input")
      [] Is(ts, "kw_group") -> ParsePathList(ts, "Group")
      [] Is(ts, "kw_entry") -> ParseEntry(ts)
      [] Is(ts, "kw_search_dir") -> ParseSearchDir(ts)
      [] Is(ts, "kw_sections") -> ParseSections(ts)
      [] ts[1].kind \in {"identifier"} \cup DOMAIN Visibilities -> ParseSymbolAssignment(ts)
      [] Is(ts, "kw_memory") -> ParseMemory(ts)
      [] Is(ts, "kw_extern") -> ParseExtern(ts)
      [] OTHER -> Failed
RECURSIVE ParseCommands(_, _)
RECURSIVE AfterCommand(_, _)
AfterCommand(p, cmds) ==
    IF p.node = Null THEN [ok |-> FALSE, cmds |-> cmds]
    ELSE ParseCommands(p.rest, Append(cmds, p.node))
ParseCommands(ts, cmds) ==
    IF Is(ts, "eof") THEN [ok |-> TRUE, cmds |-> cmds]
    ELSE IF Is(ts, "semicolon") THEN ParseCommands(Tail(ts), cmds)
    ELSE AfterCommand(ParseCommand(ts), cmds)
Parse(text) == ParseCommands(Lex(text), <<>>)

(***************************************************************************)
(* The dump functions of the commands of a linker script: the text that    *)
(* linker-script-test and Sema::dump print. A line break is a blank.       *)
(***************************************************************************)

Keyword(word, text) == <<word>> \o Paren(text)
Quoted(text) == <<"'">> \o text \o <<"'">>
DumpEach(things, Dump(_)) == [i \in DOMAIN things |-> Dump(things[i])]
Lines(texts) == FoldLeft(LAMBDA t, u : t \o u \o <<Blank>>, <<>>, texts)

DumpOutput(c) == Keyword("OUTPUT", c.name)
DumpOutputFormat(c) == Keyword("OUTPUT_FORMAT", Joined(DumpEach(c.names, Quoted), <<",">>))
DumpOutputArch(c) == Keyword("OUTPUT_ARCH", c.name)
DumpEntry(c) == Keyword("ENTRY", c.name)
DumpSearchDir(c) == Keyword("SEARCH_DIR", Quoted(c.name))
DumpExtern(c) == Keyword("EXTERN", Joined(c.names, <<Blank>>))
DumpPath(p) ==
    LET path == (IF p.dashL THEN <<"-", "l">> ELSE <<>>) \o p.path
    IN  IF p.asNeeded THEN Keyword("AS_NEEDED", path) ELSE path
DumpPathList(c) ==
    Keyword(IF c.kind = "Input" THEN "INPUT" ELSE "GROUP",
            Joined(DumpEach(c.paths, DumpPath), <<Blank>>))

AssignSign == [Simple |-> <<"=">>, Sum |-> <<"+", "=">>, Sub |-> <<"-", "=">>,
               Mul |-> <<"*", "=">>, Div |-> <<"/", "=">>, Shl |-> <<"<", "<", "=">>,
               Shr |-> <<">", ">", "=">>, And |-> <<"&", "=">>, Or |-> <<"|", "=">>]
DumpSymbolAssignment(c) ==
    LET text == c.symbol \o Blanked(AssignSign[c.op]) \o DumpExpr(c.expr)
    IN  (CASE c.visibility = "Default" -> text
           [] c.visibility = "Hidden" -> Keyword("HIDDEN", text)
           [] c.visibility = "Provide" -> Keyword("PROVIDE", text)
           [] c.visibility = "ProvideHidden" -> Keyword("PROVIDE_HIDDEN", text)) \o <<";">>

(* The directives around a text. *)
DumpSortDirectives(mode, text) ==
    CASE mode = "NA" -> text
      [] mode = "ByName" -> Keyword("SORT_BY_NAME", text)
      [] mode = "ByAlignment" -> Keyword("SORT_BY_ALIGNMENT", text)
      [] mode = "ByInitPriority" -> Keyword("SORT_BY_INIT_PRIORITY", text)
      [] mode = "ByNameAndAlignment" ->
            Keyword("SORT_BY_NAME", Keyword("SORT_BY_ALIGNMENT", text))
      [] mode = "ByAlignmentAndName" ->
            Keyword("SORT_BY_ALIGNMENT", Keyword("SORT_BY_NAME", text))
      [] mode = "None" -> Keyword("SORT_NONE", text)

(* Neighbouring EXCLUDE_FILE names share one pair of parentheses, which a   *)
(* group does not close.                                                    *)
RECURSIVE DumpInputSections(_)
DumpInputSections(secs) ==
    LET Excludes(s) == s.kind = "InputSectionName" /\ s.excludeFile
        Closes(s) == s.kind = "InputSectionName" /\ ~s.excludeFile
        Dumped(s) == IF s.kind = "InputSectionName" THEN s.name
                     ELSE DumpSortDirectives(s.sortMode, DumpInputSections(s.sections))
        step(st, i) ==
            LET s == secs[i]
                opens == Excludes(s) /\ ~st.in
                closes == Closes(s) /\ st.in
            IN  [in |-> IF opens THEN TRUE ELSE IF closes THEN FALSE ELSE st.in,
                 t |-> st.t \o (IF i = 1 THEN <<>> ELSE <<Blank>>)
                        \o (IF opens THEN <<"EXCLUDE_FILE", "(">>
                            ELSE IF closes THEN <<")", Blank>> ELSE <<>>)
                        \o Dumped(s)]
        all == FoldLeftDomain(step, [in |-> FALSE, t |-> <<>>], secs)
    IN  IF all.in THEN all.t \o <<")">> ELSE all.t

DumpInputSectionsCmdUnkept(c) ==
    DumpSortDirectives(c.fileSortMode, c.memberName)
    \o (IF c.sections = <<>> THEN <<>> ELSE Paren(DumpInputSections(c.sections)))
DumpInputSectionsCmd(c) ==
    LET text == DumpSortDirectives(c.fileSortMode, c.memberName)
                \o (IF c.archiveName = <<>> THEN <<>>
                    ELSE <<":">> \o DumpSortDirectives(c.archiveSortMode, c.archiveName))
                \o (IF c.sections = <<>> THEN <<>> ELSE Paren(DumpInputSections(c.sections)))
    IN  IF c.keep THEN Keyword("KEEP", text) ELSE text

HexDigit(n) == IF n < 10 THEN Digits[n + 1] ELSE Upper[n - 9]
DumpByteStream(bytes) ==
    FoldLeft(LAMBDA t, b : t \o <<HexDigit(b \div 16), HexDigit(b % 16)>>,
             <<"0", "x">>, bytes)

DumpOptional(keyword, e) ==
    IF e = Null THEN <<>> ELSE Blanked(Keyword(keyword, DumpExpr(e)))
DumpOutputSectionDescription(c) ==
    LET d == c.d
        command(x) == IF x.kind = "SymbolAssignment" THEN DumpSymbolAssignment(x)
                      ELSE DumpInputSectionsCmd(x)
    IN  (IF c.discard THEN <<"/DISCARD/">> ELSE c.name)
        \o (IF d.address = Null THEN <<>> ELSE <<Blank>> \o DumpExpr(d.address))
        \o Blanked(<<":">>) \o DumpOptional("AT", d.at)
        \o (IF d.align # Null THEN DumpOptional("ALIGN", d.align)
            ELSE IF d.alignWithInput THEN Blanked(<<"ALIGN_WITH_INPUT">>) ELSE <<>>)
        \o DumpOptional("SUBALIGN", d.subAlign)
        \o (CASE d.constraint = "None" -> <<>> [] d.constraint = "OnlyIfRO" -> <<"ONLY_IF_RO">>
              [] d.constraint = "OnlyIfRW" -> <<"ONLY_IF_RW">>)
        \o Blanked(<<"{">>) \o Lines(DumpEach(c.cmds, command)) \o <<"}">>
        \o (IF c.fillStream # <<>> THEN <<Blank, "=">> \o DumpByteStream(c.fillStream)
            ELSE IF c.fillExpr # Null THEN <<Blank, "=">> \o DumpExpr(c.fillExpr) ELSE <<>>)

DumpSections(c) ==
    LET command(x) == CASE x.kind = "SymbolAssignment" -> DumpSymbolAssignment(x)
                        [] x.kind = "Entry" -> DumpEntry(x)
                        [] x.kind = "OutputSectionDescription" ->
                              DumpOutputSectionDescription(x)
    IN  <<"SECTIONS", Blank, "{", Blank>> \o Lines(DumpEach(c.cmds, command)) \o <<"}">>

DumpMemoryBlock(b) ==
    b.name \o (IF b.attr = <<>> THEN <<>> ELSE <<Blank>> \o Paren(b.attr))
    \o Blanked(<<":">>) \o <<"ORIGIN">> \o Blanked(<<"=">>) \o DumpExpr(b.origin)
    \o <<",", Blank, "LENGTH">> \o Blanked(<<"=">>) \o DumpExpr(b.length)
DumpMemory(c) ==
    <<"MEMORY", Blank, "{", Blank>> \o Lines(DumpEach(c.blocks, DumpMemoryBlock)) \o <<"}">>

DumpCommand(c) ==
    CASE c.kind = "Output" -> DumpOutput(c)
      [] c.kind = "OutputFormat" -> DumpOutputFormat(c)
      [] c.kind = "OutputArch" -> DumpOutputArch(c)
      [] c.kind \in {"Input", "Group"} -> DumpPathList(c)
      [] c.kind = "Entry" -> DumpEntry(c)
      [] c.kind = "SearchDir" -> DumpSearchDir(c)
      [] c.kind = "Extern" -> DumpExtern(c)
      [] c.kind = "SymbolAssignment" -> DumpSymbolAssignment(c)
      [] c.kind = "Sections" -> DumpSections(c)
      [] c.kind = "Memory" -> DumpMemory(c)
(* LinkerScript::dump *)
DumpScript(cmds) == Lines(DumpEach(cmds, DumpCommand))

-----------------------------------------------------------------------------
(* script::Sema: the SECTIONS commands of the scripts put into one list,   *)
(* and the questions the layout asks of it: the order of two input         *)
(* sections, the output section of one, the assignments that come before   *)
(* one, and the value of a symbol.                                         *)
(*                                                                         *)
(* A section key is [archive, member, name]; the three are names.          *)

NewSema == [cmds |-> <<>>, members |-> <<>>, wildcards |-> <<>>,
            delivered |-> {}, symbols |-> [n \in {} |-> 0]]

HasWildcard(name) == Range(name) \cap {"*", "?", "[", "\\"} # {}

(* linearizeAST of one command list *)
LinearizeInputSection(cmds, s) == cmds \o (IF s.kind = "SortedGroup" THEN s.sections ELSE <<s>>)
LinearizeInputSectionsCmd(S, c) ==
    LET entry == [name |-> c.memberName, order |-> Len(S.cmds)]
        T == IF HasWildcard(c.memberName) THEN [S EXCEPT !.wildcards = Append(@, entry)]
             ELSE IF c.memberName # <<>> THEN [S EXCEPT !.members = Append(@, entry)]
             ELSE S
    IN  [T EXCEPT !.cmds = FoldLeft(LinearizeInputSection, Append(@, c), c.sections)]
LinearizeOutputCommand(S, c) ==
    IF c.kind = "SymbolAssignment" THEN [S EXCEPT !.cmds = Append(@, c)]
    ELSE LinearizeInputSectionsCmd(S, c)
LinearizeSections(S, c) ==
    IF c.kind = "SymbolAssignment" THEN [S EXCEPT !.cmds = Append(@, c)]
    ELSE IF c.kind # "OutputSectionDescription" THEN S
    ELSE FoldLeft(LinearizeOutputCommand, [S EXCEPT !.cmds = Append(@, c)], c.cmds)
(* Sema::perform: the scripts in the order they were added *)
Perform(S, scripts) ==
    FoldLeft(LAMBDA T, c : IF c.kind = "Sections" THEN FoldLeft(LinearizeSections, T, c.cmds)
                           ELSE T,
             S, FlattenSeq(scripts))

(* The list is counted from 0. *)
At(S, id) == S.cmds[id + 1]
IsInputSection(c) == c.kind \in {"InputSectionName", "SortedGroup"}

(* wildcardMatch: a star takes one piece or more; a class holds the rest of *)
(* the name as a substring.                                                 *)
RECURSIVE WildcardMatch(_, _)
WildcardMatch(pattern, name) ==
    LET p == pattern[1]
        close == CHOOSE i \in DOMAIN pattern : pattern[i] = "]" /\ "]" \notin Range(Take(pattern, i - 1))
        class == Take(pattern, close - 1)
    IN  IF pattern = <<>> THEN name = <<>>
        ELSE IF name = <<>> THEN FALSE
        ELSE IF p = "*" THEN \E k \in DOMAIN name : WildcardMatch(Tail(pattern), Drop(name, k))
        ELSE IF p = "?" THEN WildcardMatch(Tail(pattern), Tail(name))
        ELSE IF p = "["
             THEN /\ \E i \in 0..(Len(class) - Len(name)) : IsPrefix(name, Drop(class, i))
                  /\ WildcardMatch(Drop(pattern, close), Tail(name))
        ELSE IF p = "\\" THEN pattern[2] = name[1] /\ WildcardMatch(Drop(pattern, 2), Tail(name))
        ELSE p = name[1] /\ WildcardMatch(Tail(pattern), Tail(name))

(* matchSectionName: the InputSectionName behind the command id that takes  *)
(* the section, or -1.                                                      *)
MatchSectionName(S, id, key) ==
    LET c == At(S, id)
        names == Run(Drop(S.cmds, id + 1), IsInputSection)
        hits == {i \in (id + 1)..(id + names) : WildcardMatch(At(S, i).name, key.name)}
    IN  IF ~WildcardMatch(c.archiveName, key.archive) \/ hits = {} THEN -1
        ELSE CHOOSE i \in hits : \A j \in hits : i <= j

(* getLayoutOrder without its caches: nothing they depend on changes once   *)
(* the list is made. The rules that name the file are tried first; the hash *)
(* table that holds them may give the newer of two first.                   *)
RulesPatternsFirst(S, key, newest) ==
    SelectSeq(S.wildcards, LAMBDA w : WildcardMatch(w.name, key.member))
    \o SelectSeq(S.members, LAMBDA m : m.name = key.member)
Rules(S, key, newest) ==
    LET exact == SelectSeq(S.members, LAMBDA m : m.name = key.member)
    IN  (IF newest THEN Reverse(exact) ELSE exact)
        \o SelectSeq(S.wildcards, LAMBDA w : WildcardMatch(w.name, key.member))
OrderByRule(S, key, coarse, matching) ==
    IF matching = <<>> THEN -1
    ELSE IF coarse THEN matching[1].order ELSE MatchSectionName(S, matching[1].order, key)
GetLayoutOrder(S, key, coarse, newest) ==
    OrderByRule(S, key, coarse, SelectSeq(Rules(S, key, newest),
                                          LAMBDA r : MatchSectionName(S, r.order, key) >= 0))

-----------------------------------------------------------------------------
(* The order of two sections. rank gives the place of a name in the order   *)
(* of strings.                                                              *)

CompareSortedNames(mode, lhs, rhs, rank) ==
    mode \in {"ByName", "ByNameAndAlignment"} /\ rank[lhs] < rank[rhs]
SortedGroupContains(group, key) ==
    \E i \in DOMAIN group.sections : WildcardMatch(group.sections[i].name, key.name)

(* The first item of the command that says something about the two. Of two  *)
(* sections of which one is in a sorted group, the other goes first.        *)
RECURSIVE CompareItems(_, _, _, _)
CompareItems(items, lhs, rhs, rank) ==
    LET i == items[1]
        a == SortedGroupContains(i, lhs)
        b == SortedGroupContains(i, rhs)
    IN  IF items = <<>> THEN FALSE
        ELSE IF i.kind = "InputSectionName"
             THEN ~WildcardMatch(i.name, rhs.name) /\
                  (WildcardMatch(i.name, lhs.name) \/ CompareItems(Tail(items), lhs, rhs, rank))
        ELSE IF a # b THEN b
        ELSE IF ~a THEN CompareItems(Tail(items), lhs, rhs, rank)
        ELSE CompareSortedNames(i.sortMode, lhs.name, rhs.name, rank)
LocalCompare(S, order, lhs, rhs, rank) ==
    LET c == At(S, order)
    IN  IF lhs.archive # rhs.archive
        THEN CompareSortedNames(c.archiveSortMode, lhs.archive, rhs.archive, rank)
        ELSE IF lhs.member # rhs.member
        THEN CompareSortedNames(c.fileSortMode, lhs.member, rhs.member, rank)
        ELSE CompareItems(c.sections, lhs, rhs, rank)

Before(S, a, b, lhs, rhs, rank) ==
    IF a # b THEN a >= 0 /\ (b < 0 \/ a < b)
    ELSE a >= 0 /\ LocalCompare(S, a, lhs, rhs, rank)
SemaLess(S, lhs, rhs, newest, rank) ==
    Before(S, GetLayoutOrder(S, lhs, TRUE, newest), GetLayoutOrder(S, rhs, TRUE, newest),
           lhs, rhs, rank)

-----------------------------------------------------------------------------
(* Output sections and assignments *)

OutputSectionOf(S, order) ==
    LET outs == {i \in 0..(order - 1) : At(S, i).kind = "OutputSectionDescription"}
    IN  IF outs = {} THEN <<>> ELSE At(S, Max(outs)).name
GetOutputSection(S, key, newest) == OutputSectionOf(S, GetLayoutOrder(S, key, TRUE, newest))

(* getExprs: the assignments between the item that takes the section and    *)
(* the item before it, for the first section that asks.                     *)
ExprsBefore(S, order) ==
    LET items == {i \in 0..(order - 1) : IsInputSection(At(S, i))}
        from == IF items = {} THEN 0 ELSE 1 + Max(items)
        between == [i \in 1..(order - from) |-> At(S, from + i - 1)]
    IN  SelectSeq(between, LAMBDA c : c.kind = "SymbolAssignment")
DeliverAgain(S, order) ==
    [S |-> S, exprs |-> IF order < 0 THEN <<>> ELSE ExprsBefore(S, order)]
Deliver(S, order) ==
    IF order < 0 \/ order \in S.delivered THEN [S |-> S, exprs |-> <<>>]
    ELSE [S |-> [S EXCEPT !.delivered = @ \cup {order}], exprs |-> ExprsBefore(S, order)]
GetExprs(S, key, newest) == Deliver(S, GetLayoutOrder(S, key, FALSE, newest))

(* Sema::evalExpr: the location counter is the symbol "."; an expression    *)
(* that cannot be evaluated changes nothing else.                           *)
Dot == <<".">>
Bind(symbols, name, v) ==
    [n \in DOMAIN symbols \cup {name} |-> IF n = name THEN v ELSE symbols[n]]
SemaEvalExpr(S, assgn, curPos) ==
    LET here == Bind(S.symbols, Dot, curPos)
        e == EvalExpr(assgn.expr, here)
    IN  IF ~e.ok THEN [S |-> [S EXCEPT !.symbols = here], pos |-> curPos]
        ELSE IF assgn.symbol = Dot THEN [S |-> [S EXCEPT !.symbols = here], pos |-> e.v]
        ELSE [S |-> [S EXCEPT !.symbols = Bind(here, assgn.symbol, e.v)], pos |-> curPos]

GetScriptDefinedSymbols(S) ==
    {c.symbol : c \in {x \in Range(S.cmds) : x.kind = "SymbolAssignment"}} \ {Dot}

(***************************************************************************)
(* What a linker script makes of the layout: the part of TargetLayout.h    *)
(* and SegmentChunks.h that asks script::Sema.  ElfWriter holds the layout *)
(* without scripts.                                                        *)
(*                                                                         *)
(* An input section is [key, type, flags, size, align, out]; flags is a    *)
(* subset of {"W", "X"}.                                                   *)
(***************************************************************************)

SectionOrder(sec) == CASE sec.type = "code" -> 80 [] sec.type = "constant" -> 100
                       [] sec.type = "data" -> 200 [] sec.type = "zeroFill" -> 210

(* getOutputSectionName: the script's, or else the part of the name that    *)
(* one of the default rules knows.                                          *)
KnownNames == {".text", ".ctors", ".dtors", ".rodata", ".data", ".tdata", ".tbss"}
GetOutputSectionName(S, key, newest) ==
    LET default == IF key.name[1] \in KnownNames THEN <<key.name[1]>> ELSE key.name
        Or(out) == IF S.cmds # <<>> /\ out # <<>> THEN out ELSE default
    IN  Or(GetOutputSection(S, key, newest))
HasMapping(S, key, newest) == GetLayoutOrder(S, key, TRUE, newest) >= 0

(* A stable sort. *)
Insert(sorted, x, Less(_, _)) ==
    LET after == {i \in DOMAIN sorted : ~Less(x, sorted[i])}
        at == IF after = {} THEN 0 ELSE Max(after)
    IN  Take(sorted, at) \o <<x>> \o Drop(sorted, at)
StableSort(s, Less(_, _)) == FoldLeft(LAMBDA t, x : Insert(t, x, Less), <<>>, s)

(* A section no rule takes goes behind the last section of its type that is *)
(* in front of it.                                                          *)
MoveUnmapped(secs, p) ==
    LET like == {q \in 1..(p - 1) : secs[q].type = secs[p].type}
        q == Max(like)
    IN  IF like = {} THEN secs
        ELSE Take(secs, q) \o <<secs[p]>> \o SubSeq(secs, q + 1, p - 1) \o Drop(secs, p)
BehindTheirLike(S, secs, newest) ==
    LET mapped == Run(secs, LAMBDA s : HasMapping(S, s.key, newest))
    IN  IF mapped = 0 THEN secs
        ELSE FoldLeft(MoveUnmapped, secs, [i \in 1..(Len(secs) - mapped) |-> mapped + i])
SortInputSections(S, secs, newest, rank) ==
    LET default == StableSort(secs, LAMBDA a, b : SectionOrder(a) < SectionOrder(b))
    IN  IF S.cmds = <<>> THEN default
        ELSE BehindTheirLike(S, StableSort(default, LAMBDA a, b : SemaLess(S, a.key, b.key, newest, rank)),
                             newest)

(* createOutputSections: the sections of one name together, the names in    *)
(* the order of their first sections.                                       *)
OutputSections(secs) ==
    LET firsts == SelectSeq([i \in DOMAIN secs |-> i],
                            LAMBDA i : \A j \in 1..(i - 1) : secs[j].out # secs[i].out)
    IN  [k \in DOMAIN firsts |-> SelectSeq(secs, LAMBDA s : s.out = secs[firsts[k]].out)]

(* The segment of an output section: text and constants share one. *)
SegmentFlags(secs, magic) ==
    IF magic # "DEFAULT" THEN {"W", "X"}
    ELSE LET flags == UNION {s.flags : s \in Range(secs)}
         IN  IF "W" \in flags THEN flags ELSE {}

SectionChunk(s) == [kind |-> "section", sec |-> s, addr |-> 0]
ExpressionChunk(e) == [kind |-> "expr", assgn |-> e, addr |-> 0]
HeaderChunk == [kind |-> "headers", addr |-> 0]

(* addExtraChunksToSegment, then the section: the assignments that come     *)
(* before it.                                                               *)
AppendBehind(l, g, s) ==
    LET made == [i \in DOMAIN g.exprs |-> ExpressionChunk(g.exprs[i])] \o <<SectionChunk(s)>>
    IN  [l EXCEPT !.S = g.S, !.segments[l.flags] = @ \o made]
AppendSection(l, s, newest) == AppendBehind(l, GetExprs(l.S, s.key, newest), s)
AssignSectionsToSegments(S, secs, newest, magic) ==
    LET add(l, out) == FoldLeft(LAMBDA m, s : AppendSection(m, s, newest),
                                [l EXCEPT !.flags = SegmentFlags(out, magic)], out)
        empty == [f \in SUBSET {"W", "X"} |-> <<>>]
    IN  FoldLeft(add, [S |-> S, flags |-> {}, segments |-> empty], OutputSections(secs))

(* compareSegments: what is written and run first, data last. The headers   *)
(* are in front of the first.                                               *)
SegmentsInOrder(segments) ==
    LET some == SelectSeq(<<{"W", "X"}, {}, {"W"}>>, LAMBDA f : segments[f] # <<>>)
    IN  [k \in DOMAIN some |-> (IF k = 1 THEN <<HeaderChunk>> ELSE <<>>) \o segments[some[k]]]

-----------------------------------------------------------------------------
(* Segment::assignVirtualAddress: w is the walk over the chunks. A cut at a *)
(* hole of more than a page starts a slice.                                 *)

PageUp(x, a) == ((x + a - 1) \div a) * a
MemSize(c, headers) == CASE c.kind = "section" -> c.sec.size [] c.kind = "headers" -> headers
                         [] OTHER -> 0
Align(c) == IF c.kind = "section" THEN c.sec.align ELSE 1
Place(w, c, link) ==
    LET from == IF w.first /\ link.magic = "DEFAULT" THEN PageUp(w.cur, link.pageSize)
                ELSE w.cur
        aligned == PageUp(from, Align(c))
        e == IF c.kind = "expr" THEN SemaEvalExpr(w.S, c.assgn, aligned)
             ELSE [S |-> w.S, pos |-> aligned]
        name == IF c.kind = "section" THEN c.sec.out ELSE w.prev
        hole == e.pos - from > link.pageSize \/ e.pos < from
        cut == ~w.first /\ name # w.prev /\ hole /\ link.magic = "DEFAULT"
    IN  [w EXCEPT !.first = FALSE, !.S = e.S, !.prev = IF w.first THEN @ ELSE name,
                  !.start = IF w.first THEN from ELSE @,
                  !.slice = IF w.first \/ cut THEN e.pos ELSE @,
                  !.cur = e.pos + MemSize(c, link.headers),
                  !.chunks = Append(@, [c EXCEPT !.addr = e.pos])]
(* The next segment starts at the start of the last slice of this one plus  *)
(* the size of the whole of it.                                             *)
Behind(r, w) ==
    [S |-> w.S, at |-> w.slice + (w.cur - w.start), segments |-> Append(r.segments, w.chunks)]
PlaceSegment(r, chunks, link) ==
    Behind(r, FoldLeft(LAMBDA v, c : Place(v, c, link),
                       [S |-> r.S, cur |-> r.at, first |-> TRUE, prev |-> <<>>, start |-> 0,
                        slice |-> 0, chunks |-> <<>>], chunks))
(* One round over the segments; the first is made before the size of the    *)
(* program headers is known.                                                *)
Round(S, segments, link) ==
    FoldLeft(LAMBDA r, chunks : PlaceSegment(r, chunks, link),
             [S |-> S, at |-> link.base, segments |-> <<>>], segments)
AssignVirtualAddress(S, segments, link) ==
    LET Again(first) == Round(first.S, first.segments, link)
    IN  Again(Round(S, segments, [link EXCEPT !.headers = link.elfHeader]))
=============================================================================
