--------------------------- MODULE SlangPipeline ---------------------------
(***************************************************************************)
(* One connection of the command endpoint (Endpoint::ServeCommandMode): a  *)
(* loop that reads one S-expression from the socket through a StreamReader *)
(* (slang::Execute with single_expr = true), compiles it into the reversed *)
(* Push/Call/FrameBarrier code (Compiler), runs it on the stack VM          *)
(* (Program::Execute) and serializes one reply, until the stream reports   *)
(* an error.                                                               *)
(*                                                                         *)
(* The client's bytes are a fixed tuple of one-character strings; every    *)
(* recv returns between 1 and BufSize of them, so every way the stream can *)
(* be cut into chunks is explored.  The lexer is modelled character by     *)
(* character, with the read buffer as an array of BufSize slots that each  *)
(* refill overwrites: a term pointer into the buffer that is not saved     *)
(* before a refill reads the new chunk's bytes, as the code would.         *)
(*                                                                         *)
(* Host functions: "list" (slang_env.cc) and "+", "-", "*" (math_funcs.cc) *)
(* over integers.  Each reply goes out as JSON text through a StreamWriter *)
(* of OutSize bytes and TcpStream::DoWrite's send loop; the client may     *)
(* reset the connection, a send after the reset was reported raises       *)
(* SIGPIPE, and send may report that it would block (Faults).  A custom    *)
(* payload ('!' token '[' ... ']') goes to the JSON payload handler,       *)
(* which answers "Not supported".  Doubles are not modelled (ASSUME      *)
(* below).                                                                 *)
(***************************************************************************)
EXTENDS Integers, Sequences, FiniteSets, SequencesExt

CONSTANTS
    Inputs,      \* the byte streams a client may send on the connection
    BufSize,     \* capacity of the request buffer (Endpoint::in_buf_)
    OutSize,     \* capacity of the reply buffer (Endpoint::out_buf_)
    Faults,      \* subset of {"reset", "wouldblock"}: what the socket may do
    MaxReplies   \* bound on the replies of one connection

Chars(s) == {s[i] : i \in DOMAIN s}
Digits == {"0", "1", "2", "3", "4", "5", "6", "7", "8", "9"}
DigitSeq == <<"0", "1", "2", "3", "4", "5", "6", "7", "8", "9">>

\* No term can parse as a double
\* (no '.', exponent, hex, inf or nan characters), so LexerParseDouble never
\* succeeds where LexerParseInt64 failed; "/" (the double-valued division)
\* is not called.
ASSUME \A s \in Inputs :
         Chars(s) \cap {".", "e", "E", "x", "X", "n", "N", "/"} = {}
ASSUME BufSize \in Nat \ {0} /\ OutSize \in Nat \ {0} /\ MaxReplies \in Nat \ {0}
ASSUME Faults \subseteq {"reset", "wouldblock"}

Null == -1                       \* term_begin_ == nullptr
Barrier == [t |-> "FrameBarrier", v |-> 0]
Push(val) == [op |-> "push", val |-> val]
CallOp(f) == [op |-> "call", fn |-> f]

VARIABLES
    in,        \* the bytes the client sends
    rpos,      \* bytes recv has returned so far
    rerr,      \* InStream::read_error_
    buf,       \* Endpoint::in_buf_, offsets 0..BufSize-1
    abeg,      \* StreamReader::available_begin_ (offset into buf)
    aend,      \* StreamReader::available_end_
    lx,        \* detail::LexerState of the current request
    code,      \* Program::code_ as the Compiler emits it
    prog,      \* Program::code_ after std::reverse
    ip,        \* Program::Execute's instruction pointer
    stack,     \* the VM stack
    pc,        \* "lex" | "exec" | "reply" | "closed"
    reply,     \* what the serializer writes for this request
    replies,   \* every reply written on the connection
    conn,      \* "open", "reset" (ECONNRESET pending) or "shut" (reported)
    werr,      \* OutStream::write_error_
    wq,        \* the writer calls JsonSerializer still has to make for this reply
    wbuf,      \* Endpoint::out_buf_ up to StreamWriter::written_size_
    wsend,     \* DoWrite's to_send..to_send_end
    flushed,   \* FinalizeWrite has issued its Flush
    client,    \* the bytes the client has received
    tstart,    \* auxiliary: input index of the open term's first byte
    lastTerm   \* auxiliary: the last term text handed to the handler

vars == <<in, rpos, rerr, buf, abeg, aend, lx, code, prog, ip, stack, pc,
          reply, replies, conn, werr, wq, wbuf, wsend, flushed, client,
          tstart, lastTerm>>

\* LexerState as constructed by Lexer::Run.
LexInit == [line |-> 1, col |-> 0, depth |-> 0, esc |-> FALSE,
            wasEsc |-> FALSE, ttype |-> "value", tbeg |-> Null,
            tbuf |-> <<>>, mode |-> "char", tok |-> <<>>]

Init ==
    /\ in \in Inputs
    /\ rpos = 0
    /\ rerr = "None"
    /\ buf = [o \in 0..BufSize-1 |-> ""]
    /\ abeg = 0
    /\ aend = 0
    /\ lx = LexInit
    /\ code = <<>>
    /\ prog = <<>>
    /\ ip = 1
    /\ stack = <<>>
    /\ pc = "lex"
    /\ reply = [kind |-> "none"]
    /\ replies = <<>>
    /\ conn = "open"
    /\ werr = "None"
    /\ wq = <<>>
    /\ wbuf = <<>>
    /\ wsend = <<>>
    /\ flushed = FALSE
    /\ client = <<>>
    /\ tstart = 0
    /\ lastTerm = [text |-> <<>>, from |-> 1, to |-> 0]

(***************************************************************************)
(* Pure helpers: the byte-level conversions of lexer.cc.                   *)
(***************************************************************************)
\* The bytes of buf at offsets from..to-1.
Slice(b, from, to) == [i \in 1..(to - from) |-> b[from + i - 1]]

\* Input index of the byte at buffer offset o.
Abs(o) == rpos - aend + o + 1

IsOpChar(ch) ==
    ch \notin Digits \cup {" ", "\t", "\r", "\n", "(", ")", "{", "}", "[", "]",
                           "\"", "'", ":", ";"}

LexerCheckOpName(t) ==
    /\ IsOpChar(t[1])
    /\ \A i \in 2..Len(t) : IsOpChar(t[i]) \/ t[i] \in Digits

RECURSIVE DecimalValue(_)
DecimalValue(d) ==
    IF d = <<>> THEN 0
    ELSE 10 * DecimalValue(Front(d))
         + (CHOOSE k \in 0..9 : DigitSeq[k + 1] = Last(d))

\* strtoll(term, &end, 10) consuming the whole term.
Unsigned(t) == IF t[1] \in {"+", "-"} THEN Tail(t) ELSE t
IsInt64(t) == Unsigned(t) # <<>> /\ \A i \in DOMAIN Unsigned(t) : Unsigned(t)[i] \in Digits
LexerParseInt64(t) == IF t[1] = "-" THEN -DecimalValue(Unsigned(t)) ELSE DecimalValue(Unsigned(t))

\* The escape stripping loop of LexerParseString.
RECURSIVE Unescape(_, _)
Unescape(s, escaped) ==
    IF s = <<>> THEN <<>>
    ELSE IF Head(s) = "\\" /\ ~escaped THEN Unescape(Tail(s), TRUE)
    ELSE <<Head(s)>> \o Unescape(Tail(s), FALSE)

LexerParseString(t, wasEscaped) == IF wasEscaped THEN Unescape(t, FALSE) ELSE t

(***************************************************************************)
(* The environment: Env::FindCall over the function table of              *)
(* CreateSlangEnv, restricted to the functions modelled here.             *)
(***************************************************************************)
\* The payload tokens CreateSlangEnv registers (0 and "json"), as the
\* byte strings the '!' loop shifts into data_token.
PayloadTokens == {<<>>, <<"j", "s", "o", "n">>}

FnNames == [ f \in {"list", "+", "-", "*"} |->
               CASE f = "list" -> <<"l", "i", "s", "t">>
                 [] OTHER      -> <<f>> ]
FindCall(t) == {f \in DOMAIN FnNames : FnNames[f] = t}

(***************************************************************************)
(* Compiler: the lexer handler.  Each returns the instructions it emits    *)
(* and the handler's error message, "" for success.                        *)
(***************************************************************************)
Emit(is) == [err |-> "", emit |-> is]
HandlerFail(msg) == [err |-> msg, emit |-> <<>>]

LexerBeginOp(t) ==
    IF FindCall(t) = {} THEN HandlerFail("Unknown function")
    ELSE Emit(<<CallOp(CHOOSE f \in FindCall(t) : TRUE)>>)

LexerEndOp == Emit(<<Push(Barrier)>>)

LexerUnhandledValue(t) ==
    IF Len(t) > 1 /\ t[1] = ":" THEN Emit(<<Push([t |-> "Field", v |-> Tail(t)])>>)
    ELSE Emit(<<Push([t |-> "StrSpan", v |-> t])>>)

\* The handler call FinalizeTerm makes for a term of type ty.
HandleTerm(ty, t, wasEscaped) ==
    CASE ty = "op" ->
            IF t = <<>> THEN Emit(<<>>)
            ELSE IF ~LexerCheckOpName(t) THEN HandlerFail("Invalid op name")
            ELSE LexerBeginOp(t)
      [] ty = "value" ->
            IF t = <<>> THEN Emit(<<>>)
            ELSE IF IsInt64(t) THEN Emit(<<Push([t |-> "int64", v |-> LexerParseInt64(t)])>>)
            ELSE LexerUnhandledValue(t)
      [] ty = "str" ->
            Emit(<<Push([t |-> "StrSpan", v |-> LexerParseString(t, wasEscaped)])>>)

(***************************************************************************)
(* Lexer::FinalizeTerm with Buffer() = b.  Returns the handler outcome,    *)
(* the lexer state after FinishTerm, and the term text handed over.        *)
(***************************************************************************)
\* Mutant: Term() ignoring the bytes saved in term_buf_.
TermIgnoresSaved(l, b) == Slice(buf, l.tbeg, b - 1)
Term(l, b) == l.tbuf \o Slice(buf, l.tbeg, b - 1)

FinalizeTerm(l, b) ==
    IF l.tbeg = Null THEN [err |-> "", emit |-> <<>>, l |-> l, formed |-> FALSE]
    ELSE IF l.depth <= 0
    THEN [err |-> "Expected opening bracket", emit |-> <<>>, l |-> l, formed |-> FALSE]
    ELSE LET h == HandleTerm(l.ttype, Term(l, b), l.wasEsc)
         IN  [err |-> h.err, emit |-> h.emit, formed |-> TRUE, text |-> Term(l, b),
              l |-> [l EXCEPT !.ttype = "value", !.tbeg = Null, !.tbuf = <<>>,
                              !.wasEsc = IF l.ttype = "str" THEN FALSE ELSE @]]

(***************************************************************************)
(* Host functions.  Integers keep their C++ width: sum<int64_t> for "+",   *)
(* sub<int16_t> and mul<int16_t> for "-" and "*".                          *)
(***************************************************************************)
Wrap(x, w) == LET r == x % (2^w) IN IF r >= 2^(w-1) THEN r - 2^w ELSE r

Numeric == {"int64", "int16"}

\* CheckOperationType: Invalid when an argument is not numeric.
CheckOperationType(args) == \A i \in DOMAIN args : args[i].t \in Numeric

ArgValues(args) == [i \in DOMAIN args |-> args[i].v]
SumOf(args) == FoldLeft(LAMBDA a, x : a + x, 0, ArgValues(args))
ProductOf(args) == FoldLeft(LAMBDA a, x : a * x, 1, ArgValues(args))
DifferenceOf(args) == IF args = <<>> THEN 0 ELSE 2 * args[1].v - SumOf(args)

HostCall(f, args) ==
    IF f = "list" THEN [ok |-> TRUE, out |-> args]
    ELSE IF ~CheckOperationType(args)
    THEN [ok |-> FALSE, msg |-> "Operation expects numeric type"]
    ELSE [ok |-> TRUE, out |->
            CASE f = "+" -> <<[t |-> "int64", v |-> Wrap(SumOf(args), 64)]>>
              [] f = "-" -> <<[t |-> "int16", v |-> Wrap(DifferenceOf(args), 16)]>>
              [] f = "*" -> <<[t |-> "int16", v |-> Wrap(ProductOf(args), 16)]>>]

(***************************************************************************)
(* Lexer::Run, one loop iteration per action.                              *)
(***************************************************************************)
NewLine(l) == [l EXCEPT !.line = @ + 1, !.col = 0]

\* SaveTerm(end): the open term's bytes up to offset end join term_buf_.
SavedTerm(end) == IF lx.tbeg # Null THEN lx.tbuf \o Slice(buf, lx.tbeg, end) ELSE lx.tbuf

\* Run returns a failure: slang::Execute serializes the error text.
LexFail(l, msg) ==
    /\ reply' = [kind |-> "syntax", msg |-> msg, line |-> l.line, col |-> l.col]
    /\ pc' = "reply"
    /\ UNCHANGED <<prog, ip, stack>>

\* Run succeeds: Compiler::Build reverses the code and Execute runs it.
Build(cd) ==
    /\ prog' = Reverse(cd)
    /\ ip' = 1
    /\ stack' = <<>>
    /\ pc' = "exec"
    /\ UNCHANGED reply

LexGoOn == UNCHANGED <<prog, ip, stack, pc, reply>>

\* The state of the reply path, which reading and executing leave alone.
\* A recv or send that reports ECONNRESET clears the socket's error; the
\* connection stays shut down.
ErrorReported(c) == IF c = "reset" THEN "shut" ELSE c

WriterVars == <<conn, werr, wq, wbuf, wsend, flushed, client>>

\* NextChar with bytes available; Cur is the byte it returns.
Cur == buf[abeg]
Consumed == [lx EXCEPT !.col = @ + 1, !.esc = FALSE]
CharStep ==
    /\ pc = "lex" /\ abeg < aend
    /\ abeg' = abeg + 1
    /\ UNCHANGED <<in, rpos, rerr, buf, aend, replies>> /\ UNCHANGED WriterVars
InString == lx.ttype = "str" /\ (Cur # "\"" \/ lx.esc)

\* The handler's instructions join the program; the term text is recorded.
Finalized(f) ==
    /\ code' = code \o f.emit
    /\ lastTerm' = IF f.formed THEN [text |-> f.text, from |-> tstart, to |-> Abs(abeg) - 1]
                   ELSE lastTerm

\* Inside a string literal: escapes and newlines are tracked, nothing else.
StringChar ==
    /\ CharStep /\ lx.mode = "char" /\ InString
    /\ LET e  == Cur = "\\" /\ ~lx.esc
           l1 == [Consumed EXCEPT !.esc = e, !.wasEsc = @ \/ e]
       IN  lx' = IF Cur = "\n" THEN NewLine(l1) ELSE l1
    /\ UNCHANGED <<code, tstart, lastTerm>> /\ LexGoOn

\* '(': finalize the open term, enter an operation, start its name term.
OpenParen ==
    /\ CharStep /\ lx.mode = "char" /\ ~InString /\ Cur = "("
    /\ LET f  == FinalizeTerm(Consumed, abeg + 1)
           l2 == [f.l EXCEPT !.depth = @ + 1, !.ttype = "op", !.tbeg = abeg + 1]
       IN  /\ lx' = l2
           /\ Finalized(f)
           /\ tstart' = Abs(abeg + 1)
           /\ IF f.err = "" THEN LexGoOn ELSE LexFail(l2, f.err)

\* ')': finalize, LexerEndOp, leave the operation; with single_expr the
\* request ends when depth returns to 0.
CloseParen ==
    /\ CharStep /\ lx.mode = "char" /\ ~InString /\ Cur = ")"
    /\ LET f  == FinalizeTerm(Consumed, abeg + 1)
           ok == f.err = ""
           cd == code \o f.emit \o (IF ok THEN LexerEndOp.emit ELSE <<>>)
           l2 == [f.l EXCEPT !.depth = @ - 1]
       IN  /\ lx' = l2
           /\ code' = cd
           /\ lastTerm' = IF f.formed THEN [text |-> f.text, from |-> tstart, to |-> Abs(abeg) - 1]
                          ELSE lastTerm
           /\ CASE l2.depth < 0 -> LexFail(l2, "Redundant closing parenthesis")
                [] ~ok           -> LexFail(l2, f.err)
                [] l2.depth = 0  -> Build(cd)
                [] OTHER         -> LexGoOn
    /\ UNCHANGED tstart

\* '"': closes the open string, or finalizes the open term and opens one.
Quote ==
    /\ CharStep /\ lx.mode = "char" /\ ~InString /\ Cur = "\""
    /\ LET f == FinalizeTerm(Consumed, abeg + 1)
           opens == lx.ttype # "str" /\ f.err = ""
       IN  /\ lx' = IF opens THEN [f.l EXCEPT !.ttype = "str", !.tbeg = abeg + 1] ELSE f.l
           /\ tstart' = IF opens THEN Abs(abeg + 1) ELSE tstart
           /\ Finalized(f)
           /\ IF f.err = "" THEN LexGoOn ELSE LexFail(f.l, f.err)

\* ';': skip to the end of the line (CommentChar); the open term is kept.
CommentStart ==
    /\ CharStep /\ lx.mode = "char" /\ ~InString /\ Cur = ";"
    /\ lx' = [Consumed EXCEPT !.mode = "comment"]
    /\ UNCHANGED <<code, tstart, lastTerm>> /\ LexGoOn

\* '\n', ' ', '\t', '\r': finalize the open term.
Blank ==
    /\ CharStep /\ lx.mode = "char" /\ ~InString /\ Cur \in {"\n", " ", "\t", "\r"}
    /\ LET f == FinalizeTerm(IF Cur = "\n" THEN NewLine(Consumed) ELSE Consumed, abeg + 1)
       IN  /\ lx' = f.l
           /\ Finalized(f)
           /\ IF f.err = "" THEN LexGoOn ELSE LexFail(f.l, f.err)
    /\ UNCHANGED tstart

\* Any other byte starts a value term unless one is open.
TermChar ==
    /\ CharStep /\ lx.mode = "char" /\ ~InString
    /\ Cur \notin {"(", ")", "\"", ";", "!", "\n", " ", "\t", "\r"}
    /\ IF lx.tbeg = Null
       THEN lx' = [Consumed EXCEPT !.ttype = "value", !.tbeg = abeg] /\ tstart' = Abs(abeg)
       ELSE lx' = Consumed /\ UNCHANGED tstart
    /\ UNCHANGED <<code, lastTerm>> /\ LexGoOn

\* The comment loop: NextChar until '\n', then NewLine.
CommentChar ==
    /\ CharStep /\ lx.mode = "comment"
    /\ lx' = IF Cur = "\n" THEN NewLine([lx EXCEPT !.mode = "char", !.col = @ + 1])
             ELSE [lx EXCEPT !.col = @ + 1]
    /\ UNCHANGED <<code, tstart, lastTerm>> /\ LexGoOn

\* FinishTerm: the open term is dropped, not finalized.
FinishTerm(l) == [l EXCEPT !.ttype = "value", !.tbeg = Null, !.tbuf = <<>>]

\* '!': a custom payload; its token is read by PayloadChar.
PayloadStart ==
    /\ CharStep /\ lx.mode = "char" /\ ~InString /\ Cur = "!"
    /\ lx' = [Consumed EXCEPT !.mode = "payload", !.tok = <<>>]
    /\ UNCHANGED <<code, tstart, lastTerm>> /\ LexGoOn

\* The token loop: NextChar until '[' or a fifth byte.
PayloadChar ==
    /\ CharStep /\ lx.mode = "payload"
    /\ LET l1 == [lx EXCEPT !.col = @ + 1]
       IN  CASE Cur = "[" -> lx' = [l1 EXCEPT !.mode = "close"] /\ LexGoOn
             [] Len(lx.tok) < 4 -> lx' = [l1 EXCEPT !.tok = Append(@, Cur)] /\ LexGoOn
             [] OTHER -> /\ lx' = FinishTerm(l1)
                         /\ LexFail(l1, "Invalid openning tag for custom data")
    /\ UNCHANGED <<code, tstart, lastTerm>>

\* After '[': LexerCustomData (FindPayloadHandler, then ProcessPayload,
\* which reads nothing and fails), then NextChar must return ']'.
PayloadError(tok) ==
    IF tok \in PayloadTokens THEN "Not supported" ELSE "Unknown payload type"
PayloadClose ==
    /\ CharStep /\ lx.mode = "close"
    /\ LET l1 == [lx EXCEPT !.col = @ + 1]
       IN  /\ lx' = FinishTerm(l1)
           /\ LexFail(l1, IF Cur = "]" THEN PayloadError(lx.tok)
                          ELSE "No closing ] for custom data")
    /\ UNCHANGED <<code, tstart, lastTerm>>

(***************************************************************************)
(* NextChar with nothing available: RefillBuffer.  recv returns 1..BufSize *)
(* bytes into the start of the buffer, or reports the closed connection.   *)
(***************************************************************************)
\* Mutant: RefillAvailable not moving available_begin_ to the buffer start.
RefillKeepsBegin ==
    /\ pc = "lex" /\ abeg = aend /\ rpos < Len(in) /\ conn = "open"
    /\ \E n \in 1..BufSize :
         /\ n <= Len(in) - rpos
         /\ buf' = [o \in 0..BufSize-1 |-> IF o < n THEN in[rpos + o + 1] ELSE buf[o]]
         /\ rpos' = rpos + n
         /\ aend' = n
    /\ lx' = [lx EXCEPT !.tbuf = SavedTerm(aend), !.tbeg = IF lx.tbeg # Null THEN 0 ELSE Null]
    /\ UNCHANGED <<in, rerr, abeg, code, replies, tstart, lastTerm>> /\ LexGoOn
    /\ UNCHANGED WriterVars

\* StreamReader::RefillAvailable after a read of n bytes: they land at the
\* start of read_buf_, which is then available from 0 to n.
RefillAvailable(n) ==
    /\ buf' = [o \in 0..BufSize-1 |-> IF o < n THEN in[rpos + o + 1] ELSE buf[o]]
    /\ rpos' = rpos + n
    /\ abeg' = 0
    /\ aend' = n

Refill ==
    /\ pc = "lex" /\ abeg = aend /\ rpos < Len(in) /\ conn = "open"
    /\ \E n \in 1..BufSize : n <= Len(in) - rpos /\ RefillAvailable(n)
    /\ lx' = [lx EXCEPT !.tbuf = SavedTerm(aend), !.tbeg = IF lx.tbeg # Null THEN 0 ELSE Null]
    /\ UNCHANGED <<in, rerr, code, replies, tstart, lastTerm>> /\ LexGoOn
    /\ UNCHANGED WriterVars

\* TcpStream::DoRead's error: recv returning 0 is Closed, -1 is IOError.
DoReadError == IF conn = "reset" THEN "IOError" ELSE "Closed"

\* InStream::Read and OutStream::Write on an error: it is kept as the
\* stream's read_error_ or write_error_.
InStreamRead(e) == rerr' = e
OutStreamWrite(e) == werr' = e

\* IsInProgress: the error codes of a non-blocking socket to retry, EAGAIN
\* (EWOULDBLOCK on Linux) and EINPROGRESS.
IsInProgress(err) == err \in {11, 115}

\* StreamReader::IsGood and StreamWriter::IsGood: no error kept.
IsGood(e) == e = "None"

\* The read fails: recv returns 0 once the client has sent everything and
\* shut down, or an error once it has reset the connection (DoRead); the
\* stream records the error and NextChar returns k_lexer_invalid_char.  In the comment
\* loop that ends the comment, in the payload loops it fails the request,
\* in the main loop it ends Run.
ReadFails ==
    /\ pc = "lex" /\ abeg = aend /\ (rpos = Len(in) \/ conn # "open")
    /\ InStreamRead(DoReadError)
    /\ conn' = ErrorReported(conn)
    /\ LET l1 == [lx EXCEPT !.tbuf = SavedTerm(aend), !.tbeg = Null]
       IN  CASE lx.mode = "comment" ->
                lx' = NewLine([l1 EXCEPT !.mode = "char"]) /\ LexGoOn
             [] lx.mode = "payload" ->
                lx' = FinishTerm(l1) /\ LexFail(l1, "Invalid openning tag for custom data")
             [] lx.mode = "close" ->
                lx' = FinishTerm(l1) /\ LexFail(l1, "No closing ] for custom data")
             [] OTHER ->
                /\ lx' = l1
                /\ CASE l1.depth > 0     -> LexFail(l1, "Missing closing parenthesis")
                     [] l1.ttype = "str" -> LexFail(l1, "Invalid string literal - not closed")
                     [] OTHER            -> Build(code)
    /\ UNCHANGED <<in, rpos, buf, abeg, aend, code, replies, tstart, lastTerm>>
    /\ UNCHANGED <<werr, wq, wbuf, wsend, flushed, client>>

(***************************************************************************)
(* Program::Execute, one instruction per action.                           *)
(***************************************************************************)
IsBarrier(val) == val.t = "FrameBarrier"
\* The topmost FrameBarrier, 0 when the stack holds none.
FrameBase(s) == SelectLastInSeq(s, IsBarrier)
\* CallArgs: from the top of the stack down to the barrier.
CallArgs(s) == Reverse(SubSeq(s, FrameBase(s) + 1, Len(s)))
\* PurgeStackFrame: pop through the topmost barrier.
\* Mutant: PurgeStackFrame stopping above the barrier instead of popping it.
PurgeKeepsBarrier(s) == IF FrameBase(s) = 0 THEN s ELSE SubSeq(s, 1, FrameBase(s))
PurgeStackFrame(s) == IF FrameBase(s) = 0 THEN s ELSE SubSeq(s, 1, FrameBase(s) - 1)

ExecVars == <<in, rpos, rerr, buf, abeg, aend, lx, code, prog, replies, tstart, lastTerm,
             conn, werr, wq, wbuf, wsend, flushed, client>>

ExecPush ==
    /\ pc = "exec" /\ ip <= Len(prog) /\ prog[ip].op = "push"
    /\ stack' = Append(stack, prog[ip].val)
    /\ ip' = ip + 1
    /\ UNCHANGED <<pc, reply>> /\ UNCHANGED ExecVars

ExecCall ==
    /\ pc = "exec" /\ ip <= Len(prog) /\ prog[ip].op = "call"
    /\ LET r == HostCall(prog[ip].fn, CallArgs(stack))
       IN  IF r.ok
           THEN /\ stack' = PurgeStackFrame(stack) \o r.out
                /\ ip' = ip + 1
                /\ UNCHANGED <<pc, reply>>
           ELSE /\ reply' = [kind |-> "call_error", msg |-> r.msg]
                /\ pc' = "reply"
                /\ UNCHANGED <<stack, ip>>
    /\ UNCHANGED ExecVars

\* After the last instruction the residual stack is serialized.
ExecEnd ==
    /\ pc = "exec" /\ ip > Len(prog)
    /\ reply' = [kind |-> "values", vals |-> stack]
    /\ pc' = "reply"
    /\ UNCHANGED <<stack, ip>> /\ UNCHANGED ExecVars

(***************************************************************************)
(* JsonSerializer: a reply as the sequence of StreamWriter::Write calls it *)
(* makes, each the bytes it writes.  A diagnostic text (a message of the   *)
(* model) stands for itself as one byte.                                   *)
(***************************************************************************)
RECURSIVE Decimal(_)
\* StrBuilder << int64_t: the decimal digits of a natural number.
Decimal(n) == IF n < 10 THEN <<DigitSeq[n + 1]>>
              ELSE Decimal(n \div 10) \o <<DigitSeq[(n % 10) + 1]>>
IntText(v) == IF v < 0 THEN <<"-">> \o Decimal(-v) ELSE Decimal(v)

\* WriteEscapedString's switch for one byte: the escape it writes, or the
\* byte itself by Write(c).  '\\' takes the '"' case and writes \".
EscapeOf(c) ==
    CASE c \in {"\\", "\""} -> <<"\\", "\"">>
      [] c = "\t"           -> <<"\\", "t">>
      [] c = "\n"           -> <<"\\", "n">>
      [] c = "\r"           -> <<"\\", "r">>
      [] OTHER              -> <<c>>
StrWrites(s) == <<<<"\"">>>> \o [i \in DOMAIN s |-> EscapeOf(s[i])] \o <<<<"\"">>>>

\* WriteBasicValue, or WriteObject for the Field schema (no fields).  A
\* FrameBarrier matches no branch: XYAssert(0), or an empty write in release.
ValueWrites(x) ==
    CASE x.t \in {"int64", "int16"} -> <<IntText(x.v)>>
      [] x.t = "StrSpan"            -> StrWrites(x.v)
      [] x.t = "Field"              -> <<<<"{">>, <<"}">>>>
      [] OTHER                      -> <<>>

RECURSIVE ListWrites(_)
\* The values separated by ", ".
ListWrites(vals) ==
    IF Len(vals) <= 1 THEN FlattenSeq([i \in DOMAIN vals |-> ValueWrites(vals[i])])
    ELSE ValueWrites(Head(vals)) \o <<<<",", " ">>>> \o ListWrites(Tail(vals))

\* Serialize(Span<TypedValue>) or Serialize(StrSpan), then FinalizeWrite's '\n'.
ReplyWrites(r) ==
    IF r.kind = "values" THEN <<<<"[">>>> \o ListWrites(r.vals) \o <<<<"]">>, <<"\n">>>>
    ELSE StrWrites(<<r.msg>>) \o <<<<"\n">>>>

\* The bytes of the replies, as a client reading the connection sees them.
ReplyText(rs) == FlattenSeq([i \in DOMAIN rs |-> FlattenSeq(ReplyWrites(rs[i]))])

(***************************************************************************)
(* The ServeCommandMode loop: slang::Execute serializes the reply; the     *)
(* loop goes on while the reader and the writer are good.                  *)
(***************************************************************************)
Reply ==
    /\ pc = "reply" /\ Len(replies) < MaxReplies
    /\ replies' = Append(replies, reply)
    /\ wq' = SelectSeq(ReplyWrites(reply), LAMBDA w : w # <<>>)
    /\ flushed' = FALSE
    /\ lx' = LexInit
    /\ code' = <<>>
    /\ prog' = <<>>
    /\ ip' = 1
    /\ stack' = <<>>
    /\ pc' = "write"
    /\ UNCHANGED <<in, rpos, rerr, buf, abeg, aend, reply, tstart, lastTerm,
                   conn, werr, wbuf, wsend, client>>

WriteVars == <<in, rpos, rerr, buf, abeg, aend, lx, code, prog, ip, stack,
               reply, replies, tstart, lastTerm>>

\* Mutant: Flush sending the buffer without resetting written_size_.
WriteDataNoReset ==
    /\ pc = "write" /\ wsend = <<>> /\ wq # <<>>
    /\ LET w    == Head(wq)
           k    == IF Len(w) < OutSize - Len(wbuf) THEN Len(w) ELSE OutSize - Len(wbuf)
           rest == SubSeq(w, k + 1, Len(w))
       IN  IF rest = <<>>
           THEN wbuf' = wbuf \o w /\ wq' = Tail(wq) /\ UNCHANGED wsend
           ELSE /\ wsend' = wbuf \o SubSeq(w, 1, k)
                /\ wbuf' = wbuf \o SubSeq(w, 1, k)
                /\ wq' = <<rest>> \o Tail(wq)
    /\ UNCHANGED <<pc, conn, werr, flushed, client>> /\ UNCHANGED WriteVars

\* StreamWriter::WriteData of the next write: copy what fits into out_buf_;
\* when bytes remain, Flush the full buffer and keep the rest.
WriteData ==
    /\ pc = "write" /\ wsend = <<>> /\ wq # <<>>
    /\ LET w    == Head(wq)
           k    == IF Len(w) < OutSize - Len(wbuf) THEN Len(w) ELSE OutSize - Len(wbuf)
           rest == SubSeq(w, k + 1, Len(w))
       IN  IF rest = <<>>
           THEN wbuf' = wbuf \o w /\ wq' = Tail(wq) /\ UNCHANGED wsend
           ELSE /\ wsend' = wbuf \o SubSeq(w, 1, k)
                /\ wbuf' = <<>>
                /\ wq' = <<rest>> \o Tail(wq)
    /\ UNCHANGED <<pc, conn, werr, flushed, client>> /\ UNCHANGED WriteVars

\* FinalizeWrite: Flush what the buffer holds.
FinalFlush ==
    /\ pc = "write" /\ wsend = <<>> /\ wq = <<>> /\ ~flushed
    /\ wsend' = wbuf
    /\ wbuf' = <<>>
    /\ flushed' = TRUE
    /\ UNCHANGED <<pc, conn, werr, wq, client>> /\ UNCHANGED WriteVars

\* TcpStream::DoWrite: send accepts 1 to all of the remaining bytes.
Send ==
    /\ wsend # <<>> /\ conn = "open"
    /\ \E n \in 1..Len(wsend) :
         /\ client' = client \o SubSeq(wsend, 1, n)
         /\ wsend' = SubSeq(wsend, n + 1, Len(wsend))
    /\ UNCHANGED <<pc, conn, werr, wq, wbuf, flushed>> /\ UNCHANGED WriteVars

\* send returns -1: the peer reset the connection (ECONNRESET), or, were
\* the socket non-blocking, its buffer is full (EAGAIN), which
\* IsInProgress(sent) does not recognise; accept hands DoWrite a blocking
\* socket, so Faults holds "wouldblock" only to show that latent case.  DoWrite
\* returns IOError, write_error_ is set, and the WriteData that flushed
\* drops the rest of its write; JsonSerializer ignores that and goes on.
SendFails ==
    /\ wsend # <<>> /\ (conn = "reset" \/ (conn = "open" /\ "wouldblock" \in Faults))
    /\ LET sent == -1 IN ~IsInProgress(sent)
    /\ conn' = ErrorReported(conn)
    /\ OutStreamWrite("IOError")
    /\ wsend' = <<>>
    /\ wq' = IF flushed THEN wq ELSE Tail(wq)
    /\ UNCHANGED <<pc, wbuf, flushed, client>> /\ UNCHANGED WriteVars

\* send on a connection whose reset was already reported: the kernel
\* answers EPIPE and raises SIGPIPE, whose default action ends the process
\* (no MSG_NOSIGNAL in DoWrite, no SIGPIPE handler in SetupSignalHandlers).
SendPipe ==
    /\ wsend # <<>> /\ conn = "shut"
    /\ pc' = "killed"
    /\ UNCHANGED <<conn, werr, wq, wbuf, wsend, flushed, client>> /\ UNCHANGED WriteVars

\* Mutant: the loop not checking request_reader.IsGood().
EndWriteIgnoresReader ==
    /\ pc = "write" /\ flushed /\ wsend = <<>>
    /\ pc' = IF werr = "None" THEN "lex" ELSE "closed"
    /\ UNCHANGED <<conn, werr, wq, wbuf, wsend, flushed, client>> /\ UNCHANGED WriteVars

\* Execute has returned: the loop tests request_reader.IsGood() and
\* response_writer.IsGood(), and drops the connection when either failed.
EndWrite ==
    /\ pc = "write" /\ flushed /\ wsend = <<>>
    /\ pc' = IF IsGood(rerr) /\ IsGood(werr) THEN "lex" ELSE "closed"
    /\ UNCHANGED <<conn, werr, wq, wbuf, wsend, flushed, client>> /\ UNCHANGED WriteVars

\* The client resets the connection (RST): the socket holds ECONNRESET
\* until a recv or send reports it, and is shut down in both directions.
Reset ==
    /\ "reset" \in Faults /\ conn = "open" /\ pc \notin {"closed", "killed"}
    /\ conn' = "reset"
    /\ UNCHANGED <<pc, werr, wq, wbuf, wsend, flushed, client>> /\ UNCHANGED WriteVars

\* The endpoint has dropped the connection.
Closed == pc = "closed" /\ UNCHANGED vars

\* SIGPIPE has ended the process.
Killed == pc = "killed" /\ UNCHANGED vars

Next ==
    \/ StringChar \/ OpenParen \/ CloseParen \/ Quote \/ CommentStart
    \/ Blank \/ TermChar \/ CommentChar \/ PayloadStart \/ PayloadChar
    \/ PayloadClose \/ Refill \/ ReadFails
    \/ ExecPush \/ ExecCall \/ ExecEnd
    \/ Reply \/ WriteData \/ FinalFlush \/ Send \/ SendFails \/ SendPipe \/ EndWrite
    \/ Reset \/ Closed \/ Killed

\* One fiber serves the connection and runs whenever it has a step to take;
\* WaitEvent in DoRead and DoWrite returns once the socket is ready.
Spec == Init /\ [][Next]_vars /\ WF_vars(Next)

(***************************************************************************)
(* Properties.                                                             *)
(***************************************************************************)
IsValue(x) ==
    \/ x = Barrier
    \/ x.t \in {"int64", "int16"} /\ x.v \in Int
    \/ x.t \in {"StrSpan", "Field"} /\ x.v \in Seq(STRING)
IsInstr(x) == IF x.op = "push" THEN IsValue(x.val) ELSE x.fn \in DOMAIN FnNames
AllOf(s, P(_)) == \A i \in DOMAIN s : P(s[i])

TypeOK ==
    /\ rpos \in 0..Len(in)
    /\ rerr \in {"None", "Closed", "IOError"}
    /\ 0 <= abeg /\ abeg <= aend /\ aend <= BufSize
    /\ lx.depth \in -1..Len(in)
    /\ lx.tbeg \in {Null} \cup 0..BufSize
    /\ lx.ttype \in {"op", "value", "str"}
    /\ lx.mode \in {"char", "comment", "payload", "close"}
    /\ Len(lx.tok) <= 4
    /\ AllOf(code, IsInstr) /\ AllOf(prog, IsInstr) /\ AllOf(stack, IsValue)
    /\ ip \in 1..Len(prog) + 1
    /\ pc \in {"lex", "exec", "reply", "write", "closed", "killed"}
    /\ conn \in {"open", "reset", "shut"} /\ werr \in {"None", "IOError"}
    /\ Len(wbuf) <= OutSize /\ Len(wsend) <= OutSize /\ flushed \in BOOLEAN
    /\ Len(replies) <= MaxReplies

\* Streaming contract of the lexer (RefillBuffer, SaveTerm, Term): however
\* recv cuts the stream into chunks, and although every refill overwrites
\* the buffer the open term points into, the text of every term handed to
\* the Compiler is exactly the bytes the client sent for it.
TermTextIntact == lastTerm.text = SubSeq(in, lastTerm.from, lastTerm.to)

(***************************************************************************)
(* Reference: the recursive evaluation of the prefix code the Compiler     *)
(* emits (Call f, its arguments, FrameBarrier).  A call's arguments are    *)
(* its children's results in source order, each child's results reversed: *)
(* Execute appends a call's outputs in order and CallArgs reads them from  *)
(* the top of the stack down.                                              *)
(***************************************************************************)
RECURSIVE EvalItem(_, _), EvalArgs(_, _, _, _)
EvalItem(cd, i) ==
    IF cd[i].op = "push" THEN [ok |-> TRUE, vals |-> <<cd[i].val>>, next |-> i + 1]
    ELSE EvalArgs(cd, cd[i].fn, i + 1, <<>>)
EvalArgs(cd, f, j, acc) ==
    IF cd[j] = Push(Barrier)
    THEN LET r == HostCall(f, acc)
         IN  IF r.ok THEN [ok |-> TRUE, vals |-> r.out, next |-> j + 1]
             ELSE [ok |-> FALSE, msg |-> r.msg]
    ELSE LET r == EvalItem(cd, j)
         IN  IF r.ok THEN EvalArgs(cd, f, r.next, acc \o Reverse(r.vals)) ELSE r

TreeEval(cd) ==
    IF cd = <<>> THEN [kind |-> "values", vals |-> <<>>]
    ELSE LET r == EvalItem(cd, 1)
         IN  IF r.ok THEN [kind |-> "values", vals |-> r.vals]
             ELSE [kind |-> "call_error", msg |-> r.msg]

\* Every '(' that named a function emitted a Call (no "()" operation).
NoEmptyOp(cd) ==
    Cardinality({i \in DOMAIN cd : cd[i].op = "call"})
      = Cardinality({i \in DOMAIN cd : cd[i] = Push(Barrier)})

\* Compiler::Build's std::reverse and Program::Execute's stack discipline
\* (a frame from its FrameBarrier up, PurgeStackFrame, output appended to
\* the caller's frame) compute the recursive evaluation of the expression:
\* the reply of every executed request is TreeEval of its code.
ExecuteIsTreeEval ==
    (pc = "reply" /\ reply.kind \in {"values", "call_error"} /\ NoEmptyOp(code))
        => reply = TreeEval(code)

\* A FrameBarrier is a sentinel of the VM stack (spec 4.K): it is never
\* among the values the serializer is asked to write, where
\* JsonSerializer::WriteBasicValue has no case for it.
BarrierNeverSerialized ==
    \A i \in DOMAIN replies :
        replies[i].kind = "values" =>
            \A j \in DOMAIN replies[i].vals : ~IsBarrier(replies[i].vals[j])

\* The reply path (JsonSerializer's writes, StreamWriter's buffer and
\* flushes, DoWrite's partial sends): the client receives the JSON text of
\* the replies in order, with no byte lost, repeated or out of place, and
\* between requests, unless a send failed, all of it.
ReplyStreamIntact ==
    /\ IsPrefix(client, ReplyText(replies))
    /\ (pc \in {"lex", "closed"} /\ werr = "None") => client = ReplyText(replies)

\* Whether the client closes or resets the connection, ServeCommandMode
\* does not loop on it forever: it replies to what it received and leaves
\* the loop, or, when a reply is still being sent after the reset was
\* reported, SIGPIPE ends the process (the TcpServer model's sigpipe run).
ConnectionDrains == <>(pc \in {"closed", "killed"})

====
