---------------------------- MODULE MCSlangPipeline ----------------------------
(* Byte streams a client may send on one connection, as tuples of one-
 * character strings (the text each stands for is in its comment). *)
EXTENDS SlangPipeline

\* (list 12 (list 3 4))
NestedList ==
    <<"(", "l", "i", "s", "t", " ", "1", "2", " ", "(", "l", "i", "s", "t", " ", "3", " ", "4", ")", ")">>
\* (* 300 300)(- 1 2)
Arith ==
    <<"(", "*", " ", "3", "0", "0", " ", "3", "0", "0", ")", "(", "-", " ", "1", " ", "2", ")">>
\* (list "a\"b" :f)
Strings ==
    <<"(", "l", "i", "s", "t", " ", "\"", "a", "\\", "\"", "b", "\"", " ", ":", "f", ")">>
\* (+ 1;c\n 2)\n(list 5 ;c\n);z
Comments ==
    <<"(", "+", " ", "1", ";", "c", "\n", " ", "2", ")", "\n", "(", "l", "i", "s", "t", " ", "5", " ", ";", "c", "\n", ")", ";", "z">>
\* (foo 1) 2)
Resync ==
    <<"(", "f", "o", "o", " ", "1", ")", " ", "2", ")">>
\* (+ 1 a) y (+ 1
Errors ==
    <<"(", "+", " ", "1", " ", "a", ")", " ", "y", " ", "(", "+", " ", "1">>
\* (list 1)) "ab
Unclosed ==
    <<"(", "l", "i", "s", "t", " ", "1", ")", ")", " ", "\"", "a", "b">>
\* (9 1)
BadName ==
    <<"(", "9", " ", "1", ")">>
\* (list 1 () 2)
EmptyOp ==
    <<"(", "l", "i", "s", "t", " ", "1", " ", "(", ")", " ", "2", ")">>

\* (list 2 ![]) !abcdf!ab[y
Payloads ==
    <<"(", "l", "i", "s", "t", " ", "2", " ", "!", "[", "]", ")", " ", "!", "a", "b", "c", "d", "f", "!", "a", "b", "[", "y">>
\* (+ 1 !a
PayloadOpen ==
    <<"(", "+", " ", "1", " ", "!", "a">>
\* ![
PayloadUnclosed ==
    <<"!", "[">>

\* Requests that reach every lexer case, host function and error path.
RequestStreams == {NestedList, Arith, Strings, Comments, Resync, Errors, Unclosed, BadName,
                   Payloads, PayloadOpen, PayloadUnclosed}

\* An operation with no name inside a call.
EmptyOpStream == {EmptyOp}

\* One request whose reply, "[12, 4, 3]" and a newline, spans three flushes.
BlockingStream == {NestedList}
====
