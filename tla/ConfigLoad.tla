----------------------------- MODULE ConfigLoad -----------------------------
(***************************************************************************)
(* Start-up configuration (main.cc LoadConfig and config/config.cc): the   *)
(* --config files, or ./xynqdb.conf when none is given, are each loaded by *)
(* Config::LoadFromFile and merged into the result, then the /key value    *)
(* pairs of the command line are turned into "(key value)" lines by        *)
(* Config::LoadFromArgs and merged over it.                                *)
(*                                                                         *)
(* A config text is read by the slang Lexer, whose handler is ConfigParser. *)
(* The lexer itself is modelled character by character in SlangPipeline;  *)
(* here a text is the sequence of handler calls the lexer makes for it (a  *)
(* token per call: an operation name after '(', a ')', a value term, a     *)
(* string, a custom payload), with the lexer's own depth checks.  An       *)
(* @include loads another file with a nested LoadFromFile (a stack of      *)
(* parser frames) and merges its map into the including one.               *)
(*                                                                         *)
(* Names are sequences of atoms: a key segment "a.b" is <<"a", "b">>, so   *)
(* the joined key of (a (b 1)) and of (a.b 1) is the same, as in the code. *)
(* Strings and paths are sequences of atoms too: a path's last atom is its *)
(* file name.                                                              *)
(***************************************************************************)
EXTENDS Naturals, Sequences, SequencesExt, FiniteSets, TLC

CONSTANTS
    Starts,       \* the command lines and file systems to start from:
                  \* records [argv |-> <<Arg, ...>>, fs |-> [Path -> Tokens]]
    DefaultPath,  \* "./xynqdb.conf"
    ArgsPath      \* the name of the stream LoadFromArgs parses ("n/a")

\* The handler calls of the lexer (Lexer::FinalizeTerm and Run's cases).
Open(k)  == [tk |-> "open", k |-> k]     \* '(' and its op term; <<>> if empty
Close    == [tk |-> "close"]
IntTok(n) == [tk |-> "int", n |-> n]     \* a term LexerParseInt64 accepts
NameTok(s) == [tk |-> "name", v |-> s]   \* any other value term
StrTok(s)  == [tk |-> "str", v |-> s]    \* a "..." literal
Custom   == [tk |-> "custom"]            \* a '!' payload
ValueToks == {"int", "name", "str"}

Directives == {"@include", "@locate", "@x"}   \* op names starting with '@'
None == [none |-> TRUE]

\* A list node whose value was never set (std::monostate, index 0).
NoValue == [t |-> "none"]

\* The nodes ConfigParser::LexerIntValue, LexerUnhandledValue and
\* LexerStrValue append for a term: yes/Yes and no/No become booleans; any
\* other bare term takes a node in LexerUnhandledValue, is left unset
\* there, and is appended again as a string by LexerStrValue.
ValueOf(t) ==
    CASE t.tk = "int" -> <<[t |-> "int", v |-> t.n]>>
      [] t.tk = "name" /\ t.v \in {<<"yes">>, <<"Yes">>} -> <<[t |-> "bool", v |-> TRUE]>>
      [] t.tk = "name" /\ t.v \in {<<"no">>, <<"No">>} -> <<[t |-> "bool", v |-> FALSE]>>
      [] t.tk = "name" -> <<NoValue, [t |-> "str", v |-> t.v]>>
      [] OTHER -> <<[t |-> "str", v |-> t.v]>>

\* LexerEndOp stores a list only if its head node holds a value.
Stored(vs) == vs # <<>> /\ vs[1] # NoValue

\* fileutils::ReplaceFilename: the directory of the source path, then the name.
ReplaceFilename(path, name) ==
    IF path \in {<<".">>, <<"~">>, <<"..">>} THEN path \o name ELSE Front(path) \o name

\* The map key of an operation path: its segments joined with '.'.
JoinKey(key) == FlattenSeq(key)

\* config_map_.emplace: a key already present keeps its first value list.
Emplace(m, k, vs) == IF k \in DOMAIN m THEN m ELSE m @@ (k :> vs)

\* ConfigValueNode::CloneNode into the node insert() found or made: the
\* new values overwrite the list from its head; only when there is more
\* than one value is the old tail replaced.
CloneNode(old, new) == IF Len(new) = 1 /\ old # <<>> THEN new \o Tail(old) ELSE new

\* Config::MergeValues(left, right).
MergeValues(left, right) ==
    [k \in DOMAIN left \cup DOMAIN right |->
        IF k \in DOMAIN right
        THEN CloneNode(IF k \in DOMAIN left THEN left[k] ELSE <<>>, right[k])
        ELSE left[k]]

\* Config::LoadFromArgs and MakeSlangExprFromArgs: every argument starting
\* with '/' is a key and the next one its value; CheckArg refuses an empty
\* or spaced word.  An argument is a record: flag (--config or -c), slash
\* (starts with '/'), path (the file it names), key (the op name after the
\* '/'), clean (CheckArg holds), val (the lexer's token for it).
\* MakeSlangExprFromArgs: "(key value)\n".
ArgExpr(key, val) == <<Open(key), val, Close>>

RECURSIVE ArgsText(_)
ArgsText(as) ==
    IF as = <<>> THEN [ok |-> TRUE, toks |-> <<>>]
    ELSE IF ~as[1].slash THEN ArgsText(Tail(as))
    ELSE IF as[1].key = <<>> \/ Len(as) = 1 \/ ~(as[1].clean /\ as[2].clean)
         THEN [ok |-> FALSE, toks |-> <<>>]
    ELSE LET rest == ArgsText(SubSeq(as, 3, Len(as)))
         IN [ok |-> rest.ok,
             toks |-> ArgExpr(as[1].key, as[2].val) \o rest.toks]

VARIABLES
    argv,    \* the command line (without the program name)
    fs,      \* the files: path -> tokens
    stage,   \* where LoadConfig is
    i,       \* LoadConfig's argv index
    found,   \* config_file_found
    result,  \* LoadConfig's Config (its map)
    frames,  \* the ConfigParser/Lexer of each nested LoadFromStream
    ret      \* the LoadResult of the last LoadFromFile/LoadFromArgs

vars == <<argv, fs, stage, i, found, result, frames, ret>>

\* A parser on a text: lexer position and op_depth_, ConfigParser's
\* cur_key_ (as its segments), the value list, is_nested_list_, the map,
\* and the @include values still to load while its EndOp runs.
NewFrame(path, toks) ==
    [path |-> path, toks |-> toks, pos |-> 1, depth |-> 0, key |-> <<>>,
     vals |-> <<>>, nested |-> FALSE, cmap |-> <<>>, incl |-> FALSE, pend |-> <<>>]

Top == frames[Len(frames)]
SetTop(f) == frames' = [frames EXCEPT ![Len(frames)] = f]
Tok == Top.toks[Top.pos]
Loading == stage \in {"file", "dflt", "argsload"} /\ frames # <<>>
Reading == Loading /\ ~Top.incl /\ Top.pos <= Len(Top.toks)

\* Config::LoadFromFile: FileNotFound when the file cannot be opened.
StartLoad(path) ==
    IF path \in DOMAIN fs
    THEN frames' = <<NewFrame(path, fs[path])>> /\ ret' = None
    ELSE /\ frames' = <<>>
         /\ ret' = [ok |-> FALSE, err |-> "FileNotFound", map |-> <<>>,
                   path |-> path, text |-> <<>>]

\* A handler or lexer error: Run returns it, LoadFromStream returns
\* SyntaxError, and each including parser fails its @include with it.
Fail == /\ frames' = <<>>
        /\ ret' = [ok |-> FALSE, err |-> "SyntaxError", map |-> <<>>,
                  path |-> frames[1].path, text |-> frames[1].toks]
        /\ UNCHANGED <<argv, fs, stage, i, found, result>>

LoadVars == <<argv, fs, stage, i, found, result>>

\* Run's '(' case and FinalizeTerm of the op term after it: LexerBeginOp,
\* unless the term is empty ("()" or "( a"), which only deepens the lexer.
\* ConfigParser::LexerBeginOp refuses a key once the list has values.
OpenOp ==
    /\ Reading /\ Tok.tk = "open"
    /\ IF Tok.k # <<>> /\ Top.vals # <<>>
       THEN Fail
       ELSE /\ SetTop([Top EXCEPT !.pos = @ + 1, !.depth = @ + 1,
                        !.key = IF Tok.k = <<>> THEN @ ELSE Append(@, Tok.k),
                        !.nested = IF Tok.k = <<>> THEN @ ELSE FALSE])
            /\ UNCHANGED <<LoadVars, ret>>

\* The key popped at the end of LexerEndOp, with is_nested_list_ set when
\* an enclosing key remains, and Run's --op_depth_.  (The lexer's
\* "Redundant closing parenthesis" cannot follow a successful EndOp: the
\* key is never longer than the depth.)
PopKeyKeepsNested(f) == [f EXCEPT !.pos = @ + 1, !.depth = @ - 1, !.key = Front(@)]

PopKey(f) == [f EXCEPT !.pos = @ + 1, !.depth = @ - 1, !.key = Front(@),
                       !.nested = Len(f.key) > 1]

\* Run's ')' case: ConfigParser::LexerEndOp.  "No key" on an empty key;
\* @locate replaces each string by the path next to the current file and
\* leaves the list to the enclosing key; @include, at top level only,
\* loads each value in turn (IncludeNext); another '@' name is an unknown
\* directive; any other key with values is stored, the first time only.
\* The loop over the list starts at its head, so an empty @locate or
\* @include list fails the string check.
CloseOp ==
    /\ Reading /\ Tok.tk = "close"
    /\ LET f == Top
           op == Last(f.key)
           allStr == f.vals # <<>> /\ \A j \in DOMAIN f.vals : f.vals[j].t = "str"
       IN IF f.key = <<>> THEN Fail
          ELSE IF op = <<"@locate">>
          THEN IF ~allStr THEN Fail
               ELSE /\ SetTop([PopKey(f) EXCEPT !.vals =
                          [j \in DOMAIN f.vals |->
                              [t |-> "str", v |-> ReplaceFilename(f.path, f.vals[j].v)]]])
                    /\ UNCHANGED <<LoadVars, ret>>
          ELSE IF op = <<"@include">>
          THEN IF Len(f.key) > 1 \/ f.vals = <<>> THEN Fail
               ELSE /\ SetTop([f EXCEPT !.incl = TRUE, !.pend = f.vals])
                    /\ UNCHANGED <<LoadVars, ret>>
          ELSE IF op[1] \in Directives THEN Fail
          ELSE /\ SetTop([PopKey(f) EXCEPT !.vals = <<>>,
                          !.cmap = IF Stored(f.vals) THEN Emplace(@, JoinKey(f.key), f.vals)
                                   ELSE @])
               /\ UNCHANGED <<LoadVars, ret>>

\* One turn of the @include loop: a value that is not a string fails the
\* directive, otherwise Config::LoadFromFile loads it in a nested parser
\* (a missing file fails it too: "Failed to load config").
IncludeNext ==
    /\ Loading /\ Top.incl /\ Top.pend # <<>>
    /\ LET v == Head(Top.pend)
       IN IF v.t # "str" \/ v.v \notin DOMAIN fs THEN Fail
          ELSE /\ frames' = Append(frames, NewFrame(v.v, fs[v.v]))
               /\ UNCHANGED <<LoadVars, ret>>

IncludeEndKeepsKey ==
    /\ Loading /\ Top.incl /\ Top.pend = <<>>
    /\ SetTop([Top EXCEPT !.incl = FALSE, !.vals = <<>>, !.pos = @ + 1, !.depth = @ - 1])
    /\ UNCHANGED <<LoadVars, ret>>

\* The @include loop is done: its values are dropped and the key popped.
IncludeEnd ==
    /\ Loading /\ Top.incl /\ Top.pend = <<>>
    /\ SetTop([PopKey(Top) EXCEPT !.incl = FALSE, !.vals = <<>>])
    /\ UNCHANGED <<LoadVars, ret>>

\* FinalizeTerm on a value or string term: "Expected opening bracket" at
\* depth 0; ConfigParser refuses a value after a nested key ("Nested lists
\* are not allowed"), and otherwise appends it to the list (AddValue).
ValueTerm ==
    /\ Reading /\ Tok.tk \in ValueToks
    /\ IF Top.depth = 0 \/ Top.nested THEN Fail
       ELSE /\ SetTop([Top EXCEPT !.pos = @ + 1, !.vals = @ \o ValueOf(Tok)])
            /\ UNCHANGED <<LoadVars, ret>>

\* ConfigParser::LexerCustomData: "No custom data is allowed in config".
CustomData == Reading /\ Tok.tk = "custom" /\ Fail

\* End of the text: "Missing closing parenthesis" if an operation is open;
\* otherwise LoadFromStream returns the map.  A nested load returns to the
\* @include loop of its parent, which merges the map into its own
\* (Config::MergeValues) and goes on with the next value.
EndOfText ==
    /\ Loading /\ ~Top.incl /\ Top.pos > Len(Top.toks)
    /\ IF Top.depth > 0 THEN Fail
       ELSE IF Len(frames) = 1
       THEN /\ frames' = <<>>
            /\ ret' = [ok |-> TRUE, err |-> "None", map |-> Top.cmap,
                      path |-> Top.path, text |-> Top.toks]
            /\ UNCHANGED LoadVars
       ELSE /\ frames' = [j \in 1..Len(frames) - 1 |->
                            IF j < Len(frames) - 1 THEN frames[j]
                            ELSE [frames[j] EXCEPT !.cmap = MergeValues(@, Top.cmap),
                                                   !.pend = Tail(@)]]
            /\ UNCHANGED <<LoadVars, ret>>

-----------------------------------------------------------------------------
(* LoadConfig (main.cc).                                                   *)

Init ==
    /\ \E s \in Starts : argv = s.argv /\ fs = s.fs
    /\ stage = "scan" /\ i = 1 /\ found = FALSE /\ result = <<>>
    /\ frames = <<>> /\ ret = None

\* "--config" or "-c": the next argument is loaded as a config file;
\* InvalidArgs when there is none.
ConfigFlag ==
    /\ stage = "scan" /\ i <= Len(argv) /\ argv[i].flag
    /\ IF i + 1 > Len(argv)
       THEN stage' = "failed" /\ UNCHANGED <<frames, ret>>
       ELSE stage' = "file" /\ StartLoad(argv[i + 1].path)
    /\ UNCHANGED <<argv, fs, i, found, result>>

\* A "/key": it and its value are left to LoadFromArgs.
SkipPair ==
    /\ stage = "scan" /\ i <= Len(argv) /\ ~argv[i].flag /\ argv[i].slash
    /\ i' = i + 2
    /\ UNCHANGED <<argv, fs, stage, found, result, frames, ret>>

\* Anything else: "Unknown argument", InvalidArgs.
UnknownArg ==
    /\ stage = "scan" /\ i <= Len(argv) /\ ~argv[i].flag /\ ~argv[i].slash
    /\ stage' = "failed"
    /\ UNCHANGED <<argv, fs, i, found, result, frames, ret>>

\* The file is merged into the result (Config::Merge); a failed load is
\* returned as LoadConfig's error.
FileLoaded ==
    /\ stage = "file" /\ ret # None
    /\ IF ret.ok
       THEN /\ result' = MergeValues(result, ret.map)
            /\ found' = TRUE /\ i' = i + 2 /\ stage' = "scan"
       ELSE stage' = "failed" /\ UNCHANGED <<result, found, i>>
    /\ ret' = None
    /\ UNCHANGED <<argv, fs, frames>>

\* The end of the arguments: without a --config the default file is tried.
ScanDone ==
    /\ stage = "scan" /\ i > Len(argv)
    /\ stage' = IF found THEN "args" ELSE "default"
    /\ UNCHANGED <<argv, fs, i, found, result, frames, ret>>

LoadDefault ==
    /\ stage = "default"
    /\ stage' = "dflt" /\ StartLoad(DefaultPath)
    /\ UNCHANGED <<argv, fs, i, found, result>>

\* A missing default file means defaults; another error is returned.  The
\* Config loaded from the default file goes out of scope here: nothing
\* merges it into the result.
DefaultLoaded ==
    /\ stage = "dflt" /\ ret # None
    /\ stage' = IF ret.ok \/ ret.err = "FileNotFound" THEN "args" ELSE "failed"
    /\ ret' = None
    /\ UNCHANGED <<argv, fs, i, found, result, frames>>

\* Config::LoadFromArgs(argc - 1, argv + 1) over the whole command line,
\* parsed with LoadFromBuffer.
LoadArgs ==
    /\ stage = "args"
    /\ LET r == ArgsText(argv)
       IN IF ~r.ok
          THEN stage' = "failed" /\ UNCHANGED frames
          ELSE stage' = "argsload" /\ frames' = <<NewFrame(ArgsPath, r.toks)>>
    /\ UNCHANGED <<argv, fs, i, found, result, ret>>

ArgsLoaded ==
    /\ stage = "argsload" /\ ret # None
    /\ IF ret.ok
       THEN result' = MergeValues(result, ret.map) /\ stage' = "done"
       ELSE stage' = "failed" /\ UNCHANGED result
    /\ ret' = None
    /\ UNCHANGED <<argv, fs, i, found, frames>>

Next ==
    \/ OpenOp \/ CloseOp \/ IncludeNext \/ IncludeEnd \/ ValueTerm
    \/ CustomData \/ EndOfText
    \/ ConfigFlag \/ SkipPair \/ UnknownArg \/ FileLoaded \/ ScanDone
    \/ LoadDefault \/ DefaultLoaded \/ LoadArgs \/ ArgsLoaded

\* LoadConfig runs on the main thread before anything else starts.
Spec == Init /\ [][Next]_vars /\ WF_vars(Next)

-----------------------------------------------------------------------------
(* Reference: what a config text means, read off its bracket tree.         *)

\* The items of a token sequence up to its first unmatched ')': value,
\* string and payload tokens, and groups [op, body, closed]; rest starts at
\* that ')' or is empty.
RECURSIVE Group(_)
Group(ts) ==
    IF ts = <<>> \/ ts[1].tk = "close" THEN [items |-> <<>>, rest |-> ts]
    ELSE IF ts[1].tk # "open"
    THEN LET after == Group(Tail(ts))
         IN [items |-> <<ts[1]>> \o after.items, rest |-> after.rest]
    ELSE LET inner == Group(Tail(ts))
             closed == inner.rest # <<>>
             after == IF closed THEN Group(Tail(inner.rest)) ELSE [items |-> <<>>, rest |-> <<>>]
         IN [items |-> <<[tk |-> "group", op |-> ts[1].k, body |-> inner.items,
                          closed |-> closed]>> \o after.items,
             rest |-> after.rest]

Err == [ok |-> FALSE, map |-> <<>>, vals |-> <<>>, nested |-> FALSE]

\* RefDoc: the map of the text at path p, or an error.  Top-level items
\* must be closed groups; inside a key, values and sub-keys do not mix: a
\* sub-key after a value, or a value after a sub-key, is an error.  A key
\* with values gets them unless an earlier one of the same name did; an
\* @locate group hands its strings, resolved next to p, to its enclosing
\* key; a top-level @include merges each file's map in turn.  Any empty
\* operation "()" is an error (its ')' ends the enclosing key early, so an
\* outer ')' finds no key).
RECURSIVE RefDoc(_, _, _), RefItems(_, _, _, _, _), RefEntry(_, _, _, _, _),
          RefInclude(_, _, _)
RefDoc(fsys, p, toks) ==
    LET g == Group(toks)
    IN IF g.rest # <<>> THEN Err
       ELSE RefItems(fsys, p, <<>>, g.items,
                     [ok |-> TRUE, map |-> <<>>, vals |-> <<>>, nested |-> FALSE])

RefItems(fsys, p, key, items, st) ==
    IF ~st.ok \/ items = <<>> THEN st
    ELSE LET it == items[1]
             next ==
                CASE it.tk \in ValueToks ->
                        IF key = <<>> \/ st.nested THEN Err
                        ELSE [st EXCEPT !.vals = @ \o ValueOf(it)]
                  [] it.tk = "group" ->
                        IF ~it.closed \/ it.op = <<>> \/ st.vals # <<>> THEN Err
                        ELSE LET e == RefEntry(fsys, p, Append(key, it.op), it.body, st.map)
                             IN IF ~e.ok THEN Err
                                ELSE [ok |-> TRUE, map |-> e.map, vals |-> e.vals,
                                      nested |-> key # <<>>]
                  [] OTHER -> Err
         IN RefItems(fsys, p, key, Tail(items), next)

RefEntry(fsys, p, key, body, m) ==
    LET r == RefItems(fsys, p, key, body,
                      [ok |-> TRUE, map |-> m, vals |-> <<>>, nested |-> FALSE])
        op == Last(key)
        strings == r.vals # <<>> /\ \A j \in DOMAIN r.vals : r.vals[j].t = "str"
    IN CASE ~r.ok -> Err
         [] op = <<"@locate">> ->
                IF ~strings THEN Err
                ELSE [r EXCEPT !.vals = [j \in DOMAIN r.vals |->
                                 [t |-> "str", v |-> ReplaceFilename(p, r.vals[j].v)]]]
         [] op = <<"@include">> ->
                IF Len(key) > 1 \/ r.vals = <<>> THEN Err
                ELSE RefInclude(fsys, r.vals, r.map)
         [] op[1] \in Directives -> Err
         [] OTHER ->
                [r EXCEPT !.vals = <<>>,
                          !.map = IF Stored(r.vals) THEN Emplace(@, JoinKey(key), r.vals) ELSE @]

RefInclude(fsys, vs, m) ==
    IF vs = <<>> THEN [ok |-> TRUE, map |-> m, vals |-> <<>>, nested |-> FALSE]
    ELSE IF vs[1].t # "str" \/ vs[1].v \notin DOMAIN fsys THEN Err
    ELSE LET d == RefDoc(fsys, vs[1].v, fsys[vs[1].v])
         IN IF ~d.ok THEN Err ELSE RefInclude(fsys, Tail(vs), MergeValues(m, d.map))

-----------------------------------------------------------------------------
(* Properties.                                                             *)

Stages == {"scan", "file", "default", "dflt", "args", "argsload", "done", "failed"}

\* Types, and that the parser's key is never longer than the lexer's depth
\* (every key segment was pushed by a '(' whose ')' has not come), which is
\* why LexerEndOp never runs into the lexer's "Redundant closing
\* parenthesis" check.
TypeOK ==
    /\ stage \in Stages
    /\ i \in 1..Len(argv) + 2
    /\ found \in BOOLEAN
    /\ ret = None \/ (ret.ok \in BOOLEAN /\ ret.err \in {"None", "FileNotFound", "SyntaxError"})
    /\ \A j \in DOMAIN frames :
          /\ frames[j].pos \in 1..Len(frames[j].toks) + 1
          /\ Len(frames[j].key) <= frames[j].depth
          /\ frames[j].incl => frames[j].key # <<>>

\* Every LoadFromStream that returns, of a --config file, of the default
\* file or of the command-line text, returns what the bracket tree of its
\* text means (RefDoc), included files and all: the parser's key stack,
\* is_nested_list_, value list and @include loop, driven one lexer call at
\* a time, compute the same map and fail on the same texts.
LoadIsTreeMeaning ==
    ret # None /\ ret.err # "FileNotFound" =>
        LET d == RefDoc(fs, ret.path, ret.text)
        IN /\ ret.ok = d.ok
           /\ ret.ok => ret.map = d.map

\* The value a term stands for: for a bare word, the string LexerStrValue
\* is called with.
Meant(t) == Last(ValueOf(t))

\* The command line as LoadConfig's loop reads it: the --config files in
\* order and the /key value pairs; ok unless an argument is unknown, a
\* flag or key has nothing after it, or a pair is one LoadFromArgs refuses.
RECURSIVE ScanOf(_)
ScanOf(as) ==
    LET bad == [ok |-> FALSE, files |-> <<>>, pairs |-> <<>>]
        rest == ScanOf(SubSeq(as, 3, Len(as)))
    IN CASE as = <<>> -> [ok |-> TRUE, files |-> <<>>, pairs |-> <<>>]
         [] Len(as) = 1 \/ ~(as[1].flag \/ as[1].slash) -> bad
         [] as[1].flag -> [rest EXCEPT !.files = <<as[2].path>> \o @]
         [] as[1].key = <<>> \/ as[1].key[1] \in Directives
            \/ ~(as[1].clean /\ as[2].clean) \/ as[2].val.tk \notin ValueToks -> bad
         [] OTHER -> [rest EXCEPT !.pairs = <<[key |-> <<as[1].key>>, val |-> Meant(as[2].val)]>> \o @]

\* A later source's values for a key replace the earlier ones.
Overlay(l, r) == [k \in DOMAIN l \cup DOMAIN r |-> IF k \in DOMAIN r THEN r[k] ELSE l[k]]

\* The configuration the server should start with: the --config files in
\* order, or ./xynqdb.conf if there is none, each overriding the ones
\* before, then the command-line pairs (the first of a repeated key, as
\* in one config text) overriding them all.
Intended ==
    LET sc == ScanOf(argv)
        sources == IF sc.files # <<>> THEN sc.files
                   ELSE IF DefaultPath \in DOMAIN fs THEN <<DefaultPath>> ELSE <<>>
        fileMap == FoldLeft(LAMBDA m, p : Overlay(m, RefDoc(fs, p, fs[p]).map), <<>>, sources)
        argMap == FoldLeft(LAMBDA m, pr : Emplace(m, JoinKey(pr.key), <<pr.val>>), <<>>, sc.pairs)
    IN [valid |-> sc.ok /\ \A j \in DOMAIN sources :
                      sources[j] \in DOMAIN fs /\ RefDoc(fs, sources[j], fs[sources[j]]).ok,
        map |-> Overlay(fileMap, argMap)]

\* LoadConfig (main.cc: "if some config file was loaded before - these
\* will override them"; ConfigTest.Merge): on a valid command line whose
\* files all parse, start-up succeeds with the files' settings, later
\* files and then the command line overriding earlier values.
EffectiveConfig ==
    stage \in {"done", "failed"} /\ Intended.valid =>
        stage = "done" /\ result = Intended.map
====
