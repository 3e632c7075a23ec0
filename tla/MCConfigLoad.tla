---------------------------- MODULE MCConfigLoad ----------------------------
(* Command lines and config files for ConfigLoad.                          *)
EXTENDS ConfigLoad

\* Tokens: (a, (b, (@include, (@locate, (@x, (, ), 1, yes, "inc", w, !
OA == Open(<<"a">>)
OB == Open(<<"b">>)
OInc == Open(<<"@include">>)
OLoc == Open(<<"@locate">>)
OUnk == Open(<<"@x">>)
OEmpty == Open(<<>>)
C == Close
N1 == IntTok(1)
Yes == NameTok(<<"yes">>)
SInc == StrTok(<<"inc">>)
Word == NameTok(<<"w">>)

\* Paths: ./cfg, /etc/cfg, ./inc, /etc/inc, ./xynqdb.conf.
Cfg == <<"cfg">>
EtcCfg == <<"etc", "cfg">>
Inc == <<"inc">>
EtcInc == <<"etc", "inc">>
MCDefaultPath == <<".", "xynqdb.conf">>
MCArgsPath == <<"n", "a">>

\* The included files: (a yes) (b 1), and (b yes).
IncDoc == <<OA, Yes, C, OB, N1, C>>
EtcIncDoc == <<OB, Yes, C>>

\* Command-line words.
Arg(flag, slash, path, key, clean, val) ==
    [flag |-> flag, slash |-> slash, path |-> path, key |-> key, clean |-> clean, val |-> val]
AConfig == Arg(TRUE, FALSE, <<"--config">>, <<>>, TRUE, NameTok(<<"--config">>))
ACfg    == Arg(FALSE, FALSE, Cfg, <<>>, TRUE, NameTok(Cfg))
AEtcCfg == Arg(FALSE, TRUE, EtcCfg, <<"etc/cfg">>, TRUE, NameTok(<<"/etc/cfg">>))
AKeyA   == Arg(FALSE, TRUE, <<"a">>, <<"a">>, TRUE, NameTok(<<"/a">>))
AKeyB   == Arg(FALSE, TRUE, <<"b">>, <<"b">>, TRUE, NameTok(<<"/b">>))
AKeyInc == Arg(FALSE, TRUE, <<"@include">>, <<"@include">>, TRUE, NameTok(<<"/@include">>))
ASlash  == Arg(FALSE, TRUE, <<>>, <<>>, TRUE, NameTok(<<"/">>))
AWord   == Arg(FALSE, FALSE, <<"w">>, <<>>, TRUE, Word)
AOne    == Arg(FALSE, FALSE, <<"1">>, <<>>, TRUE, N1)
AInc    == Arg(FALSE, FALSE, Inc, <<>>, TRUE, SInc)
ASpaced == Arg(FALSE, FALSE, <<"x y">>, <<>>, FALSE, NameTok(<<"x">>))

Files(cfgDoc) == [p \in {Cfg, Inc, EtcInc} |->
                    IF p = Cfg THEN cfgDoc ELSE IF p = Inc THEN IncDoc ELSE EtcIncDoc]

\* Every config text of up to five lexer calls over a, @include, @locate,
\* the empty op, ')', 1, "inc" and the bare word w.
Alphabet == {OA, OInc, OLoc, OEmpty, C, N1, SInc, Word}
ShortDocs == UNION {[1..n -> Alphabet] : n \in 0..5}

\* Longer texts: first value wins, nested keys, lists, @locate handing its
\* path up, @include of a located file, a list before a sub-key and after
\* one, an unknown directive, a payload.
LongDocs == {
    <<OA, N1, C, OA, Yes, C>>,
    <<OA, OB, N1, C, OB, Yes, C, C>>,
    <<OA, N1, Yes, C, OInc, SInc, C>>,
    <<OA, OLoc, SInc, C, C, OInc, OLoc, SInc, C, C>>,
    <<OInc, OLoc, SInc, C, C, OB, N1, C>>,
    <<OInc, SInc, N1, C>>,
    <<OA, OB, N1, C, N1, C>>,
    <<OA, OB, N1, C, OLoc, SInc, C, C>>,
    <<OUnk, OB, N1, C, C>>,
    <<OA, Custom, C>>,
    <<OB, OEmpty, N1, C, C>>,
    <<OA, N1, Word, C, OA, Yes, C>>,
    <<OA, OLoc, Word, C, C>>}

\* --config ./cfg with each text.
ParserStarts == {[argv |-> <<AConfig, ACfg>>, fs |-> Files(d)] : d \in ShortDocs \cup LongDocs}

\* LoadConfig's paths: the default file (present, absent, unparsable), two
\* --config files, key overrides, and each way the arguments are refused.
StartupStarts == {
    [argv |-> <<>>, fs |-> Files(<<OA, N1, C>>) @@ (MCDefaultPath :> <<OB, N1, C>>)],
    [argv |-> <<AKeyA, AOne>>, fs |-> Files(<<>>)],
    [argv |-> <<AKeyA, AWord, AConfig, ACfg>>, fs |-> Files(<<OA, N1, C>>)],
    [argv |-> <<>>, fs |-> Files(<<>>) @@ (MCDefaultPath :> <<N1>>)],
    [argv |-> <<AConfig, ACfg, AConfig, AInc, AKeyB, AInc>>, fs |-> Files(<<OA, N1, C>>)],
    [argv |-> <<AKeyA, AOne, AConfig, ACfg, AKeyA, AInc>>, fs |-> Files(<<OA, N1, N1, C>>)],
    [argv |-> <<AConfig, AEtcCfg>>, fs |-> Files(<<>>)],
    [argv |-> <<AConfig, AEtcCfg, AKeyB, AOne>>, fs |-> Files(<<>>) @@ (EtcCfg :> <<OA, N1, C>>)],
    [argv |-> <<AKeyInc, AInc>>, fs |-> Files(<<>>)],
    [argv |-> <<AKeyA>>, fs |-> Files(<<>>)],
    [argv |-> <<ASlash, AOne>>, fs |-> Files(<<>>)],
    [argv |-> <<AKeyA, ASpaced>>, fs |-> Files(<<>>)],
    [argv |-> <<AOne>>, fs |-> Files(<<>>)],
    [argv |-> <<AConfig>>, fs |-> Files(<<>>)],
    [argv |-> <<AConfig, AInc, AConfig, AOne>>, fs |-> Files(<<>>)]}

MCStarts == ParserStarts \cup StartupStarts

\* One start per way the loaded configuration departs from the intended
\* one: `xynqdb --config /etc/cfg` (an absolute path read again as a key);
\* no --config and ./xynqdb.conf holding (b 1) (the default file's Config
\* is dropped); /a w (a bare word loses its key); and /a 1 over the list
\* (a yes 1) (CloneNode keeps the old tail).
AbsolutePathStart == [argv |-> <<AConfig, AEtcCfg>>, fs |-> Files(<<>>) @@ (EtcCfg :> <<OA, N1, C>>)]
DefaultFileStart == [argv |-> <<>>, fs |-> Files(<<>>) @@ (MCDefaultPath :> <<OB, N1, C>>)]
BareWordStart == [argv |-> <<AKeyA, AWord>>, fs |-> Files(<<>>)]
ListOverrideStart == [argv |-> <<AConfig, ACfg, AKeyA, AOne>>, fs |-> Files(<<OA, Yes, N1, C>>)]
EffectiveStarts == {AbsolutePathStart, DefaultFileStart, BareWordStart, ListOverrideStart}
====
