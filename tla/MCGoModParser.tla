---------------------------- MODULE MCGoModParser ----------------------------
(* GoModParser on every go.mod and go.work of a few lines.                   *)
EXTENDS GoModParser

Common == {<<>>, <<")">>, <<"/*">>, <<"tool", "overlong">>, <<"path", "=>", "path">>,
           <<"go", "version">>, <<"go">>, <<"go", "(">>, <<"replace", "(">>,
           <<"replace", "path", "=>", "path">>}

ModLines == Common \cup
    {<<"module", "path">>, <<"toolchain", "unclosed">>, <<"typo", "(">>, <<"require", "(">>,
     <<"path", "version">>, <<"require", "path">>, <<"ignore", "(">>, <<"ignore", "path">>,
     <<"godebug", "(">>, <<"k=v">>, <<"retract", "[v, v]">>, <<"tool", "stray-quote">>,
     <<"module", "(">>, <<"tool", "(">>, <<"exclude", "path", "version">>}

WorkLines == Common \cup
    {<<"use", "(">>, <<"path">>, <<"use", "path">>, <<"use", "unclosed">>,
     <<"use", "=>", "path">>, <<"tool">>, <<"tool", "path">>, <<"godebug", "k=v">>,
     <<"ignore", "path">>, <<"toolchain", "(">>, <<"godebug", "(">>}

MCLines == [k \in {"go.mod", "go.work"} |-> IF k = "go.mod" THEN ModLines ELSE WorkLines]
=============================================================================
