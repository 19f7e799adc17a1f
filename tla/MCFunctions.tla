----------------------------- MODULE MCFunctions -----------------------------
(* The pure functions of the audit, each on every input of a small set:      *)
(* names over two letters, one also capital, or over one of them and a       *)
(* foreign one; paths and patterns over a letter, the wildcards and the      *)
(* slash; lists of tags in every order with every query and every failure;   *)
(* go versions around 1.23 to 1.25.                                          *)
EXTENDS AuditCalls

Texts(letters, n) == UNION {[1 .. k -> letters] : k \in 0 .. n}

(* Names.  The list is scaled down with the three limits: one name below the *)
(* minimum, a pair in reach of one another, a major suffix, a generic name,  *)
(* two of the same name.                                                     *)
owner == <<"o">>
other == <<"p">>
third == <<"q">>
MCLetter == {"a", "b", "B", "c", "o", "p", "q", "v", "0", "1", "2", "/", "*", "?"}
MCSmall == [B |-> "b"]
MCGeneric == {<<"b", "b">>}
MCPopular ==
    <<<<owner, <<"a">>>>, <<owner, <<"a", "b", "a">>>>, <<owner, <<"a", "b", "B", "b">>, <<"v", "2">>>>,
      <<owner, <<"b", "b">>>>, <<owner, <<"b", "a", "a", "b">>>>,
      <<third, <<"a", "B", "a">>>>>>
MCHomonyms ==
    <<<<owner, <<"a", "b", "a">>>>, <<other, <<"a", "b", "a">>>>, <<owner, <<"a">>>>>>

Suffixed(name) ==
    {<<other, name>>, <<other, name, <<"v", "2">>>>, <<other, name, <<"v", "1">>>>,
     <<other, name, <<"v", "0", "2">>>>}
MCNameInputs ==
    {[of |-> "name", path |-> p] :
        p \in Range(popularModules) \cup UNION {Suffixed(n) : n \in Texts({"a", "b", "B"}, 4) \cup Texts({"a", "c"}, 4)}}

MCForkInputs ==
    [of : {"fork"},
     path : {<<other, n>> : n \in {<<"a">>, <<"a", "b", "a">>, <<"a", "B", "a">>, <<"b", "b">>,
                                   <<"a", "b", "b", "b">>, <<"a", "a", "a">>}},
     old : {<<>>, <<other, <<"a", "a">>>>} \cup Range(popularModules),
     declared : SUBSET Range(popularModules)]

(* Patterns. *)
MCPatternInputs ==
    [of : {"pattern"}, path : Texts({"a", "b", "/"}, 4),
     parts : {<<p>> : p \in Texts({"a", "*", "?", "/"}, 3) \cup Texts({"a", "*", "/"}, 4)}
               \cup {<<p, <<>>, q>> : p, q \in Texts({"a", "/"}, 2)}]

(* Queries. *)
V(a, b, c) == [num |-> <<a, b, c>>, pre |-> 0]
Pre(v) == [v EXCEPT !.pre = @ + 1]
tip == Pre(V(0, 0, 0))
MCTags == {V(1, 0, 0), Pre(V(1, 1, 0)), Pre(Pre(V(1, 1, 0))), V(1, 1, 0), V(2, 0, 0)}
MCTargets ==
    {[num |-> <<1>>, pre |-> 0], [num |-> <<1, 1>>, pre |-> 0], V(1, 1, 0), Pre(V(1, 1, 0)),
     V(3, 0, 0)}
MCReleases == [num : {<<a, b, c>> : a, b, c \in 0 .. 3}, pre : {0}]
Proxies ==
    UNION {[tags : SetToSeqs(s), latest : IF \E v \in s : v.pre = 0 THEN {v \in s : v.pre = 0} ELSE {tip}] :
              s \in SUBSET MCTags}
MCQueryInputs ==
    [of : {"query"}, proxy : Proxies,
     query : [op : {"<", "<=", ">", ">="}, target : MCTargets]
               \cup [op : {""}, target : {v \in MCTargets : Len(v.num) = 3}]
               \cup [op : {"latest", "upgrade"}, target : {NoVersion}],
     failed : SUBSET {"latest", "list", "info"}]

(* Go versions. *)
Parts(n, s) == [n |-> n, suffix |-> s]
MCDeclared ==
    {[go |-> FALSE, parts |-> <<Parts(a, FALSE), Parts(b, s)>>] :
        a \in 1 .. 2, b \in {0, 22, 23, 24, 25}, s \in BOOLEAN}
      \cup {[go |-> FALSE, parts |-> <<Parts(1, FALSE), Parts(b, FALSE), Parts(c, FALSE)>>] :
              b \in 22 .. 25, c \in 0 .. 1}
      \cup {NoText, [go |-> FALSE, parts |-> <<Parts(1, FALSE)>>]}
MCLocal == {[v EXCEPT !.go = v # NoText] : v \in {w \in MCDeclared : Len(w.parts) # 1}}
MCGoInputs == [of : {"go"}, declared : MCDeclared, local : MCLocal]
=============================================================================
