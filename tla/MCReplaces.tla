----------------------------- MODULE MCReplaces -----------------------------
(* Replaces on every pair of go.mod replaces with at most one of go.work, a  *)
(* requirement or two, and an exclude: "v0.9" and v0.9.1 are one tag.        *)
EXTENDS Replaces

CONSTANTS a, b, c, dir, none, short, full, other, query

MCPath == {a, b, c}
MCText == {short, full, other, query}

(* short is a prefix of full; other is another tag of a only; query is       *)
(* "<=v0.9", which nothing resolves.                                         *)
MCTag ==
    [p \in MCPath |-> [v \in MCText |->
        CASE v \in {short, full} -> full
          [] v = other /\ p = a -> other
          [] OTHER -> none]]

Replace(old, oldVersion, new, newVersion) ==
    [old |-> old, oldVersion |-> oldVersion, new |-> new, newVersion |-> newVersion]
Require(path, version) == [path |-> path, version |-> version]

(* a replaced in general, at the tag, at its abbreviation, by a directory,   *)
(* by nothing that has a version; b replaced by c and by itself; c by itself *)
(* and by a directory.                                                       *)
Directives ==
    {Replace(a, none, b, full), Replace(a, none, dir, none), Replace(a, full, c, full),
     Replace(a, short, b, other), Replace(a, other, c, none),
     Replace(b, none, c, full), Replace(b, none, b, other), Replace(c, short, c, full),
     Replace(c, none, dir, none)}

Few == {<<>>} \cup {<<r>> : r \in Directives}
Pairs == Few \cup {<<r, s>> : r, s \in Directives}

Required == {<<Require(a, full)>>, <<Require(a, short), Require(b, full)>>,
             <<Require(a, full), Require(a, other)>>}
Excludes == {<<>>, <<Require(a, short)>>, <<Require(b, query), Require(a, other)>>}

MCFiles ==
    {[reqs |-> rs, excludes |-> es, gomod |-> m, gowork |-> w, inWorkspace |-> ws] :
        rs \in Required, es \in Excludes, m \in Pairs, w \in {<<>>}, ws \in BOOLEAN}
    \cup
    {[reqs |-> rs, excludes |-> <<>>, gomod |-> m, gowork |-> w, inWorkspace |-> TRUE] :
        rs \in Required, m \in Pairs, w \in Few}
=============================================================================
