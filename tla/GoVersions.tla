----------------------------- MODULE GoVersions -----------------------------
(* The checks that compare the go version a file declares with the toolchain *)
(* that will run it (goVersionAtLeast, src/gomod.go; checkGoVersion-         *)
(* Unsatisfiable and the four ...TooOld checks, src/check.go).               *)
(*                                                                           *)
(* A version text is what its dots cut it into, at most three parts.  A part *)
(* is a number, or a number with a suffix ("26rc1"), which strconv.Atoi      *)
(* does not read; the toolchain's text begins with "go".                     *)
EXTENDS Integers, Sequences, FiniteSets

NoText == [go |-> FALSE, parts |-> <<>>]

Number(part) == ~part.suffix        \* strconv.Atoi reads it

\* mutant: the two numbers compared on their own
goVersionAtLeastApart(version, major, minor) ==
    /\ Len(version.parts) >= 2 /\ Number(version.parts[1]) /\ Number(version.parts[2])
    /\ version.parts[1].n >= major /\ version.parts[2].n >= minor

goVersionAtLeast(version, major, minor) ==
    /\ Len(version.parts) >= 2 /\ Number(version.parts[1]) /\ Number(version.parts[2])
    /\ IF version.parts[1].n # major THEN version.parts[1].n > major
       ELSE version.parts[2].n >= minor

(* checkGoVersionUnsatisfiable, checkGoWorkVersionUnsatisfiable; "go" at the *)
(* beginning of a declared version is not taken off here.                    *)
Readable(declared) ==
    /\ Len(declared.parts) >= 2 /\ ~declared.go
    /\ Number(declared.parts[1]) /\ Number(declared.parts[2])

Unsatisfiable(declared, localGoVersion) ==
    /\ Readable(declared)
    /\ \/ localGoVersion = NoText
       \/ ~goVersionAtLeast(localGoVersion, declared.parts[1].n, declared.parts[2].n)

(* The version that brought each verb; godebug is asked of go.work as well.  *)
Since == [ignore |-> 25, tool |-> 24, godebug |-> 23]

DirectiveTooOld(verb, declared, localGoVersion) ==
    /\ ~goVersionAtLeast(declared, 1, Since[verb])
    /\ localGoVersion # NoText
    /\ ~goVersionAtLeast(localGoVersion, 1, Since[verb])

-----------------------------------------------------------------------------
(* The order the go command compares by: 1.25 < 1.25rc1 < 1.25.0 < 1.25.1.   *)
Key(version) ==
    LET p == version.parts
    IN  <<p[1].n, p[2].n, IF Len(p) = 3 THEN 2 ELSE IF p[2].suffix THEN 1 ELSE 0,
          IF Len(p) = 3 THEN p[3].n ELSE 0>>

Precedes(a, b) ==
    \E i \in 1 .. 4 : Key(a)[i] < Key(b)[i] /\ \A k \in 1 .. i - 1 : Key(a)[k] = Key(b)[k]

Released(version) == Len(version.parts) >= 2 /\ Number(version.parts[2])

Language(minor) == [go |-> FALSE, parts |-> <<[n |-> 1, suffix |-> FALSE], [n |-> minor, suffix |-> FALSE]>>]

(* Of a released toolchain: a go.mod is called unsatisfiable only if the     *)
(* toolchain really comes before the declared version, and is if it is of an *)
(* earlier language version; a verb is called too new exactly if neither the *)
(* file nor the toolchain has reached the version that brought it.  Of an    *)
(* unknown toolchain no verb is called too new.                              *)
VerdictsAreExact(declared, localGoVersion) ==
    /\ Released(localGoVersion) /\ Released(declared) =>
         LET minor == [declared EXCEPT !.parts = SubSeq(@, 1, 2)]
         IN  /\ Unsatisfiable(declared, localGoVersion) => Precedes(localGoVersion, declared)
             /\ Precedes(localGoVersion, minor) => Unsatisfiable(declared, localGoVersion)
    /\ Released(localGoVersion) /\ (declared = NoText \/ Released(declared)) =>
         \A verb \in DOMAIN Since :
            DirectiveTooOld(verb, declared, localGoVersion) <=>
                /\ Precedes(localGoVersion, Language(Since[verb]))
                /\ declared = NoText \/ Precedes(declared, Language(Since[verb]))
    /\ localGoVersion = NoText =>
         \A verb \in DOMAIN Since : ~DirectiveTooOld(verb, declared, localGoVersion)
=============================================================================
