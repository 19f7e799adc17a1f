-------------------------- MODULE GoModParserProofs --------------------------
(* What the five scanners of GoModParser make of a file, for files of any    *)
(* length made of any lines.  First that they stay in step; then what a file *)
(* says, one line longer; then one line as each scanner reads it, and the    *)
(* invariant that puts the two side by side.                                 *)
EXTENDS GoModParser, WellFoundedInduction, SequenceTheorems, TLAPS

(* ScannersAgree with what its induction needs: a byte order mark, which     *)
(* makes the scanners see different first lines, is itself reported.         *)
InStep == ScannersAgree /\ (bom => "bom" \in malformed)

-----------------------------------------------------------------------------
(* Nothing that is reported is ever taken back.                              *)
LEMMA ReportsStay ==
    ASSUME Next
    PROVE  (Refused => Refused') /\ malformed \subseteq malformed'
<1>1. CASE Read
  <2>1. PICK l \in Lines[kind] : (ReadLine(l) \/ PastScanner(l)) /\ goModUnknownDirective(Stripped(l))
    BY <1>1 DEF Read
  <2>2. unknownFound => unknownFound'
    BY <2>1 DEF goModUnknownDirective
  <2>3. CASE PastScanner(l)
    BY <2>2, <2>3 DEF PastScanner, parserVars, Refused
  <2>4. CASE ReadLine(l)
    <3>1. torn' = torn
      BY <2>4 DEF ReadLine
    <3>2. malformed \subseteq malformed'
      BY <2>4 DEF ReadLine, ParseLine, NoteComment, SkipLine, OpenBlock, BlockForm, CloseBlock,
                  Misquotes, Malforms, Repeats, Collects, Malformed, parserVars
    <3>3. QED
      BY <2>2, <3>1, <3>2 DEF Refused
  <2>5. QED
    BY <2>1, <2>3, <2>4
<1>2. CASE EndOfFile
  BY <1>2 DEF EndOfFile, Refused, unknownVars
<1>3. CASE Done
  BY <1>3 DEF Done, vars, parserVars, unknownVars, Refused
<1>4. QED
  BY <1>1, <1>2, <1>3 DEF Next

(* One line of a file of which nothing is reported, before or after it.      *)
LEMMA LineKeepsStep ==
    ASSUME NEW l, InStep, ReadLine(l), goModUnknownDirective(Stripped(l)), ~Refused, ~Refused'
    PROVE  ScannersAgree'
<1>1. (topInBlock <=> block # "") /\ (unknownInBlock <=> block # "")
  BY DEF InStep, ScannersAgree
<1>2. ~bom
  BY DEF InStep, Refused
<1>3. ~Has(l, "/*")
  BY DEF ReadLine, ParseLine, NoteComment, Malformed, SkipLine, Refused
<1>4. Stripped(l) = l /\ Glued(l) = l
  BY <1>2, <1>3 DEF Stripped, Glued
<1>5. /\ topInBlock' = IF topInBlock THEN ~Closes(l) ELSE Opens(l)
      /\ unknownInBlock' = IF unknownInBlock THEN ~Closes(l) ELSE Opens(l)
      /\ ~unknownInBlock /\ l # <<>> => Head(l) \in Verbs
  BY <1>4 DEF ReadLine, hasTopLevelDirective, goModUnknownDirective, Refused
<1>6. SUFFICES block' # "" <=> IF block # "" THEN ~Closes(l) ELSE Opens(l)
  BY <1>1, <1>5 DEF ScannersAgree
<1>7. malformed = {} /\ malformed' = {}
  BY DEF Refused
<1>8. \/ SkipLine(l) \/ OpenBlock(l) \/ CloseBlock(l)
      \/ IsDirective(l) /\ block' = block
  <2>1. \/ SkipLine(l) \/ OpenBlock(l) \/ BlockForm(l) \/ CloseBlock(l)
        \/ Misquotes(l) \/ Malforms(l) \/ Repeats(l) \/ Collects(l)
    BY <1>3, <1>4 DEF ReadLine, ParseLine, NoteComment
  <2>2. ~BlockForm(l)
    BY <1>7 DEF BlockForm, Malformed
  <2>3. Misquotes(l) \/ Malforms(l) \/ Repeats(l) \/ Collects(l) => IsDirective(l) /\ block' = block
    BY DEF Misquotes, Malforms, Repeats, Collects, Malformed, parserVars
  <2>4. QED
    BY <2>1, <2>2, <2>3
<1>9. CASE block = ""
  <2>1. l # <<>> => Head(l) \in Verbs
    BY <1>1, <1>5, <1>9
  <2>2. Opens(l) => l # <<>>
    BY DEF Opens
  <2>3. CASE Opens(l)
    <3>1. Opening(l)
      BY <1>9, <2>1, <2>2, <2>3 DEF Opening
    <3>2. OpenBlock(l)
      BY <1>8, <1>9, <2>1, <2>2, <2>3, <3>1 DEF SkipLine, CloseBlock, IsDirective
    <3>3. block' # ""
      BY <2>1, <2>2, <2>3, <3>2 DEF OpenBlock, Verbs
    <3>4. QED
      BY <1>9, <2>3, <3>3
  <2>4. CASE ~Opens(l)
    <3>1. block' = ""
      BY <1>8, <1>9, <2>4 DEF SkipLine, OpenBlock, Opening, CloseBlock, parserVars
    <3>2. QED
      BY <1>9, <2>4, <3>1
  <2>5. QED
    BY <2>3, <2>4
<1>10. CASE block # ""
  <2>1. CASE Closes(l)
    <3>1. l # <<>>
      BY <2>1 DEF Closes
    <3>2. CloseBlock(l)
      BY <1>8, <1>10, <2>1, <3>1 DEF SkipLine, OpenBlock, Opening, IsDirective
    <3>3. QED
      BY <1>10, <2>1, <3>2 DEF CloseBlock
  <2>2. CASE ~Closes(l)
    <3>1. block' = block
      BY <1>8, <1>10, <2>2 DEF SkipLine, OpenBlock, Opening, CloseBlock, parserVars
    <3>2. QED
      BY <1>10, <2>2, <3>1
  <2>3. QED
    BY <2>1, <2>2
<1>11. QED
  BY <1>6, <1>9, <1>10

-----------------------------------------------------------------------------
(* Init establishes InStep and every step keeps it.                          *)
LEMMA StepKeepsInStep ==
    ASSUME InStep, [Next]_vars
    PROVE  InStep'
<1>1. CASE UNCHANGED vars
  BY <1>1 DEF vars, parserVars, topVars, unknownVars, InStep, ScannersAgree, Refused
<1>2. CASE Next
  <2>1. bom' => "bom" \in malformed'
    <3>1. bom' = bom
      BY <1>2 DEF Next, Read, EndOfFile, Done, vars
    <3>2. QED
      BY <1>2, <3>1, ReportsStay DEF InStep
  <2>2. ScannersAgree'
    <3>1. CASE Refused'
      BY <3>1 DEF ScannersAgree
    <3>2. CASE ~Refused' /\ EndOfFile
      <4>1. block' = block /\ topInBlock' = topInBlock /\ unknownInBlock' = unknownInBlock
        BY <3>2 DEF EndOfFile, topVars, unknownVars
      <4>2. ~Refused
        BY <1>2, <3>2, ReportsStay
      <4>3. QED
        BY <4>1, <4>2 DEF InStep, ScannersAgree
    <3>3. CASE Done
      BY <3>3 DEF Done, vars, parserVars, topVars, unknownVars, InStep, ScannersAgree, Refused
    <3>4. CASE ~Refused' /\ Read
      <4>1. PICK l \in Lines[kind] :
                (ReadLine(l) \/ PastScanner(l)) /\ goModUnknownDirective(Stripped(l))
        BY <3>4 DEF Read
      <4>2. ReadLine(l)
        BY <3>4, <4>1 DEF PastScanner, Refused
      <4>3. ~Refused
        BY <1>2, <3>4, ReportsStay
      <4>4. QED
        BY <3>4, <4>1, <4>2, <4>3, LineKeepsStep
    <3>5. QED
      BY <1>2, <3>1, <3>2, <3>3, <3>4 DEF Next
  <2>3. QED
    BY <2>1, <2>2 DEF InStep
<1>3. QED
  BY <1>1, <1>2

(* However the lines of a file are put together, while nothing is reported   *)
(* of it no scanner has taken an entry of a block for a directive, or a      *)
(* directive for an entry: what hasTopLevelDirective and                     *)
(* goModUnknownDirective say is about the lines ParseGoMod reads as such.    *)
THEOREM ScannersStayInStep == Spec => []ScannersAgree
<1>1. Init => InStep
  BY DEF Init, InStep, ScannersAgree, Refused
<1>2. InStep /\ [Next]_vars => InStep'
  BY StepKeepsInStep
<1>3. InStep => ScannersAgree
  BY DEF InStep
<1>4. QED
  BY <1>1, <1>2, <1>3, PTL DEF Spec

-----------------------------------------------------------------------------
(* Natural numbers and the elements picked from a sequence. *)

LEMMA LeastOne ==
    ASSUME NEW S, S \subseteq Nat, S # {}
    PROVE  \E m \in S : \A i \in S : m <= i
<1>1. IsWellFoundedOn(OpToRel(<, Nat), Nat)
    BY NatLessThanWellFounded
<1>2. PICK m \in S : \A n \in S : <<n, m>> \notin OpToRel(<, Nat)
    BY <1>1, WFMin
<1>3. \A n \in S : ~(n < m)
    BY <1>2 DEF OpToRel
<1>4. \A n \in S : m <= n
    <2> \A n \in S : n \in Nat /\ m \in Nat
        BY <1>2
    <2> QED  BY <1>3
<1> QED  BY <1>4

LEMMA LeastIsFirst ==
    ASSUME NEW S, S \subseteq Nat, NEW m \in S, \A i \in S : m <= i
    PROVE  FirstGoLine(S) = m
<1>1. \A i \in S : (\A j \in S : i <= j) => i = m
    OBVIOUS
<1> QED  BY <1>1 DEF FirstGoLine

(* Induction, over a set instead of a predicate: a number it lacks would     *)
(* have a least one, whose predecessor it has.                               *)
LEMMA ByInduction ==
    ASSUME NEW S, 0 \in S, \A n \in Nat : n \in S => n + 1 \in S
    PROVE  Nat \subseteq S
<1> DEFINE Lacking == {n \in Nat : n \notin S}
<1> SUFFICES ASSUME Lacking # {} PROVE FALSE
    OBVIOUS
<1>1. PICK m \in Lacking : \A n \in Lacking : m <= n
    BY LeastOne
<1>2. m - 1 \in Nat /\ m - 1 \notin Lacking
    BY <1>1
<1> QED  BY <1>1, <1>2

(* The loop of Picked runs to its end.                                       *)
LEMMA PickedUpTo ==
    ASSUME NEW s, Len(s) \in Nat, NEW P
    PROVE  \E upTo :
             /\ upTo[0] = <<>>
             /\ \A i \in 1..Len(s) :
                  upTo[i] = IF i \in P THEN Append(upTo[i - 1], s[i]) ELSE upTo[i - 1]
             /\ Picked(s, P) = upTo[Len(s)]
<1> DEFINE Turn(g, i) == IF i = 0 THEN <<>>
                         ELSE IF i \in P THEN Append(g[i - 1], s[i])
                         ELSE g[i - 1]
           Runs == {n \in Nat : \E g : g = [i \in 0..n |-> Turn(g, i)]}
           upTo == CHOOSE g : g = [i \in 0..Len(s) |-> Turn(g, i)]
<1>1. Nat \subseteq Runs
  <2>1. 0 \in Runs
    <3>1. [i \in 0..0 |-> <<>>] = [i \in 0..0 |-> Turn([j \in 0..0 |-> <<>>], i)]
      OBVIOUS
    <3> QED
      BY <3>1
  <2>2. ASSUME NEW n \in Nat, n \in Runs
        PROVE  n + 1 \in Runs
    <3>1. PICK g : g = [i \in 0..n |-> Turn(g, i)]
      BY <2>2
    <3> DEFINE h == [i \in 0..n + 1 |-> IF i = n + 1 THEN Turn(g, n + 1) ELSE g[i]]
    <3>2. ASSUME NEW i \in 0..n + 1
          PROVE  h[i] = Turn(h, i)
      <4>1. CASE i = n + 1
        <5>1. h[n] = g[n] /\ h[n + 1] = Turn(g, n + 1) /\ (n + 1) - 1 = n /\ n + 1 # 0
          OBVIOUS
        <5> QED
          BY <4>1, <5>1
      <4>2. CASE i \in 1..n
        <5>1. h[i] = g[i] /\ h[i - 1] = g[i - 1] /\ i # 0
          BY <4>2
        <5>2. g[i] = Turn(g, i)
          <6>1. i \in 0..n
            BY <4>2
          <6> HIDE DEF Turn
          <6> QED
            BY <3>1, <6>1
        <5> QED
          BY <5>1, <5>2
      <4>3. CASE i = 0
        BY <4>3, <3>1
      <4> QED
        BY <4>1, <4>2, <4>3
    <3>3. h = [i \in 0..n + 1 |-> Turn(h, i)]
      <4> HIDE DEF Turn
      <4> QED
        BY <3>2
    <3>4. n + 1 \in Nat
      OBVIOUS
    <3> HIDE DEF h, Turn
    <3> QED
      BY <3>3, <3>4
  <2> HIDE DEF Runs
  <2> QED
    BY <2>1, <2>2, ByInduction
<1>2. upTo = [i \in 0..Len(s) |-> Turn(upTo, i)]
  <2>1. \E g : g = [i \in 0..Len(s) |-> Turn(g, i)]
    BY <1>1
  <2> HIDE DEF Turn
  <2> QED
    BY <2>1
<1>3. Picked(s, P) = upTo[Len(s)]
  BY DEF Picked
<1> HIDE DEF upTo
<1>4. ASSUME NEW i \in 0..Len(s)
      PROVE  upTo[i] = Turn(upTo, i)
  <2> HIDE DEF Turn
  <2> QED
    BY <1>2
<1>5. upTo[0] = <<>>
  BY <1>4
<1>6. ASSUME NEW i \in 1..Len(s)
      PROVE  upTo[i] = IF i \in P THEN Append(upTo[i - 1], s[i]) ELSE upTo[i - 1]
  BY <1>4
<1> QED
  BY <1>3, <1>5, <1>6

(* What is picked from a longer sequence.                                    *)
LEMMA PickedMore ==
    ASSUME NEW s, NEW t, NEW P, NEW Q, Len(t) \in Nat, Len(s) = Len(t) + 1,
           \A i \in 1..Len(t) : s[i] = t[i] /\ (i \in P <=> i \in Q)
    PROVE  Picked(s, P) = IF Len(s) \in P THEN Append(Picked(t, Q), s[Len(s)]) ELSE Picked(t, Q)
<1>1. PICK f : /\ f[0] = <<>>
               /\ \A i \in 1..Len(s) :
                    f[i] = IF i \in P THEN Append(f[i - 1], s[i]) ELSE f[i - 1]
               /\ Picked(s, P) = f[Len(s)]
  BY PickedUpTo, SMTT(30)
<1>2. PICK h : /\ h[0] = <<>>
               /\ \A i \in 1..Len(t) :
                    h[i] = IF i \in Q THEN Append(h[i - 1], t[i]) ELSE h[i - 1]
               /\ Picked(t, Q) = h[Len(t)]
  BY PickedUpTo
<1> DEFINE Same == {n \in Nat : n <= Len(t) => f[n] = h[n]}
<1>3. Nat \subseteq Same
  <2>1. 0 \in Same
    BY <1>1, <1>2
  <2>2. ASSUME NEW n \in Nat, n \in Same
        PROVE  n + 1 \in Same
    <3> SUFFICES ASSUME n + 1 <= Len(t)
                 PROVE  f[n + 1] = h[n + 1]
      OBVIOUS
    <3>1. n + 1 \in 1..Len(t) /\ n + 1 \in 1..Len(s) /\ (n + 1) - 1 = n /\ f[n] = h[n]
      BY <2>2
    <3> QED
      BY <1>1, <1>2, <3>1
  <2> HIDE DEF Same
  <2> QED
    BY <2>1, <2>2, ByInduction
<1>4. f[Len(t)] = h[Len(t)]
  BY <1>3
<1>5. Len(s) \in 1..Len(s) /\ Len(s) - 1 = Len(t)
  OBVIOUS
<1> QED
  BY <1>1, <1>2, <1>4, <1>5

LEMMA NothingPicked == \A P : Picked(<<>>, P) = <<>>
<1> SUFFICES ASSUME NEW P PROVE Picked(<<>>, P) = <<>>
  OBVIOUS
<1>1. Len(<<>>) = 0
  OBVIOUS
<1> QED
  BY <1>1, PickedUpTo

-----------------------------------------------------------------------------
(* The reference of GoModParser, of any file: what is written in f.  The     *)
(* operators of the specification are these, of the file read so far.        *)

OpenIn(f, j, i) == Opens(Stripped(f[j])) /\ ~\E c \in (j + 1)..(i - 1) : Closes(Stripped(f[c]))
TopIn(f, i) == ~\E j \in 1..(i - 1) : OpenIn(f, j, i)
OpenerIn(f, i) == CHOOSE j \in 1..(i - 1) : OpenIn(f, j, i) /\ TopIn(f, j)

WrittenIn(f, i) ==
    IF TopIn(f, i) THEN [verb |-> Head(Stripped(f[i])), args |-> Tail(Stripped(f[i]))]
    ELSE [verb |-> f[OpenerIn(f, i)][1], args |-> Stripped(f[i])]

StatementsIn(f) ==
    {i \in DOMAIN f : Stripped(f[i]) # <<>>
                      /\ IF TopIn(f, i) THEN ~Opens(Stripped(f[i])) ELSE ~Closes(Stripped(f[i]))}
OpenersIn(f) == {i \in DOMAIN f : TopIn(f, i) /\ Opens(Stripped(f[i]))}

(* The verb of the block that is open after f, "" if none is.                *)
AtTop(f) == TopIn(f, Len(f) + 1)
OpenVerb(f) == IF AtTop(f) THEN "" ELSE f[OpenerIn(f, Len(f) + 1)][1]

(* Whether a line after f states something, and what.                        *)
States(f, l) == Stripped(l) # <<>> /\ IF AtTop(f) THEN ~Opens(Stripped(l)) ELSE ~Closes(Stripped(l))
Stated(f, l) == IF AtTop(f) THEN [verb |-> Head(Stripped(l)), args |-> Tail(Stripped(l))]
                ELSE [verb |-> OpenVerb(f), args |-> Stripped(l)]

-----------------------------------------------------------------------------
(* One more line changes nothing of what the earlier ones say. *)

LEMMA Longer ==
    ASSUME NEW f \in Seq(Line), NEW l \in Line
    PROVE  /\ Len(f) \in Nat /\ DOMAIN f = 1..Len(f)
           /\ Append(f, l) \in Seq(Line) /\ Len(Append(f, l)) = Len(f) + 1
           /\ DOMAIN Append(f, l) = 1..(Len(f) + 1)
           /\ \A i \in 1..Len(f) : Append(f, l)[i] = f[i] /\ f[i] \in Line
           /\ Append(f, l)[Len(f) + 1] = l
  OBVIOUS

(* A block has one opener: a block is not opened inside another.             *)
LEMMA OpenerIs ==
    ASSUME NEW f, NEW i \in Nat, NEW j \in 1..(i - 1), OpenIn(f, j, i), TopIn(f, j)
    PROVE  OpenerIn(f, i) = j
<1>1. ASSUME NEW k \in 1..(i - 1), OpenIn(f, k, i), TopIn(f, k)
      PROVE  k = j
  <2>1. ASSUME NEW a \in 1..(i - 1), NEW b \in 1..(i - 1), OpenIn(f, a, i), TopIn(f, b)
        PROVE  ~(a < b)
    <3> SUFFICES ASSUME a < b PROVE FALSE
      OBVIOUS
    <3>1. a \in 1..(b - 1) /\ (a + 1)..(b - 1) \subseteq (a + 1)..(i - 1)
      OBVIOUS
    <3>2. OpenIn(f, a, b)
      BY <2>1, <3>1 DEF OpenIn
    <3> QED
      BY <2>1, <3>1, <3>2 DEF TopIn
  <2>2. ~(k < j) /\ ~(j < k)
    BY <1>1, <2>1
  <2> QED
    BY <2>2
<1>2. OpenerIn(f, i) \in 1..(i - 1) /\ OpenIn(f, OpenerIn(f, i), i) /\ TopIn(f, OpenerIn(f, i))
  BY DEF OpenerIn
<1> QED
  BY <1>1, <1>2

LEMMA OpenerFound ==
    ASSUME NEW f, NEW i \in Nat, ~TopIn(f, i)
    PROVE  /\ OpenerIn(f, i) \in 1..(i - 1)
           /\ OpenIn(f, OpenerIn(f, i), i)
           /\ TopIn(f, OpenerIn(f, i))
<1> DEFINE S == {j \in 1..(i - 1) : OpenIn(f, j, i)}
<1>1. S \subseteq Nat /\ S # {}
  BY DEF TopIn
<1>2. PICK j \in S : \A k \in S : j <= k
  BY <1>1, LeastOne
<1>3. TopIn(f, j)
  <2> SUFFICES ASSUME NEW k \in 1..(j - 1), OpenIn(f, k, j) PROVE FALSE
    BY DEF TopIn
  <2>1. k \in 1..(i - 1) /\ k < j /\ j \in 1..(i - 1)
    BY <1>2
  <2>2. Opens(Stripped(f[j])) /\ ~Closes(Stripped(f[j]))
    BY <1>2 DEF OpenIn, Opens, Closes
  <2>3. (k + 1)..(i - 1) = ((k + 1)..(j - 1)) \cup {j} \cup ((j + 1)..(i - 1))
    BY <2>1
  <2>4. OpenIn(f, k, i)
    BY <1>2, <2>2, <2>3 DEF OpenIn
  <2> QED
    BY <1>2, <2>1, <2>4
<1> QED
  BY <1>2, <1>3 DEF OpenerIn

LEMMA OpeningsStay ==
    ASSUME NEW f \in Seq(Line), NEW l \in Line, NEW i \in 1..(Len(f) + 1)
    PROVE  /\ TopIn(Append(f, l), i) <=> TopIn(f, i)
           /\ ~TopIn(f, i) => OpenerIn(Append(f, l), i) = OpenerIn(f, i)
<1> DEFINE g == Append(f, l)
<1>1. Len(f) \in Nat /\ \A k \in 1..Len(f) : g[k] = f[k]
  BY Longer
<1> HIDE DEF g
<1>2. ASSUME NEW k \in 1..(Len(f) + 1), NEW j \in 1..(k - 1)
      PROVE  OpenIn(g, j, k) <=> OpenIn(f, j, k)
  <2>1. j \in 1..Len(f) /\ (j + 1)..(k - 1) \subseteq 1..Len(f)
    BY <1>1
  <2> QED
    BY <1>1, <2>1 DEF OpenIn
<1>3. \A k \in 1..(Len(f) + 1) : TopIn(g, k) <=> TopIn(f, k)
  BY <1>2 DEF TopIn
<1>4. ASSUME ~TopIn(f, i)
      PROVE  OpenerIn(g, i) = OpenerIn(f, i)
  <2> DEFINE j == OpenerIn(f, i)
  <2>1. i \in Nat
    BY <1>1
  <2>2. j \in 1..(i - 1) /\ OpenIn(f, j, i) /\ TopIn(f, j)
    BY <1>4, <2>1, OpenerFound
  <2> HIDE DEF j
  <2>3. j \in 1..(Len(f) + 1)
    BY <1>1, <2>1, <2>2
  <2>4. OpenIn(g, j, i) /\ TopIn(g, j)
    BY <1>2, <1>3, <2>2, <2>3
  <2>5. OpenerIn(g, i) = j
    BY <2>1, <2>2, <2>4, OpenerIs
  <2> QED
    BY <2>5 DEF j
<1> QED
  BY <1>3, <1>4 DEF g

LEMMA WrittenStays ==
    ASSUME NEW f \in Seq(Line), NEW l \in Line, NEW i \in 1..Len(f)
    PROVE  /\ WrittenIn(Append(f, l), i) = WrittenIn(f, i)
           /\ i \in StatementsIn(Append(f, l)) <=> i \in StatementsIn(f)
           /\ i \in OpenersIn(Append(f, l)) <=> i \in OpenersIn(f)
<1> DEFINE g == Append(f, l)
<1>1. /\ Len(f) \in Nat /\ DOMAIN f = 1..Len(f) /\ DOMAIN g = 1..(Len(f) + 1)
      /\ \A k \in 1..Len(f) : g[k] = f[k]
  BY Longer
<1>2. i \in 1..(Len(f) + 1) /\ i \in Nat
  BY <1>1
<1>3. /\ TopIn(g, i) <=> TopIn(f, i)
      /\ ~TopIn(f, i) => OpenerIn(g, i) = OpenerIn(f, i)
  BY <1>2, OpeningsStay
<1>4. g[i] = f[i]
  BY <1>1
<1>5. ~TopIn(f, i) => g[OpenerIn(f, i)] = f[OpenerIn(f, i)]
  <2>1. ~TopIn(f, i) => OpenerIn(f, i) \in 1..(i - 1)
    BY <1>2, OpenerFound
  <2>2. 1..(i - 1) \subseteq 1..Len(f)
    BY <1>1
  <2> QED
    BY <1>1, <2>1, <2>2
<1> HIDE DEF g
<1>6. WrittenIn(g, i) = WrittenIn(f, i)
  BY <1>3, <1>4, <1>5 DEF WrittenIn
<1>7. i \in StatementsIn(g) <=> i \in StatementsIn(f)
  BY <1>1, <1>2, <1>3, <1>4 DEF StatementsIn
<1>8. i \in OpenersIn(g) <=> i \in OpenersIn(f)
  BY <1>1, <1>2, <1>3, <1>4 DEF OpenersIn
<1> QED
  BY <1>6, <1>7, <1>8 DEF g

(* What the new line itself is, and the block it leaves open.                *)
LEMMA NewLine ==
    ASSUME NEW f \in Seq(Line), NEW l \in Line
    PROVE  /\ Len(f) + 1 \in StatementsIn(Append(f, l)) <=> States(f, l)
           /\ States(f, l) => WrittenIn(Append(f, l), Len(f) + 1) = Stated(f, l)
           /\ Len(f) + 1 \in OpenersIn(Append(f, l)) <=> AtTop(f) /\ Opens(Stripped(l))
<1> DEFINE g == Append(f, l)
           n == Len(f)
<1>1. /\ n \in Nat /\ DOMAIN g = 1..(n + 1) /\ g[n + 1] = l
      /\ \A k \in 1..n : g[k] = f[k]
  BY Longer
<1>2. n + 1 \in 1..(n + 1) /\ n + 1 \in Nat
  BY <1>1
<1>3. /\ TopIn(g, n + 1) <=> TopIn(f, n + 1)
      /\ ~TopIn(f, n + 1) => OpenerIn(g, n + 1) = OpenerIn(f, n + 1)
  BY <1>2, OpeningsStay
<1>4. ~TopIn(f, n + 1) => g[OpenerIn(f, n + 1)] = f[OpenerIn(f, n + 1)]
  <2>1. ~TopIn(f, n + 1) => OpenerIn(f, n + 1) \in 1..((n + 1) - 1)
    BY <1>2, OpenerFound
  <2>2. 1..((n + 1) - 1) = 1..n
    BY <1>1
  <2> QED
    BY <1>1, <2>1, <2>2
<1>5. AtTop(f) <=> TopIn(f, n + 1)
  BY DEF AtTop
<1>6. ~AtTop(f) => OpenVerb(f) = f[OpenerIn(f, n + 1)][1]
  BY DEF OpenVerb
<1> HIDE DEF g, n
<1>7. n + 1 \in StatementsIn(g) <=> States(f, l)
  BY <1>1, <1>2, <1>3, <1>5 DEF StatementsIn, States
<1>8. WrittenIn(g, n + 1) = Stated(f, l)
  BY <1>1, <1>3, <1>4, <1>5, <1>6 DEF WrittenIn, Stated
<1>9. n + 1 \in OpenersIn(g) <=> AtTop(f) /\ Opens(Stripped(l))
  BY <1>1, <1>2, <1>3, <1>5 DEF OpenersIn
<1> QED
  BY <1>7, <1>8, <1>9 DEF g, n

LEMMA BlockAfter ==
    ASSUME NEW f \in Seq(Line), NEW l \in Line
    PROVE  /\ AtTop(Append(f, l)) <=> IF AtTop(f) THEN ~Opens(Stripped(l)) ELSE Closes(Stripped(l))
           /\ OpenVerb(Append(f, l)) = IF AtTop(f) THEN IF Opens(Stripped(l)) THEN l[1] ELSE ""
                                       ELSE IF Closes(Stripped(l)) THEN "" ELSE OpenVerb(f)
<1> DEFINE g == Append(f, l)
           n == Len(f)
<1>1. /\ n \in Nat /\ Len(g) = n + 1 /\ g[n + 1] = l
      /\ \A k \in 1..n : g[k] = f[k]
  BY Longer
<1>2. /\ AtTop(f) <=> TopIn(f, n + 1)
      /\ AtTop(g) <=> TopIn(g, Len(g) + 1)
      /\ OpenVerb(f) = IF AtTop(f) THEN "" ELSE f[OpenerIn(f, n + 1)][1]
      /\ OpenVerb(g) = IF AtTop(g) THEN "" ELSE g[OpenerIn(g, Len(g) + 1)][1]
  BY DEF AtTop, OpenVerb
<1>3. TopIn(g, n + 1) <=> TopIn(f, n + 1)
  <2>1. n + 1 \in 1..(n + 1)
    BY <1>1
  <2> QED
    BY <2>1, OpeningsStay
<1>4. \A k \in 1..n : TopIn(g, k) <=> TopIn(f, k)
  <2>1. 1..n \subseteq 1..(n + 1)
    BY <1>1
  <2> QED
    BY <2>1, OpeningsStay
<1> HIDE DEF g, n
<1>5. Len(g) + 1 = n + 2 /\ n + 2 \in Nat /\ (n + 2) - 1 = n + 1 /\ n + 1 \in Nat /\ (n + 1) - 1 = n
  BY <1>1
<1>6. OpenIn(g, n + 1, n + 2) <=> Opens(Stripped(l))
  <2>1. ((n + 1) + 1)..((n + 2) - 1) = {}
    BY <1>1
  <2> QED
    BY <1>1, <2>1 DEF OpenIn
<1>7. ASSUME NEW j \in 1..n
      PROVE  OpenIn(g, j, n + 2) <=> OpenIn(f, j, n + 1) /\ ~Closes(Stripped(l))
  <2>1. (j + 1)..((n + 2) - 1) = ((j + 1)..((n + 1) - 1)) \cup {n + 1}
    BY <1>1
  <2>2. (j + 1)..((n + 1) - 1) \subseteq 1..n
    BY <1>1
  <2> QED
    BY <1>1, <2>1, <2>2 DEF OpenIn
<1>8. Opens(Stripped(l)) => ~Closes(Stripped(l))
  BY DEF Opens, Closes
<1>9. 1..((n + 2) - 1) = (1..n) \cup {n + 1} /\ 1..((n + 1) - 1) = 1..n
  BY <1>1
<1>10. AtTop(g) <=> IF AtTop(f) THEN ~Opens(Stripped(l)) ELSE Closes(Stripped(l))
  BY <1>2, <1>5, <1>6, <1>7, <1>8, <1>9 DEF TopIn
<1>11. ASSUME ~AtTop(g), AtTop(f)
       PROVE  OpenVerb(g) = l[1]
  <2>1. OpenIn(g, n + 1, n + 2) /\ TopIn(g, n + 1)
    BY <1>2, <1>3, <1>6, <1>10, <1>11
  <2>2. n + 1 \in 1..((n + 2) - 1)
    BY <1>1
  <2>3. OpenerIn(g, n + 2) = n + 1
    BY <1>5, <2>1, <2>2, OpenerIs
  <2> QED
    BY <1>1, <1>2, <1>5, <1>11, <2>3
<1>12. ASSUME ~AtTop(g), ~AtTop(f)
       PROVE  OpenVerb(g) = OpenVerb(f)
  <2> DEFINE j == OpenerIn(f, n + 1)
  <2>1. j \in 1..((n + 1) - 1) /\ OpenIn(f, j, n + 1) /\ TopIn(f, j)
    BY <1>2, <1>5, <1>12, OpenerFound
  <2>2. j \in 1..n /\ j \in 1..((n + 2) - 1)
    BY <1>9, <2>1
  <2>3. OpenIn(g, j, n + 2) /\ TopIn(g, j)
    BY <1>4, <1>7, <1>10, <1>12, <2>1, <2>2
  <2>4. OpenerIn(g, n + 2) = j
    BY <1>5, <2>2, <2>3, OpenerIs
  <2> QED
    BY <1>1, <1>2, <1>5, <1>12, <2>2, <2>4
<1> QED
  BY <1>2, <1>10, <1>11, <1>12 DEF g

-----------------------------------------------------------------------------
(* What the whole file says, one line longer. *)

SaidIn(f) == {WrittenIn(f, i).verb : i \in StatementsIn(f)}

(* ValidWith of the part of a file that is read: its last block may be open. *)
ValidSoFar(f, verbs) ==
    /\ \A i \in DOMAIN f : ~Has(f[i], "/*")
    /\ \A i \in OpenersIn(f) : f[i][1] \in verbs \ Blockless
    /\ \A i \in StatementsIn(f) : WrittenIn(f, i).verb \in verbs /\ Acceptable(WrittenIn(f, i))
    /\ \A i, j \in StatementsIn(f) :
         i # j /\ WrittenIn(f, i).verb = WrittenIn(f, j).verb => WrittenIn(f, i).verb \notin OnceOnly

AcceptedIn(f, verbs) == {i \in StatementsIn(f) : WrittenIn(f, i).verb \in verbs /\ Accepted(WrittenIn(f, i))}

WrittenWithIn(f, verbs) ==
    Picked([i \in DOMAIN f |-> IF i \in StatementsIn(f) THEN WrittenIn(f, i) ELSE [verb |-> "", args |-> <<>>]],
           AcceptedIn(f, verbs))

(* No entry of a replace or godebug block begins with "use".                 *)
NoUseIn(f) == ~\E i \in StatementsIn(f) : WrittenIn(f, i).verb \in {"replace", "godebug"} /\ f[i][1] = "use"

LEMMA PlacesAfter ==
    ASSUME NEW f \in Seq(Line), NEW l \in Line
    PROVE  /\ StatementsIn(Append(f, l)) =
                StatementsIn(f) \cup (IF States(f, l) THEN {Len(f) + 1} ELSE {})
           /\ OpenersIn(Append(f, l)) =
                OpenersIn(f) \cup (IF AtTop(f) /\ Opens(Stripped(l)) THEN {Len(f) + 1} ELSE {})
           /\ StatementsIn(f) \subseteq 1..Len(f) /\ OpenersIn(f) \subseteq 1..Len(f)
<1>1. /\ Len(f) \in Nat /\ DOMAIN f = 1..Len(f)
      /\ DOMAIN Append(f, l) = 1..(Len(f) + 1)
  BY Longer
<1>2. 1..(Len(f) + 1) = (1..Len(f)) \cup {Len(f) + 1}
  BY <1>1
<1>3. /\ StatementsIn(f) \subseteq 1..Len(f) /\ OpenersIn(f) \subseteq 1..Len(f)
      /\ StatementsIn(Append(f, l)) \subseteq 1..(Len(f) + 1)
      /\ OpenersIn(Append(f, l)) \subseteq 1..(Len(f) + 1)
  BY <1>1 DEF StatementsIn, OpenersIn
<1>4. /\ \A i \in 1..Len(f) : i \in StatementsIn(Append(f, l)) <=> i \in StatementsIn(f)
      /\ \A i \in 1..Len(f) : i \in OpenersIn(Append(f, l)) <=> i \in OpenersIn(f)
  BY WrittenStays
<1>5. /\ Len(f) + 1 \in StatementsIn(Append(f, l)) <=> States(f, l)
      /\ Len(f) + 1 \in OpenersIn(Append(f, l)) <=> AtTop(f) /\ Opens(Stripped(l))
  BY NewLine
<1>6. StatementsIn(Append(f, l)) = StatementsIn(f) \cup (IF States(f, l) THEN {Len(f) + 1} ELSE {})
  BY <1>2, <1>3, <1>4, <1>5
<1>7. OpenersIn(Append(f, l)) = OpenersIn(f) \cup (IF AtTop(f) /\ Opens(Stripped(l)) THEN {Len(f) + 1} ELSE {})
  BY <1>2, <1>3, <1>4, <1>5
<1> QED
  BY <1>3, <1>6, <1>7

LEMMA SaidAfter ==
    ASSUME NEW f \in Seq(Line), NEW l \in Line
    PROVE  SaidIn(Append(f, l)) = SaidIn(f) \cup (IF States(f, l) THEN {Stated(f, l).verb} ELSE {})
<1> DEFINE g == Append(f, l)
<1>1. /\ StatementsIn(g) = StatementsIn(f) \cup (IF States(f, l) THEN {Len(f) + 1} ELSE {})
      /\ \A i \in StatementsIn(f) : WrittenIn(g, i) = WrittenIn(f, i)
      /\ States(f, l) => WrittenIn(g, Len(f) + 1) = Stated(f, l)
  BY PlacesAfter, WrittenStays, NewLine
<1> HIDE DEF g
<1>2. SaidIn(g) = SaidIn(f) \cup (IF States(f, l) THEN {Stated(f, l).verb} ELSE {})
  BY <1>1 DEF SaidIn
<1> QED
  BY <1>2 DEF g

LEMMA ValidAfter ==
    ASSUME NEW f \in Seq(Line), NEW l \in Line, NEW verbs
    PROVE  ValidSoFar(Append(f, l), verbs) <=>
             /\ ValidSoFar(f, verbs)
             /\ ~Has(l, "/*")
             /\ AtTop(f) /\ Opens(Stripped(l)) => l[1] \in verbs \ Blockless
             /\ States(f, l) => /\ Stated(f, l).verb \in verbs
                                /\ Acceptable(Stated(f, l))
                                /\ Stated(f, l).verb \notin SaidIn(f) \cap OnceOnly
<1> DEFINE g == Append(f, l)
           n == Len(f)
<1>1. /\ n \in Nat /\ DOMAIN f = 1..n /\ DOMAIN g = 1..(n + 1)
      /\ \A i \in 1..n : g[i] = f[i]
      /\ g[n + 1] = l
  BY Longer
<1>2. /\ StatementsIn(g) = StatementsIn(f) \cup (IF States(f, l) THEN {n + 1} ELSE {})
      /\ OpenersIn(g) = OpenersIn(f) \cup (IF AtTop(f) /\ Opens(Stripped(l)) THEN {n + 1} ELSE {})
      /\ StatementsIn(f) \subseteq 1..n /\ OpenersIn(f) \subseteq 1..n
  BY PlacesAfter
<1>3. /\ \A i \in StatementsIn(f) : WrittenIn(g, i) = WrittenIn(f, i)
      /\ States(f, l) => WrittenIn(g, n + 1) = Stated(f, l)
  BY <1>2, WrittenStays, NewLine
<1> HIDE DEF g, n
<1>4. 1..(n + 1) = (1..n) \cup {n + 1} /\ n + 1 \notin 1..n
  BY <1>1
<1>5. (\A i \in DOMAIN g : ~Has(g[i], "/*")) <=> (\A i \in DOMAIN f : ~Has(f[i], "/*")) /\ ~Has(l, "/*")
  BY <1>1, <1>4
<1>6. (\A i \in OpenersIn(g) : g[i][1] \in verbs \ Blockless) <=>
         /\ \A i \in OpenersIn(f) : f[i][1] \in verbs \ Blockless
         /\ AtTop(f) /\ Opens(Stripped(l)) => l[1] \in verbs \ Blockless
  BY <1>1, <1>2, <1>4
<1>7. (\A i \in StatementsIn(g) : WrittenIn(g, i).verb \in verbs /\ Acceptable(WrittenIn(g, i))) <=>
         /\ \A i \in StatementsIn(f) : WrittenIn(f, i).verb \in verbs /\ Acceptable(WrittenIn(f, i))
         /\ States(f, l) => Stated(f, l).verb \in verbs /\ Acceptable(Stated(f, l))
  BY <1>2, <1>3
<1>8. (\A i, j \in StatementsIn(g) :
         i # j /\ WrittenIn(g, i).verb = WrittenIn(g, j).verb => WrittenIn(g, i).verb \notin OnceOnly) <=>
         /\ \A i, j \in StatementsIn(f) :
              i # j /\ WrittenIn(f, i).verb = WrittenIn(f, j).verb => WrittenIn(f, i).verb \notin OnceOnly
         /\ States(f, l) => Stated(f, l).verb \notin SaidIn(f) \cap OnceOnly
  <2>1. CASE ~States(f, l)
    BY <1>2, <1>3, <2>1
  <2>2. CASE States(f, l)
    <3>1. StatementsIn(g) = StatementsIn(f) \cup {n + 1} /\ n + 1 \notin StatementsIn(f)
      BY <1>2, <1>4, <2>2
    <3>2. WrittenIn(g, n + 1) = Stated(f, l)
      BY <1>3, <2>2
    <3> QED
      BY <1>3, <2>2, <3>1, <3>2 DEF SaidIn
  <2> QED
    BY <2>1, <2>2
<1>9. ValidSoFar(g, verbs) <=>
             /\ ValidSoFar(f, verbs)
             /\ ~Has(l, "/*")
             /\ AtTop(f) /\ Opens(Stripped(l)) => l[1] \in verbs \ Blockless
             /\ States(f, l) => /\ Stated(f, l).verb \in verbs
                                /\ Acceptable(Stated(f, l))
                                /\ Stated(f, l).verb \notin SaidIn(f) \cap OnceOnly
  BY <1>5, <1>6, <1>7, <1>8 DEF ValidSoFar
<1> QED
  BY <1>9 DEF g

LEMMA LenOnInterval ==
    ASSUME NEW n \in Nat, NEW s, s = [i \in 1..n |-> s[i]]
    PROVE  Len(s) = n
<1>1. s \in [1..n -> {s[i] : i \in 1..n}]
  OBVIOUS
<1>2. s \in Seq({s[i] : i \in 1..n})
  BY <1>1, SeqDef
<1> QED
  BY <1>1, <1>2, LenProperties

LEMMA WrittenWithAfter ==
    ASSUME NEW f \in Seq(Line), NEW l \in Line, NEW verbs
    PROVE  WrittenWithIn(Append(f, l), verbs) =
             IF States(f, l) /\ Stated(f, l).verb \in verbs /\ Accepted(Stated(f, l))
             THEN Append(WrittenWithIn(f, verbs), Stated(f, l))
             ELSE WrittenWithIn(f, verbs)
<1> DEFINE g == Append(f, l)
           n == Len(f)
           s == [i \in DOMAIN g |-> IF i \in StatementsIn(g) THEN WrittenIn(g, i)
                                    ELSE [verb |-> "", args |-> <<>>]]
           t == [i \in DOMAIN f |-> IF i \in StatementsIn(f) THEN WrittenIn(f, i)
                                    ELSE [verb |-> "", args |-> <<>>]]
<1>1. n \in Nat /\ DOMAIN f = 1..n /\ DOMAIN g = 1..(n + 1)
  BY Longer
<1>2. /\ StatementsIn(g) = StatementsIn(f) \cup (IF States(f, l) THEN {n + 1} ELSE {})
      /\ StatementsIn(f) \subseteq 1..n
  BY PlacesAfter
<1>3. /\ \A i \in 1..n : WrittenIn(g, i) = WrittenIn(f, i)
      /\ States(f, l) => WrittenIn(g, n + 1) = Stated(f, l)
  BY <1>2, WrittenStays, NewLine
<1>4. WrittenWithIn(g, verbs) = Picked(s, AcceptedIn(g, verbs)) /\ WrittenWithIn(f, verbs) = Picked(t, AcceptedIn(f, verbs))
  BY DEF WrittenWithIn
<1>5. DOMAIN s = 1..(n + 1) /\ DOMAIN t = 1..n
  BY <1>1
<1> HIDE DEF g, n
<1>6. Len(s) = n + 1 /\ Len(t) = n
  <2>1. n + 1 \in Nat
    BY <1>1
  <2>2. s = [i \in 1..(n + 1) |-> s[i]] /\ t = [i \in 1..n |-> t[i]]
    BY <1>1
  <2> HIDE DEF s, t
  <2> QED
    BY <1>1, <2>1, <2>2, LenOnInterval
<1>7. n + 1 \notin 1..n /\ 1..n \subseteq 1..(n + 1) /\ n + 1 \in 1..(n + 1)
  BY <1>1
<1>8. \A i \in 1..n : i \in StatementsIn(g) <=> i \in StatementsIn(f)
  BY <1>2, <1>7
<1>9. ASSUME NEW i \in 1..n
      PROVE  s[i] = t[i] /\ (i \in AcceptedIn(g, verbs) <=> i \in AcceptedIn(f, verbs))
  BY <1>1, <1>3, <1>7, <1>8 DEF AcceptedIn
<1>10. n + 1 \in AcceptedIn(g, verbs) <=> States(f, l) /\ Stated(f, l).verb \in verbs /\ Accepted(Stated(f, l))
  BY <1>2, <1>3, <1>7 DEF AcceptedIn
<1>11. States(f, l) => s[n + 1] = Stated(f, l)
  BY <1>1, <1>2, <1>3, <1>7
<1> HIDE DEF s, t
<1>12. Picked(s, AcceptedIn(g, verbs)) =
         IF n + 1 \in AcceptedIn(g, verbs) THEN Append(Picked(t, AcceptedIn(f, verbs)), s[n + 1])
         ELSE Picked(t, AcceptedIn(f, verbs))
  <2>1. Len(t) \in Nat /\ Len(s) = Len(t) + 1
    BY <1>1, <1>6
  <2>2. \A i \in 1..Len(t) : s[i] = t[i] /\ (i \in AcceptedIn(g, verbs) <=> i \in AcceptedIn(f, verbs))
    BY <1>6, <1>9
  <2>3. Picked(s, AcceptedIn(g, verbs)) =
         IF Len(s) \in AcceptedIn(g, verbs) THEN Append(Picked(t, AcceptedIn(f, verbs)), s[Len(s)])
         ELSE Picked(t, AcceptedIn(f, verbs))
    BY <2>1, <2>2, PickedMore
  <2> QED
    BY <1>6, <2>3
<1>13. WrittenWithIn(g, verbs) =
             IF States(f, l) /\ Stated(f, l).verb \in verbs /\ Accepted(Stated(f, l))
             THEN Append(WrittenWithIn(f, verbs), Stated(f, l))
             ELSE WrittenWithIn(f, verbs)
  BY <1>4, <1>10, <1>11, <1>12
<1> QED
  BY <1>13 DEF g

LEMMA NoUseAfter ==
    ASSUME NEW f \in Seq(Line), NEW l \in Line, NoUseIn(Append(f, l))
    PROVE  NoUseIn(f) /\ (States(f, l) => ~(Stated(f, l).verb \in {"replace", "godebug"} /\ l[1] = "use"))
<1> DEFINE g == Append(f, l)
<1>1. /\ StatementsIn(g) = StatementsIn(f) \cup (IF States(f, l) THEN {Len(f) + 1} ELSE {})
      /\ StatementsIn(f) \subseteq 1..Len(f)
      /\ \A i \in StatementsIn(f) : WrittenIn(g, i) = WrittenIn(f, i)
      /\ States(f, l) => WrittenIn(g, Len(f) + 1) = Stated(f, l)
  BY PlacesAfter, WrittenStays, NewLine
<1>2. g[Len(f) + 1] = l /\ \A i \in 1..Len(f) : g[i] = f[i]
  BY Longer
<1>3. NoUseIn(g)
  OBVIOUS
<1> HIDE DEF g
<1> QED
  BY <1>1, <1>2, <1>3 DEF NoUseIn

(* What TopLevelAsWritten says the two scanners of directives find.          *)
HeadsIn(f) == {Stripped(f[i])[1] : i \in {j \in StatementsIn(f) \cup OpenersIn(f) : TopIn(f, j)}}
GoLinesIn(f) == {i \in StatementsIn(f) : f[i][1] = "go" /\ ~Opens(f[i])}
GoLineIn(f) == IF GoLinesIn(f) = {} THEN NoGoLine ELSE Tail(f[FirstGoLine(GoLinesIn(f))])

LEMMA HeadsAfter ==
    ASSUME NEW f \in Seq(Line), NEW l \in Line
    PROVE  HeadsIn(Append(f, l)) =
             HeadsIn(f) \cup (IF AtTop(f) /\ Stripped(l) # <<>> THEN {Head(Stripped(l))} ELSE {})
<1> DEFINE g == Append(f, l)
           n == Len(f)
           Of(h) == {j \in StatementsIn(h) \cup OpenersIn(h) : TopIn(h, j)}
<1>1. /\ n \in Nat /\ g[n + 1] = l
      /\ \A i \in 1..n : g[i] = f[i]
  BY Longer
<1>2. /\ StatementsIn(g) = StatementsIn(f) \cup (IF States(f, l) THEN {n + 1} ELSE {})
      /\ OpenersIn(g) = OpenersIn(f) \cup (IF AtTop(f) /\ Opens(Stripped(l)) THEN {n + 1} ELSE {})
      /\ StatementsIn(f) \subseteq 1..n /\ OpenersIn(f) \subseteq 1..n
  BY PlacesAfter
<1>3. \A i \in 1..(n + 1) : TopIn(g, i) <=> TopIn(f, i)
  BY OpeningsStay
<1>4. AtTop(f) <=> TopIn(f, n + 1)
  BY DEF AtTop
<1>5. AtTop(f) /\ Stripped(l) # <<>> <=> AtTop(f) /\ (States(f, l) \/ Opens(Stripped(l)))
  <2>1. Opens(Stripped(l)) => Stripped(l) # <<>>
    BY DEF Opens
  <2> QED
    BY <2>1 DEF States
<1>6. 1..n \subseteq 1..(n + 1) /\ n + 1 \in 1..(n + 1)
  BY <1>1
<1>7. AtTop(f) /\ Stripped(l) # <<>> => Stripped(l)[1] = Head(Stripped(l))
  OBVIOUS
<1> HIDE DEF g, n
<1>8. Of(g) = Of(f) \cup (IF AtTop(f) /\ Stripped(l) # <<>> THEN {n + 1} ELSE {})
  BY <1>2, <1>3, <1>4, <1>5, <1>6
<1>9. Of(f) \subseteq 1..n
  BY <1>2
<1>10. HeadsIn(g) = {Stripped(g[i])[1] : i \in Of(g)} /\ HeadsIn(f) = {Stripped(f[i])[1] : i \in Of(f)}
  BY DEF HeadsIn
<1> HIDE DEF Of
<1>11. HeadsIn(g) = HeadsIn(f) \cup (IF AtTop(f) /\ Stripped(l) # <<>> THEN {Head(Stripped(l))} ELSE {})
  BY <1>1, <1>7, <1>8, <1>9, <1>10
<1> QED
  BY <1>11 DEF g

LEMMA TailOfGo ==
    ASSUME NEW l \in Line, l # <<>>
    PROVE  Tail(l) = NoGoLine <=> Opens(l)
<1>1. Len(l) \in Nat /\ Len(l) # 0
  BY DEF Line
<1>2. /\ Tail(l) \in Seq(Token) /\ Len(Tail(l)) = Len(l) - 1
      /\ \A i \in 1..(Len(l) - 1) : Tail(l)[i] = l[i + 1]
  BY <1>1 DEF Line
<1>3. Len(NoGoLine) = 1 /\ NoGoLine[1] = "("
  BY DEF NoGoLine
<1>4. ASSUME Opens(l)
      PROVE  Tail(l) = NoGoLine
  <2>1. NoGoLine \in Seq(Token)
    BY DEF NoGoLine, Token
  <2>2. Len(Tail(l)) = 1 /\ Tail(l)[1] = "("
    BY <1>1, <1>2, <1>4 DEF Opens
  <2> DEFINE t == Tail(l)
  <2>3. t \in Seq(Token) /\ Len(t) = 1 /\ t[1] = "("
    BY <1>2, <2>2
  <2> HIDE DEF t
  <2>4. \A i \in 1..Len(t) : t[i] = NoGoLine[i]
    BY <1>3, <2>3
  <2>5. t = NoGoLine
    BY <1>3, <2>1, <2>3, <2>4, SeqEqual
  <2> QED
    BY <2>5 DEF t
<1>5. ASSUME Tail(l) = NoGoLine
      PROVE  Opens(l)
  BY <1>1, <1>2, <1>3, <1>5 DEF Opens
<1> QED
  BY <1>4, <1>5

LEMMA GoLineAfter ==
    ASSUME NEW f \in Seq(Line), NEW l \in Line
    PROVE  GoLineIn(Append(f, l)) =
             IF GoLineIn(f) = NoGoLine /\ Stripped(l) # <<>> /\ Head(Stripped(l)) = "go"
             THEN Tail(Stripped(l)) ELSE GoLineIn(f)
<1> DEFINE g == Append(f, l)
           n == Len(f)
<1>1. /\ n \in Nat /\ g[n + 1] = l /\ DOMAIN f = 1..n
      /\ \A i \in 1..n : g[i] = f[i] /\ f[i] \in Line
  BY Longer
<1>2. /\ StatementsIn(g) = StatementsIn(f) \cup (IF States(f, l) THEN {n + 1} ELSE {})
      /\ StatementsIn(f) \subseteq 1..n
  BY PlacesAfter
<1> HIDE DEF g, n
<1>3. GoLinesIn(g) = GoLinesIn(f) \cup (IF States(f, l) /\ l[1] = "go" /\ ~Opens(l) THEN {n + 1} ELSE {})
  BY <1>1, <1>2 DEF GoLinesIn
<1>4. Stripped(l) # <<>> => Stripped(l) = l /\ Head(l) = l[1]
  BY DEF Stripped, Line
<1>5. Stripped(l) # <<>> /\ Head(l) = "go" => (States(f, l) \/ Opens(l))
  <2>1. Stripped(l) # <<>> /\ Head(l) = "go" => ~Closes(Stripped(l))
    BY <1>4 DEF Closes
  <2> QED
    BY <1>4, <2>1 DEF States
<1>6. GoLineIn(f) = IF GoLinesIn(f) = {} THEN NoGoLine ELSE Tail(f[FirstGoLine(GoLinesIn(f))])
  BY DEF GoLineIn
<1>7. GoLineIn(g) = IF GoLinesIn(g) = {} THEN NoGoLine ELSE Tail(g[FirstGoLine(GoLinesIn(g))])
  BY DEF GoLineIn
<1>8. CASE GoLinesIn(f) = {}
  <2>1. CASE States(f, l) /\ l[1] = "go" /\ ~Opens(l)
    <3>1. GoLinesIn(g) = {n + 1}
      BY <1>3, <1>8, <2>1
    <3>2. FirstGoLine({n + 1}) = n + 1
      BY <1>1 DEF FirstGoLine
    <3>3. Stripped(l) # <<>>
      BY <2>1 DEF States
    <3>4. GoLineIn(g) = Tail(l)
      BY <1>1, <1>7, <3>1, <3>2
    <3> QED
      BY <1>4, <1>6, <1>8, <2>1, <3>3, <3>4 DEF g
  <2>2. CASE ~(States(f, l) /\ l[1] = "go" /\ ~Opens(l))
    <3>1. GoLineIn(g) = NoGoLine
      BY <1>3, <1>7, <1>8, <2>2
    <3>2. Stripped(l) # <<>> /\ Head(Stripped(l)) = "go" => Tail(Stripped(l)) = NoGoLine
      <4> SUFFICES ASSUME Stripped(l) # <<>>, Head(Stripped(l)) = "go"
                   PROVE  Tail(Stripped(l)) = NoGoLine
        OBVIOUS
      <4>1. Stripped(l) = l /\ Opens(l) /\ l # <<>>
        BY <1>4, <1>5, <2>2
      <4> QED
        BY <4>1, TailOfGo
    <3> QED
      BY <1>6, <1>8, <3>1, <3>2 DEF g
  <2> QED
    BY <2>1, <2>2
<1>9. CASE GoLinesIn(f) # {}
  <2>1. GoLinesIn(f) \subseteq 1..n /\ 1..n \subseteq Nat
    BY <1>1, <1>2 DEF GoLinesIn
  <2>2. PICK m \in GoLinesIn(f) : \A i \in GoLinesIn(f) : m <= i
    <3>1. GoLinesIn(f) \subseteq Nat
      BY <2>1
    <3> QED
      BY <1>9, <3>1, LeastOne
  <2>3. m \in Nat /\ m \in 1..n /\ n + 1 \in Nat /\ m <= n + 1
    BY <1>1, <2>1, <2>2
  <2>4. FirstGoLine(GoLinesIn(f)) = m
    <3>1. GoLinesIn(f) \subseteq Nat
      BY <2>1
    <3> QED
      BY <2>2, <3>1, LeastIsFirst
  <2>5. FirstGoLine(GoLinesIn(g)) = m
    <3>1. m \in GoLinesIn(g) /\ \A i \in GoLinesIn(g) : m <= i
      BY <1>3, <2>2, <2>3
    <3>2. GoLinesIn(g) \subseteq Nat
      BY <1>3, <2>1, <2>3
    <3> QED
      BY <3>1, <3>2, LeastIsFirst
  <2>6. g[m] = f[m] /\ f[m] \in Line /\ ~Opens(f[m]) /\ f[m] # <<>>
    <3>1. m \in StatementsIn(f) /\ ~Opens(f[m])
      BY <2>2 DEF GoLinesIn
    <3>2. f[m] # <<>>
      BY <3>1 DEF StatementsIn, Stripped
    <3> QED
      BY <1>1, <2>3, <3>1, <3>2
  <2>7. GoLineIn(f) = Tail(f[m]) /\ Tail(f[m]) # NoGoLine
    BY <1>6, <1>9, <2>4, <2>6, TailOfGo
  <2>8. GoLineIn(g) = Tail(f[m])
    BY <1>3, <1>7, <1>9, <2>5, <2>6
  <2> QED
    BY <2>7, <2>8 DEF g
<1> QED
  BY <1>8, <1>9

(* Of an empty file.                                                         *)
LEMMA NothingWritten ==
    /\ StatementsIn(<<>>) = {} /\ OpenersIn(<<>>) = {} /\ AtTop(<<>>)
    /\ OpenVerb(<<>>) = "" /\ SaidIn(<<>>) = {} /\ HeadsIn(<<>>) = {} /\ GoLineIn(<<>>) = NoGoLine
    /\ \A verbs : ValidSoFar(<<>>, verbs) /\ WrittenWithIn(<<>>, verbs) = <<>>
<1>1. DOMAIN <<>> = {} /\ Len(<<>>) = 0
  OBVIOUS
<1>2. StatementsIn(<<>>) = {} /\ OpenersIn(<<>>) = {}
  BY <1>1 DEF StatementsIn, OpenersIn
<1>3. AtTop(<<>>)
  <2>1. 1..((0 + 1) - 1) = {}
    OBVIOUS
  <2> QED
    BY <1>1, <2>1 DEF AtTop, TopIn
<1>4. OpenVerb(<<>>) = "" /\ SaidIn(<<>>) = {} /\ HeadsIn(<<>>) = {} /\ GoLineIn(<<>>) = NoGoLine
  BY <1>2, <1>3 DEF OpenVerb, SaidIn, HeadsIn, GoLineIn, GoLinesIn
<1>5. ASSUME NEW verbs
      PROVE  ValidSoFar(<<>>, verbs) /\ WrittenWithIn(<<>>, verbs) = <<>>
  <2>1. ValidSoFar(<<>>, verbs)
    BY <1>1, <1>2 DEF ValidSoFar
  <2> DEFINE s == [i \in DOMAIN <<>> |-> IF i \in StatementsIn(<<>>) THEN WrittenIn(<<>>, i)
                                         ELSE [verb |-> "", args |-> <<>>]]
  <2>2. s = <<>>
    BY <1>1
  <2> HIDE DEF s
  <2>3. WrittenWithIn(<<>>, verbs) = Picked(s, AcceptedIn(<<>>, verbs))
    BY DEF WrittenWithIn, s
  <2> QED
    BY <2>1, <2>2, <2>3, NothingPicked
<1> QED
  BY <1>2, <1>3, <1>4, <1>5

(* The operators of the specification, of the file it has read.              *)
LEMMA OfTheFile ==
    /\ Statements = StatementsIn(file) /\ Openers = OpenersIn(file)
    /\ \A i : Written(i) = WrittenIn(file, i)
    /\ \A i : TopLevel(i) <=> TopIn(file, i)
    /\ OwnGoLines \cup GoEntries = GoLinesIn(file)
    /\ \A verbs : WrittenWith(verbs) = WrittenWithIn(file, verbs)
    /\ \A verbs : ValidWith(verbs) <=> ~bom /\ ValidSoFar(file, verbs) /\ AtTop(file)
<1>1. \A i : TopLevel(i) <=> TopIn(file, i)
  BY DEF TopLevel, OpenSpan, ClosedBetween, TopIn, OpenIn
<1>2. ASSUME NEW i
      PROVE  Written(i) = WrittenIn(file, i)
  <2>1. Opener(i) = OpenerIn(file, i)
    BY DEF Opener, OpenerIn, TopLevel, OpenSpan, ClosedBetween, TopIn, OpenIn
  <2> QED
    BY <1>1, <2>1 DEF Written, WrittenIn
<1>3. Statements = StatementsIn(file)
  BY <1>1 DEF Statements, StatementsIn
<1>4. Openers = OpenersIn(file)
  BY <1>1 DEF Openers, OpenersIn
<1>5. OwnGoLines \cup GoEntries = GoLinesIn(file)
  <2>1. \A i \in Statements : TopLevel(i) /\ file[i][1] = "go" => ~Opens(file[i])
    BY DEF Statements, Stripped, Opens, Has
  <2> QED
    BY <1>3, <2>1 DEF OwnGoLines, GoEntries, GoLinesIn
<1>6. ASSUME NEW verbs
      PROVE  WrittenWith(verbs) = WrittenWithIn(file, verbs)
  <2> DEFINE s == [i \in DOMAIN file |-> IF i \in Statements THEN Written(i)
                                         ELSE [verb |-> "", args |-> <<>>]]
             t == [i \in DOMAIN file |-> IF i \in StatementsIn(file) THEN WrittenIn(file, i)
                                         ELSE [verb |-> "", args |-> <<>>]]
             P == {i \in Statements : Written(i).verb \in verbs /\ Accepted(Written(i))}
  <2>1. s = t
    BY <1>2, <1>3
  <2>2. P = AcceptedIn(file, verbs)
    BY <1>2, <1>3 DEF AcceptedIn
  <2>3. WrittenWith(verbs) = Picked(s, P) /\ WrittenWithIn(file, verbs) = Picked(t, AcceptedIn(file, verbs))
    BY DEF WrittenWith, WrittenWithIn
  <2> HIDE DEF s, t, P
  <2> QED
    BY <2>1, <2>2, <2>3
<1>7. ASSUME NEW verbs
      PROVE  ValidWith(verbs) <=> ~bom /\ ValidSoFar(file, verbs) /\ AtTop(file)
  <2>1. TopLevel(Len(file) + 1) <=> AtTop(file)
    BY <1>1 DEF AtTop
  <2>2. ValidWith(verbs) <=>
    /\ ~bom
    /\ \A i \in DOMAIN file : ~Has(file[i], "/*")
    /\ \A i \in Openers : file[i][1] \in verbs \ Blockless
    /\ \A i \in Statements : Written(i).verb \in verbs /\ Acceptable(Written(i))
    /\ \A i, j \in Statements :
         i # j /\ Written(i).verb = Written(j).verb => Written(i).verb \notin OnceOnly
    /\ TopLevel(Len(file) + 1)
    BY DEF ValidWith
  <2> QED
    BY <1>2, <1>3, <1>4, <2>1, <2>2 DEF ValidSoFar
<1> QED
  BY <1>1, <1>2, <1>3, <1>4, <1>5, <1>6, <1>7

-----------------------------------------------------------------------------
(* One line of ParseGoMod. *)

(* What ParseGoMod keeps of a directive.                                     *)
Kept == [verb : Verbs, args : Line]

Typed ==
    /\ kind \in {"go.mod", "go.work"}
    /\ file \in Seq(Line)
    /\ block \in Verbs \cup {""}
    /\ kept \in Seq(Kept)
    /\ seen \subseteq OnceOnly

(* A directive: refused, repeated, dropped or collected.                     *)
LEMMA DirectiveRead ==
    ASSUME NEW l \in Line, Typed, ParseLine(l), ~Has(l, "/*"), IsDirective(l)
    PROVE  LET d == Directive(l) IN
           /\ block' = block
           /\ ~Acceptable(d) => malformed' # {}
           /\ d.verb \in seen => malformed' # {}
           /\ d.verb \notin seen /\ Acceptable(d) =>
                /\ malformed' = malformed
                /\ seen' = seen \cup ({d.verb} \cap OnceOnly)
                /\ kept' = IF d.verb \in Returned /\ Accepted(d) THEN Append(kept, d) ELSE kept
           /\ ~Accepted(d) => seen' = seen /\ kept' = kept
           /\ ~Accepted(d) /\ ~Misquoted(d.args) => malformed' \subseteq malformed \cup {d.verb}
<1> DEFINE d == Directive(l)
<1>1. Misquotes(l) \/ Malforms(l) \/ Repeats(l) \/ Collects(l)
  <2>1. ~SkipLine(l) /\ ~OpenBlock(l) /\ ~BlockForm(l) /\ ~CloseBlock(l)
    BY DEF IsDirective, SkipLine, OpenBlock, BlockForm, CloseBlock, Opening
  <2> QED
    BY <2>1 DEF ParseLine, NoteComment
<1>2. Acceptable(d) <=> d.verb = "godebug" \/ Accepted(d)
  BY DEF Acceptable
<1>3. "godebug" \notin seen /\ "godebug" \notin OnceOnly
  BY DEF Typed, OnceOnly
<1>4. CASE Misquotes(l)
  <2>1. d.verb # "godebug" /\ Misquoted(d.args) /\ UNCHANGED <<block, kept, seen>> /\ malformed' # {}
    BY <1>4 DEF Misquotes, Malformed
  <2>2. ~Accepted(d)
    BY <2>1 DEF Accepted
  <2> QED
    BY <1>2, <2>1, <2>2
<1>5. CASE Malforms(l)
  <2>1. ~Accepted(d) /\ (IF d.verb = "godebug" THEN UNCHANGED parserVars ELSE Malformed(d.verb))
    BY <1>5 DEF Malforms
  <2>2. CASE d.verb = "godebug"
    <3>1. UNCHANGED <<block, kept, seen, malformed>>
      BY <2>1, <2>2 DEF parserVars
    <3>2. {d.verb} \cap OnceOnly = {}
      BY <1>3, <2>2
    <3> QED
      BY <1>2, <1>3, <2>1, <2>2, <3>1, <3>2
  <2>3. CASE d.verb # "godebug"
    <3>1. malformed' = malformed \cup {d.verb} /\ UNCHANGED <<block, kept, seen>>
      BY <2>1, <2>3 DEF Malformed
    <3> QED
      BY <1>2, <2>1, <2>3, <3>1
  <2> QED
    BY <2>2, <2>3
<1>6. CASE Repeats(l)
  <2>1. Accepted(d) /\ d.verb \in seen /\ UNCHANGED <<block, kept, seen>> /\ malformed' # {}
    BY <1>6 DEF Repeats, Malformed
  <2> QED
    BY <1>2, <2>1
<1>7. CASE Collects(l)
  <2>1. /\ Accepted(d) /\ d.verb \notin seen
        /\ kept' = IF d.verb \in Returned THEN Append(kept, d) ELSE kept
        /\ seen' = seen \cup ({d.verb} \cap OnceOnly)
        /\ UNCHANGED <<block, malformed>>
    BY <1>7 DEF Collects
  <2> QED
    BY <1>2, <2>1
<1> QED
  BY <1>1, <1>4, <1>5, <1>6, <1>7

(* Any other line: it opens a block, closes one, or says nothing.            *)
LEMMA OtherLineRead ==
    ASSUME NEW l \in Line, ParseLine(l), ~Has(l, "/*"), ~IsDirective(l)
    PROVE  /\ kept' = kept /\ seen' = seen
           /\ block' = IF Opening(l) /\ Head(l) \notin Blockless THEN Head(l)
                       ELSE IF block # "" /\ Closes(l) THEN "" ELSE block
           /\ ~(Opening(l) /\ Head(l) \in Blockless) => malformed' = malformed
           /\ Opening(l) /\ Head(l) \in Blockless => malformed' # {}
<1>1. SkipLine(l) \/ OpenBlock(l) \/ BlockForm(l) \/ CloseBlock(l)
  BY DEF ParseLine, NoteComment, Misquotes, Malforms, Repeats, Collects
<1>2. CASE SkipLine(l)
  <2>1. UNCHANGED <<block, kept, seen, malformed>>
    BY <1>2 DEF SkipLine, parserVars
  <2>2. ~Opening(l) /\ ~(block # "" /\ Closes(l))
    <3>1. Opens(l) \/ Closes(l) => l # <<>>
      BY DEF Opens, Closes
    <3> QED
      BY <1>2, <3>1 DEF SkipLine, Opening
  <2> QED
    BY <2>1, <2>2
<1>3. CASE OpenBlock(l)
  BY <1>3 DEF OpenBlock
<1>4. CASE BlockForm(l)
  <2>1. Opening(l) /\ Head(l) \in Blockless /\ block = "" /\ UNCHANGED <<block, kept, seen>> /\ malformed' # {}
    BY <1>4 DEF BlockForm, Malformed, Opening
  <2> QED
    BY <2>1
<1>5. CASE CloseBlock(l)
  <2>1. block # "" /\ Closes(l) /\ block' = "" /\ UNCHANGED <<kept, seen, malformed>> /\ ~Opening(l)
    BY <1>5 DEF CloseBlock, Opening
  <2> QED
    BY <2>1
<1> QED
  BY <1>1, <1>2, <1>3, <1>4, <1>5

(* A directive has the type of one.                                          *)
LEMMA DirectiveTyped ==
    ASSUME NEW l \in Line, Typed, IsDirective(l)
    PROVE  Directive(l) \in Kept
<1>1. l # <<>>
  BY DEF IsDirective
<1>2. CASE block = ""
  <2>1. Head(l) \in Verbs /\ Directive(l) = [verb |-> Head(l), args |-> Tail(l)]
    BY <1>2 DEF IsDirective, Directive
  <2>2. Tail(l) \in Line
    BY <1>1 DEF Line
  <2> QED
    BY <2>1, <2>2 DEF Kept
<1>3. CASE block # ""
  BY <1>3 DEF Typed, Directive, Kept
<1> QED
  BY <1>2, <1>3

LEMMA OpenVerbValid ==
    ASSUME NEW f \in Seq(Line), NEW verbs, ValidSoFar(f, verbs), ~AtTop(f)
    PROVE  OpenVerb(f) \in verbs \ Blockless
<1> DEFINE j == OpenerIn(f, Len(f) + 1)
<1>1. Len(f) \in Nat /\ DOMAIN f = 1..Len(f) /\ Len(f) + 1 \in Nat
  OBVIOUS
<1>2. j \in 1..((Len(f) + 1) - 1) /\ OpenIn(f, j, Len(f) + 1) /\ TopIn(f, j)
  BY <1>1, OpenerFound DEF AtTop
<1>3. j \in DOMAIN f
  BY <1>1, <1>2
<1>4. OpenVerb(f) = f[j][1]
  BY DEF OpenVerb
<1> HIDE DEF j
<1>5. j \in OpenersIn(f)
  BY <1>2, <1>3 DEF OpenersIn, OpenIn
<1> QED
  BY <1>4, <1>5 DEF ValidSoFar

(* What a step reads, and how the scanners see it.                           *)
LEMMA ReadStep ==
    ASSUME Typed, Read
    PROVE  \E l \in Line :
             /\ ReadLine(l) \/ PastScanner(l)
             /\ goModUnknownDirective(Stripped(l))
             /\ file' = Append(file, l)
             /\ ~bom => Glued(l) = Stripped(l)
<1>1. PICK l \in Lines[kind] : /\ ReadLine(l) \/ PastScanner(l)
                              /\ goModUnknownDirective(Stripped(l))
                              /\ file' = Append(file, l)
  BY DEF Read
<1>2. l \in Line
  BY ParserAssumption DEF Typed
<1>3. ~bom => Glued(l) = Stripped(l)
  BY DEF Glued
<1> QED
  BY <1>1, <1>2, <1>3

LEMMA ReadKeeps ==
    ASSUME Read
    PROVE  ~atEnd /\ atEnd' = atEnd /\ bom' = bom /\ kind' = kind /\ (torn => torn')
<1>1. ASSUME NEW l, ReadLine(l) \/ PastScanner(l)
      PROVE  torn => torn'
  BY <1>1 DEF ReadLine, PastScanner
<1> QED
  BY <1>1 DEF Read

LEMMA TypedStays ==
    ASSUME Typed, [Next]_vars
    PROVE  Typed'
<1>1. CASE Read
  <2>1. PICK l \in Line : /\ ReadLine(l) \/ PastScanner(l)
                          /\ file' = Append(file, l)
    BY <1>1, ReadStep
  <2>2. kind' \in {"go.mod", "go.work"} /\ file' \in Seq(Line)
    BY <1>1, <2>1, ReadKeeps, Longer DEF Typed
  <2>3. CASE PastScanner(l)
    BY <2>2, <2>3 DEF PastScanner, parserVars, Typed
  <2>4. CASE ReadLine(l) /\ Has(l, "/*")
    <3>1. UNCHANGED <<block, kept, seen>>
      BY <2>4 DEF ReadLine, ParseLine, NoteComment, Malformed
    <3> QED
      BY <2>2, <3>1 DEF Typed
  <2>5. CASE ReadLine(l) /\ ~Has(l, "/*") /\ IsDirective(l)
    <3>1. ParseLine(l)
      BY <2>5 DEF ReadLine
    <3>2. Directive(l) \in Kept
      BY <2>5, DirectiveTyped
    <3>3. block' = block
      BY <2>5, <3>1, DirectiveRead
    <3>4. seen' \subseteq OnceOnly /\ (kept' = kept \/ kept' = Append(kept, Directive(l)))
      <4>1. SkipLine(l) \/ OpenBlock(l) \/ BlockForm(l) \/ CloseBlock(l)
            \/ Misquotes(l) \/ Malforms(l) \/ Repeats(l) \/ Collects(l)
        BY <2>5, <3>1 DEF ParseLine, NoteComment
      <4>2. seen \subseteq OnceOnly
        BY DEF Typed
      <4>3. CASE Collects(l)
        BY <4>2, <4>3 DEF Collects
      <4>4. CASE ~Collects(l)
        BY <4>1, <4>2, <4>4 DEF SkipLine, OpenBlock, BlockForm, CloseBlock, Misquotes, Malforms, Repeats,
                                Malformed, parserVars
      <4> QED
        BY <4>3, <4>4
    <3>5. kept' \in Seq(Kept)
      <4>1. kept \in Seq(Kept)
        BY DEF Typed
      <4> QED
        BY <3>2, <3>4, <4>1
    <3> QED
      BY <2>2, <3>3, <3>4, <3>5 DEF Typed
  <2>6. CASE ReadLine(l) /\ ~Has(l, "/*") /\ ~IsDirective(l)
    <3>1. ParseLine(l)
      BY <2>6 DEF ReadLine
    <3>2. /\ kept' = kept /\ seen' = seen
          /\ block' = IF Opening(l) /\ Head(l) \notin Blockless THEN Head(l)
                      ELSE IF block # "" /\ Closes(l) THEN "" ELSE block
      BY <2>6, <3>1, OtherLineRead
    <3>3. block' \in Verbs \cup {""}
      BY <3>2 DEF Opening, Typed
    <3> QED
      BY <2>2, <3>2, <3>3 DEF Typed
  <2> QED
    BY <2>1, <2>3, <2>4, <2>5, <2>6
<1>2. CASE EndOfFile
  BY <1>2 DEF EndOfFile, Typed
<1>3. CASE Done \/ UNCHANGED vars
  BY <1>3 DEF Done, vars, parserVars, Typed
<1> QED
  BY <1>1, <1>2, <1>3 DEF Next

-----------------------------------------------------------------------------
(* The two scanners of directives. *)

ScanInv ==
    ~bom /\ ~torn =>
        /\ topInBlock <=> ~AtTop(file)
        /\ topVerbs = HeadsIn(file)
        /\ goLine = GoLineIn(file)

LEMMA ScanStays ==
    ASSUME Typed, ScanInv, [Next]_vars
    PROVE  ScanInv'
<1>1. CASE Read
  <2> SUFFICES ASSUME ~bom', ~torn'
               PROVE  /\ topInBlock' <=> ~AtTop(file')
                      /\ topVerbs' = HeadsIn(file')
                      /\ goLine' = GoLineIn(file')
    BY DEF ScanInv
  <2>1. PICK l \in Line : /\ ReadLine(l) \/ PastScanner(l)
                          /\ file' = Append(file, l)
                          /\ ~bom => Glued(l) = Stripped(l)
    BY <1>1, ReadStep
  <2>2. ~bom /\ ~torn
    BY <1>1, ReadKeeps
  <2>3. /\ topInBlock <=> ~AtTop(file)
        /\ topVerbs = HeadsIn(file)
        /\ goLine = GoLineIn(file)
    BY <2>2 DEF ScanInv
  <2>4. ReadLine(l)
    BY <2>1 DEF PastScanner
  <2>5. hasTopLevelDirective(Stripped(l)) /\ goDirectiveVersion(Stripped(l))
    BY <2>1, <2>2, <2>4 DEF ReadLine
  <2>6. file \in Seq(Line)
    BY DEF Typed
  <2>7. topInBlock' <=> ~AtTop(file')
    BY <2>1, <2>3, <2>5, <2>6, BlockAfter DEF hasTopLevelDirective
  <2>8. topVerbs' = HeadsIn(file')
    <3>1. HeadsIn(file') = HeadsIn(file) \cup (IF AtTop(file) /\ Stripped(l) # <<>> THEN {Head(Stripped(l))} ELSE {})
      BY <2>1, <2>6, HeadsAfter
    <3> QED
      BY <2>3, <2>5, <3>1 DEF hasTopLevelDirective
  <2>9. goLine' = GoLineIn(file')
    BY <2>1, <2>3, <2>5, <2>6, GoLineAfter DEF goDirectiveVersion
  <2> QED
    BY <2>7, <2>8, <2>9
<1>2. CASE EndOfFile
  <2>1. UNCHANGED <<bom, file, torn, topInBlock, topVerbs, goLine>>
    BY <1>2 DEF EndOfFile, topVars
  <2> QED
    BY <2>1 DEF ScanInv
<1>3. CASE Done \/ UNCHANGED vars
  <2>1. UNCHANGED <<bom, file, torn, topInBlock, topVerbs, goLine>>
    BY <1>3 DEF Done, vars, topVars
  <2> QED
    BY <2>1 DEF ScanInv
<1> QED
  BY <1>1, <1>2, <1>3 DEF Next

-----------------------------------------------------------------------------
(* ParseGoMod and goModUnknownDirective on a go.mod. *)

(* While nothing is reported the file is valid as far as it is read, and     *)
(* what ParseGoMod keeps is what the text says; and the other way round.     *)
ModInv ==
    ~torn =>
        /\ ~Refused <=> ~bom /\ ValidSoFar(file, Verbs) /\ (atEnd => AtTop(file))
        /\ ~Refused => /\ block = OpenVerb(file)
                       /\ seen = SaidIn(file) \cap OnceOnly
                       /\ kept = WrittenWithIn(file, Returned)
                       /\ unknownInBlock <=> ~AtTop(file)

(* One line of a valid go.mod, at the top level or in a block.               *)
LEMMA ValidLineRead ==
    ASSUME NEW l \in Line, Typed, ModInv, ~Refused, ~atEnd,
           ReadLine(l), goModUnknownDirective(Stripped(l)),
           bom' = bom, atEnd' = atEnd, file' = Append(file, l)
    PROVE  ModInv'
<1>1. /\ ~torn /\ ~torn' /\ malformed = {} /\ ~unknownFound /\ ~bom /\ ~bom' /\ ~atEnd'
      /\ ValidSoFar(file, Verbs)
      /\ block = OpenVerb(file) /\ seen = SaidIn(file) \cap OnceOnly
      /\ kept = WrittenWithIn(file, Returned) /\ (unknownInBlock <=> ~AtTop(file))
  BY DEF Refused, ModInv, ReadLine
<1>2. file \in Seq(Line) /\ ParseLine(l)
  BY DEF Typed, ReadLine
<1>3. Refused' <=> malformed' # {} \/ unknownFound'
  BY <1>1 DEF Refused
<1> DEFINE Found == malformed' # {} \/ unknownFound'
           Same == /\ block' = OpenVerb(file')
                   /\ seen' = SaidIn(file') \cap OnceOnly
                   /\ kept' = WrittenWithIn(file', Returned)
                   /\ unknownInBlock' <=> ~AtTop(file')
<1>4. SUFFICES /\ ~Found <=> ValidSoFar(file', Verbs)
               /\ ~Found => Same
  <2>1. ~Refused' <=> ~bom' /\ ValidSoFar(file', Verbs) /\ (atEnd' => AtTop(file'))
    BY <1>1, <1>3
  <2>2. ASSUME ~Refused'
        PROVE  Same
    <3> HIDE DEF Same
    <3> QED
      BY <1>3, <2>2
  <2> QED
    BY <2>1, <2>2 DEF ModInv
<1>5. ValidSoFar(file', Verbs) <=>
             /\ ~Has(l, "/*")
             /\ AtTop(file) /\ Opens(Stripped(l)) => l[1] \in Verbs \ Blockless
             /\ States(file, l) => /\ Stated(file, l).verb \in Verbs
                                   /\ Acceptable(Stated(file, l))
                                   /\ Stated(file, l).verb \notin seen
  BY <1>1, <1>2, ValidAfter
<1>6. CASE Has(l, "/*")
  <2>1. malformed' # {}
    BY <1>2, <1>6 DEF ParseLine, NoteComment, Malformed
  <2> QED
    BY <1>5, <1>6, <2>1
<1>7. CASE ~Has(l, "/*")
  <2>1. Stripped(l) = l
    BY <1>7 DEF Stripped
  <2>0. /\ AtTop(file') <=> IF AtTop(file) THEN ~Opens(l) ELSE Closes(l)
        /\ OpenVerb(file') = IF AtTop(file) THEN IF Opens(l) THEN l[1] ELSE ""
                             ELSE IF Closes(l) THEN "" ELSE OpenVerb(file)
    <3>1. /\ AtTop(file') <=> IF AtTop(file) THEN ~Opens(Stripped(l)) ELSE Closes(Stripped(l))
          /\ OpenVerb(file') = IF AtTop(file) THEN IF Opens(Stripped(l)) THEN l[1] ELSE ""
                               ELSE IF Closes(Stripped(l)) THEN "" ELSE OpenVerb(file)
      BY <1>2, BlockAfter
    <3> QED
      BY <2>1, <3>1
  <2>2. block = "" <=> AtTop(file)
    <3>1. ~AtTop(file) => OpenVerb(file) \in Verbs
      BY <1>1, <1>2, OpenVerbValid
    <3>2. "" \notin Verbs
      BY DEF Verbs
    <3> QED
      BY <1>1, <3>1, <3>2 DEF OpenVerb
  <2>3. /\ unknownInBlock' <=> ~AtTop(file')
        /\ unknownFound' <=> AtTop(file) /\ l # <<>> /\ Head(l) \notin Verbs
    BY <1>1, <2>0, <2>1 DEF goModUnknownDirective
  <2>4. OpenVerb(file') = IF AtTop(file) THEN IF Opens(l) THEN l[1] ELSE ""
                          ELSE IF Closes(l) THEN "" ELSE block
    BY <1>1, <2>0
  <2>5. SaidIn(file') = SaidIn(file) \cup (IF States(file, l) THEN {Stated(file, l).verb} ELSE {})
    BY <1>2, SaidAfter
  <2>6. WrittenWithIn(file', Returned) =
             IF States(file, l) /\ Stated(file, l).verb \in Returned /\ Accepted(Stated(file, l))
             THEN Append(kept, Stated(file, l)) ELSE kept
    BY <1>1, <1>2, WrittenWithAfter
  <2>7. l # <<>> => Head(l) = l[1]
    BY DEF Line
  <2>8. States(file, l) <=> l # <<>> /\ IF block = "" THEN ~Opens(l) ELSE ~Closes(l)
    BY <2>1, <2>2 DEF States
  <2>9. Stated(file, l) = Directive(l)
    BY <1>1, <2>1, <2>2 DEF Stated, Directive
  <2>10. CASE IsDirective(l)
    <3> DEFINE d == Directive(l)
    <3>1. States(file, l)
      <4>1. block = "" /\ Head(l) \in Verbs => ~Opens(l)
        BY <2>10 DEF IsDirective, Opening
      <4> QED
        BY <2>8, <2>10, <4>1 DEF IsDirective
    <3>2. d.verb \in Verbs
      BY <2>10, DirectiveTyped DEF Kept
    <3>3. ~unknownFound'
      BY <2>2, <2>3, <2>10 DEF IsDirective
    <3>4. ~(AtTop(file) /\ Opens(l))
      BY <2>2, <2>8, <3>1
    <3>5. ValidSoFar(file', Verbs) <=> Acceptable(d) /\ d.verb \notin seen
      BY <1>5, <1>7, <2>1, <2>9, <3>1, <3>2, <3>4
    <3>6. /\ block' = block
          /\ ~Acceptable(d) => malformed' # {}
          /\ d.verb \in seen => malformed' # {}
          /\ d.verb \notin seen /\ Acceptable(d) =>
               /\ malformed' = malformed
               /\ seen' = seen \cup ({d.verb} \cap OnceOnly)
               /\ kept' = IF d.verb \in Returned /\ Accepted(d) THEN Append(kept, d) ELSE kept
      BY <1>2, <1>7, <2>10, DirectiveRead
    <3>7. OpenVerb(file') = block
      BY <2>2, <2>4, <2>8, <3>1
    <3> HIDE DEF d
    <3>8. SaidIn(file') = SaidIn(file) \cup {d.verb}
      BY <2>5, <2>9, <3>1 DEF d
    <3>9. WrittenWithIn(file', Returned) =
             IF d.verb \in Returned /\ Accepted(d) THEN Append(kept, d) ELSE kept
      BY <2>6, <2>9, <3>1 DEF d
    <3>10. CASE Acceptable(d) /\ d.verb \notin seen
      BY <1>1, <2>3, <3>3, <3>5, <3>6, <3>7, <3>8, <3>9, <3>10
    <3>11. CASE ~(Acceptable(d) /\ d.verb \notin seen)
      BY <3>5, <3>6, <3>11
    <3> QED
      BY <3>10, <3>11
  <2>11. CASE ~IsDirective(l)
    <3>1. /\ kept' = kept /\ seen' = seen
          /\ block' = IF Opening(l) /\ Head(l) \notin Blockless THEN Head(l)
                      ELSE IF block # "" /\ Closes(l) THEN "" ELSE block
          /\ ~(Opening(l) /\ Head(l) \in Blockless) => malformed' = malformed
          /\ Opening(l) /\ Head(l) \in Blockless => malformed' # {}
      BY <1>2, <1>7, <2>11, OtherLineRead
    <3>2. Opens(l) => l # <<>>
      BY DEF Opens
    <3>3. CASE block = "" /\ Opens(l)
      <4>1. ~States(file, l)
        BY <2>8, <3>3
      <4>2. ValidSoFar(file', Verbs) <=> Head(l) \in Verbs \ Blockless
        BY <1>5, <1>7, <2>1, <2>2, <2>7, <3>2, <3>3, <4>1
      <4>3. unknownFound' <=> Head(l) \notin Verbs
        BY <2>2, <2>3, <3>2, <3>3
      <4>4. Opening(l) <=> Head(l) \in Verbs
        BY <3>3 DEF Opening
      <4>5. malformed' = {} /\ ~unknownFound' <=> Head(l) \in Verbs \ Blockless
        BY <1>1, <3>1, <4>3, <4>4
      <4>6. OpenVerb(file') = Head(l)
        BY <2>2, <2>4, <2>7, <3>2, <3>3
      <4> QED
        BY <1>1, <2>3, <2>5, <2>6, <3>1, <4>1, <4>2, <4>4, <4>5, <4>6
    <3>4. CASE block = "" /\ ~Opens(l)
      <4>1. l = <<>> \/ Head(l) \notin Verbs
        BY <2>11, <3>4 DEF IsDirective, Opening
      <4>2. ~Opening(l)
        BY <3>4 DEF Opening
      <4>3. CASE l = <<>>
        <5>1. ~States(file, l) /\ ~unknownFound'
          BY <2>3, <2>8, <4>3
        <5>2. ValidSoFar(file', Verbs)
          BY <1>5, <1>7, <2>1, <3>4, <5>1
        <5>3. malformed' = {} /\ block' = "" /\ OpenVerb(file') = ""
          BY <1>1, <2>2, <2>4, <3>1, <3>4, <4>2
        <5> QED
          BY <1>1, <2>3, <2>5, <2>6, <3>1, <5>1, <5>2, <5>3
      <4>4. CASE l # <<>> /\ Head(l) \notin Verbs
        <5>1. unknownFound' /\ States(file, l)
          BY <2>2, <2>3, <2>8, <3>4, <4>4
        <5>2. Stated(file, l).verb = Head(l)
          <6>1. Directive(l) = [verb |-> Head(l), args |-> Tail(l)]
            BY <3>4 DEF Directive
          <6> QED
            BY <2>9, <6>1
        <5> QED
          BY <1>5, <4>4, <5>1, <5>2
      <4> QED
        BY <4>1, <4>3, <4>4
    <3>5. CASE block # ""
      <4>1. l = <<>> \/ Closes(l)
        BY <2>11, <3>5 DEF IsDirective, Opening
      <4>2. ~States(file, l) /\ ~AtTop(file) /\ ~Opening(l) /\ ~unknownFound'
        BY <2>2, <2>3, <2>8, <3>5, <4>1 DEF Opening
      <4>3. ValidSoFar(file', Verbs)
        BY <1>5, <1>7, <4>2
      <4>4. malformed' = {} /\ block' = OpenVerb(file')
        BY <1>1, <2>4, <3>1, <3>5, <4>2
      <4> QED
        BY <1>1, <2>3, <2>5, <2>6, <3>1, <4>2, <4>3, <4>4
    <3> QED
      BY <3>3, <3>4, <3>5
  <2> QED
    BY <2>10, <2>11
<1> QED
  BY <1>6, <1>7

LEMMA OpenVerbNamed ==
    ASSUME NEW f \in Seq(Line), NEW verbs, ValidSoFar(f, verbs), verbs \subseteq Verbs \cup {"use"}
    PROVE  OpenVerb(f) = "" <=> AtTop(f)
<1>1. ~AtTop(f) => OpenVerb(f) \in verbs
  BY OpenVerbValid
<1>2. "" \notin Verbs \cup {"use"}
  BY DEF Verbs
<1>3. AtTop(f) => OpenVerb(f) = ""
  BY DEF OpenVerb
<1> QED
  BY <1>1, <1>2, <1>3

LEMMA ModStays ==
    ASSUME Typed, ModInv, [Next]_vars
    PROVE  ModInv'
<1>1. CASE Read
  <2> SUFFICES ASSUME ~torn' PROVE ModInv'
    BY DEF ModInv
  <2>1. PICK l \in Line : /\ ReadLine(l) \/ PastScanner(l)
                          /\ goModUnknownDirective(Stripped(l))
                          /\ file' = Append(file, l)
    BY <1>1, ReadStep
  <2>2. ~atEnd /\ atEnd' = atEnd /\ bom' = bom /\ ~torn /\ ReadLine(l)
    BY <1>1, <2>1, ReadKeeps DEF PastScanner
  <2>3. CASE ~Refused
    BY <2>1, <2>2, <2>3, ValidLineRead
  <2>4. CASE Refused
    <3>1. Refused'
      BY <1>1, <2>4, ReportsStay DEF Next
    <3>2. bom \/ ~ValidSoFar(file, Verbs)
      BY <2>2, <2>4 DEF ModInv
    <3>3. file \in Seq(Line)
      BY DEF Typed
    <3>4. ~(~bom' /\ ValidSoFar(file', Verbs))
      BY <2>1, <2>2, <3>2, <3>3, ValidAfter
    <3> QED
      BY <3>1, <3>4 DEF ModInv
  <2> QED
    BY <2>3, <2>4
<1>2. CASE EndOfFile
  <2> SUFFICES ASSUME ~torn' PROVE ModInv'
    BY DEF ModInv
  <2>1. /\ ~atEnd /\ atEnd'
        /\ malformed' = IF block = "" THEN malformed ELSE malformed \cup {"unterminated-block"}
        /\ UNCHANGED <<bom, file, torn, block, kept, seen, unknownInBlock, unknownFound>>
    BY <1>2 DEF EndOfFile, unknownVars
  <2>2. /\ ~Refused <=> ~bom /\ ValidSoFar(file, Verbs)
        /\ ~Refused => /\ block = OpenVerb(file)
                       /\ seen = SaidIn(file) \cap OnceOnly
                       /\ kept = WrittenWithIn(file, Returned)
                       /\ unknownInBlock <=> ~AtTop(file)
    BY <2>1 DEF ModInv
  <2>3. ~Refused' <=> ~Refused /\ block = ""
    BY <2>1 DEF Refused
  <2>4. ~Refused => (block = "" <=> AtTop(file))
    BY <2>2, OpenVerbNamed DEF Typed
  <2>5. ~Refused' <=> ~bom' /\ ValidSoFar(file', Verbs) /\ (atEnd' => AtTop(file'))
    BY <2>1, <2>2, <2>3, <2>4
  <2>6. ASSUME ~Refused'
        PROVE  /\ block' = OpenVerb(file')
               /\ seen' = SaidIn(file') \cap OnceOnly
               /\ kept' = WrittenWithIn(file', Returned)
               /\ unknownInBlock' <=> ~AtTop(file')
    BY <2>1, <2>2, <2>3, <2>6
  <2> QED
    BY <2>5, <2>6 DEF ModInv
<1>3. CASE Done \/ UNCHANGED vars
  <2>1. UNCHANGED <<bom, file, torn, atEnd, block, kept, seen, malformed, unknownInBlock, unknownFound>>
    BY <1>3 DEF Done, vars, parserVars, unknownVars
  <2> QED
    BY <2>1 DEF ModInv, Refused
<1> QED
  BY <1>1, <1>2, <1>3 DEF Next

-----------------------------------------------------------------------------
(* The scanners on a go.work. *)

ReplacesIn(s) == Picked(s, {i \in DOMAIN s : s[i].verb = "replace"})

(* While a go.work is valid as far as it is read, ParseGoMod knows the       *)
(* blocks it is in but for those of use, whose entries it takes for          *)
(* directives and refuses, and keeps the replaces that are written; and      *)
(* goWorkUseDirectiveMalformed knows the blocks of use.                      *)
WorkInv ==
    ~bom /\ ValidSoFar(file, WorkVerbs) =>
        /\ ~torn => /\ block = IF OpenVerb(file) = "use" THEN "" ELSE OpenVerb(file)
                    /\ seen = SaidIn(file) \cap OnceOnly
                    /\ malformed \subseteq Verbs \cup {"unterminated-block"}
                    /\ Replaces = WrittenWithIn(file, {"replace"})
                    /\ \A i \in DOMAIN kept : kept[i].verb \in {"replace", "godebug"}
        /\ NoUseIn(file) => /\ ~useBad
                            /\ ~torn => (useInBlock <=> OpenVerb(file) = "use")

LEMMA ReplacesAfter ==
    ASSUME NEW s \in Seq(Kept), NEW d \in Kept
    PROVE  ReplacesIn(Append(s, d)) =
             IF d.verb = "replace" THEN Append(ReplacesIn(s), d) ELSE ReplacesIn(s)
<1> DEFINE t == Append(s, d)
           P == {i \in DOMAIN t : t[i].verb = "replace"}
           Q == {i \in DOMAIN s : s[i].verb = "replace"}
<1>1. /\ Len(s) \in Nat /\ DOMAIN s = 1..Len(s)
      /\ Len(t) = Len(s) + 1 /\ DOMAIN t = 1..(Len(s) + 1)
      /\ \A i \in 1..Len(s) : t[i] = s[i]
      /\ t[Len(s) + 1] = d
  OBVIOUS
<1> HIDE DEF t
<1>2. 1..Len(s) \subseteq 1..(Len(s) + 1) /\ Len(s) + 1 \in 1..(Len(s) + 1)
  BY <1>1
<1>3. \A i \in 1..Len(s) : t[i] = s[i] /\ (i \in P <=> i \in Q)
  BY <1>1, <1>2
<1>4. Len(t) \in P <=> d.verb = "replace"
  BY <1>1, <1>2
<1> HIDE DEF P, Q
<1>5. Picked(t, P) = IF Len(t) \in P THEN Append(Picked(s, Q), t[Len(t)]) ELSE Picked(s, Q)
  BY <1>1, <1>3, PickedMore
<1>6. ReplacesIn(t) = Picked(t, P) /\ ReplacesIn(s) = Picked(s, Q)
  BY DEF ReplacesIn, P, Q
<1> QED
  BY <1>1, <1>4, <1>5, <1>6 DEF t

LEMMA TailOfOne ==
    ASSUME NEW l \in Seq(Token), Len(l) = 1
    PROVE  Tail(l) = <<>>
<1>1. Tail(l) \in Seq(Token) /\ Len(Tail(l)) = 0
  <2>1. l # <<>>
    BY EmptySeq
  <2> QED
    BY <2>1, HeadTailProperties
<1> QED
  BY <1>1, EmptySeq

(* What ParseGoMod makes of one line of a valid go.work.                     *)
LEMMA WorkLineParsed ==
    ASSUME NEW l \in Line, Typed, WorkInv, ~bom, ~torn,
           ParseLine(l), file' = Append(file, l), ValidSoFar(file', WorkVerbs)
    PROVE  /\ block' = IF OpenVerb(file') = "use" THEN "" ELSE OpenVerb(file')
           /\ seen' = SaidIn(file') \cap OnceOnly
           /\ malformed' \subseteq Verbs \cup {"unterminated-block"}
           /\ Replaces' = WrittenWithIn(file', {"replace"})
           /\ \A i \in DOMAIN kept' : kept'[i].verb \in {"replace", "godebug"}
<1>1. file \in Seq(Line) /\ kept \in Seq(Kept)
  BY DEF Typed
<1>2. /\ ValidSoFar(file, WorkVerbs)
      /\ ~Has(l, "/*")
      /\ AtTop(file) /\ Opens(Stripped(l)) => l[1] \in WorkVerbs \ Blockless
      /\ States(file, l) => /\ Stated(file, l).verb \in WorkVerbs
                            /\ Acceptable(Stated(file, l))
                            /\ Stated(file, l).verb \notin SaidIn(file) \cap OnceOnly
  BY <1>1, ValidAfter
<1>3. /\ block = IF OpenVerb(file) = "use" THEN "" ELSE OpenVerb(file)
      /\ seen = SaidIn(file) \cap OnceOnly
      /\ malformed \subseteq Verbs \cup {"unterminated-block"}
      /\ ReplacesIn(kept) = WrittenWithIn(file, {"replace"})
      /\ \A i \in DOMAIN kept : kept[i].verb \in {"replace", "godebug"}
  BY <1>2 DEF WorkInv, Replaces, ReplacesIn
<1>4. Stripped(l) = l
  BY <1>2 DEF Stripped
<1>5. SUFFICES /\ block' = IF OpenVerb(file') = "use" THEN "" ELSE OpenVerb(file')
               /\ seen' = SaidIn(file') \cap OnceOnly
               /\ malformed' \subseteq Verbs \cup {"unterminated-block"}
               /\ ReplacesIn(kept') = WrittenWithIn(file', {"replace"})
               /\ \A i \in DOMAIN kept' : kept'[i].verb \in {"replace", "godebug"}
  BY DEF Replaces, ReplacesIn
<1>6. /\ AtTop(file') <=> IF AtTop(file) THEN ~Opens(l) ELSE Closes(l)
      /\ OpenVerb(file') = IF AtTop(file) THEN IF Opens(l) THEN l[1] ELSE ""
                           ELSE IF Closes(l) THEN "" ELSE OpenVerb(file)
  <2>1. /\ AtTop(file') <=> IF AtTop(file) THEN ~Opens(Stripped(l)) ELSE Closes(Stripped(l))
        /\ OpenVerb(file') = IF AtTop(file) THEN IF Opens(Stripped(l)) THEN l[1] ELSE ""
                             ELSE IF Closes(Stripped(l)) THEN "" ELSE OpenVerb(file)
    BY <1>1, BlockAfter
  <2> QED
    BY <1>4, <2>1
<1>7. SaidIn(file') = SaidIn(file) \cup (IF States(file, l) THEN {Stated(file, l).verb} ELSE {})
  BY <1>1, SaidAfter
<1>8. WrittenWithIn(file', {"replace"}) =
        IF States(file, l) /\ Stated(file, l).verb = "replace" /\ Accepted(Stated(file, l))
        THEN Append(ReplacesIn(kept), Stated(file, l)) ELSE ReplacesIn(kept)
  <2>1. Stated(file, l).verb \in {"replace"} <=> Stated(file, l).verb = "replace"
    OBVIOUS
  <2>2. WrittenWithIn(file', {"replace"}) =
          IF States(file, l) /\ Stated(file, l).verb \in {"replace"} /\ Accepted(Stated(file, l))
          THEN Append(WrittenWithIn(file, {"replace"}), Stated(file, l)) ELSE WrittenWithIn(file, {"replace"})
    BY <1>1, WrittenWithAfter
  <2> QED
    BY <1>3, <2>1, <2>2
<1>9. /\ OpenVerb(file) = "" <=> AtTop(file)
      /\ OpenVerb(file) \in {"", "godebug", "use", "replace"}
  <2>1. WorkVerbs \subseteq Verbs \cup {"use"}
    BY DEF WorkVerbs, Verbs
  <2>2. OpenVerb(file) = "" <=> AtTop(file)
    BY <1>1, <1>2, <2>1, OpenVerbNamed
  <2>3. ~AtTop(file) => OpenVerb(file) \in WorkVerbs \ Blockless
    BY <1>1, <1>2, OpenVerbValid
  <2> QED
    BY <2>2, <2>3 DEF WorkVerbs, Blockless
<1>10. /\ "use" \notin OnceOnly /\ "use" \notin Verbs /\ "use" # "replace" /\ "use" # "godebug"
       /\ "godebug" \notin OnceOnly /\ "replace" \notin OnceOnly
       /\ WorkVerbs \ {"use"} \subseteq Verbs /\ WorkVerbs \cap Returned = {"replace", "godebug"}
  BY DEF OnceOnly, Verbs, WorkVerbs, Returned
<1>11. l # <<>> => Head(l) = l[1]
  BY DEF Line
<1>12. ASSUME NEW d, d = Stated(file, l), States(file, l), d.verb = "use"
       PROVE  SaidIn(file') \cap OnceOnly = seen /\ WrittenWithIn(file', {"replace"}) = ReplacesIn(kept)
  BY <1>3, <1>7, <1>8, <1>10, <1>12
<1>13. ASSUME ~States(file, l)
       PROVE  SaidIn(file') \cap OnceOnly = seen /\ WrittenWithIn(file', {"replace"}) = ReplacesIn(kept)
  BY <1>3, <1>7, <1>8, <1>13
\* a line of a use block, or a use directive
<1>14. CASE OpenVerb(file) = "use"
  <2>1. block = "" /\ ~AtTop(file)
    BY <1>3, <1>9, <1>14
  <2>2. States(file, l) <=> l # <<>> /\ ~Closes(l)
    BY <1>4, <2>1 DEF States
  <2>3. SaidIn(file') \cap OnceOnly = seen /\ WrittenWithIn(file', {"replace"}) = ReplacesIn(kept)
    <3>1. Stated(file, l).verb = "use"
      BY <1>14, <2>1 DEF Stated
    <3> QED
      BY <1>12, <1>13, <3>1
  <2>4. l # <<>> /\ ~Closes(l) => Len(l) = 1
    <3>1. Stated(file, l) = [verb |-> "use", args |-> l]
      BY <1>4, <1>14, <2>1 DEF Stated
    <3>2. l # <<>> /\ ~Closes(l) => WellFormed("use", l)
      BY <1>2, <2>2, <3>1 DEF Acceptable, Accepted
    <3> QED
      BY <3>2 DEF WellFormed, parseToolLine
  <2>5. ~Opening(l)
    <3>1. Len(l) # 2
      <4>1. Len(<<>>) = 0 /\ Len(<<")">>) = 1
        OBVIOUS
      <4> QED
        <5>1. CASE l = <<>>
          BY <4>1, <5>1
        <5>2. CASE l = <<")">>
          BY <4>1, <5>2
        <5>3. CASE l # <<>> /\ l # <<")">>
          <6>1. ~Closes(l)
            BY <5>3 DEF Closes
          <6>2. Len(l) = 1
            BY <2>4, <5>3, <6>1, Zenon
          <6> QED
            BY <6>2
        <5> QED
          BY <5>1, <5>2, <5>3
    <3>2. ~Opens(l)
      BY <3>1 DEF Opens
    <3> QED
      BY <3>2 DEF Opening
  <2>6. block' = "" /\ (OpenVerb(file') = "use" \/ OpenVerb(file') = "")
    <3>1. block' = block
      <4>1. CASE IsDirective(l)
        BY <1>2, <4>1, DirectiveRead
      <4>2. CASE ~IsDirective(l)
        BY <1>2, <2>1, <2>5, <4>2, OtherLineRead
      <4> QED
        BY <4>1, <4>2
    <3> QED
      BY <1>6, <1>14, <2>1, <3>1
  <2>7. CASE IsDirective(l)
    <3> DEFINE d == Directive(l)
    <3>1. Head(l) \in Verbs /\ l # <<>> /\ ~Closes(l)
      <4>1. Head(l) \in Verbs /\ l # <<>>
        BY <2>1, <2>7 DEF IsDirective
      <4>2. Closes(l) => Head(l) = ")"
        BY DEF Closes
      <4>3. ")" \notin Verbs
        BY DEF Verbs
      <4> QED
        BY <4>1, <4>2, <4>3
    <3>2. d.verb \in Verbs /\ d.args = <<>>
      <4>1. d = [verb |-> Head(l), args |-> Tail(l)]
        BY <2>1 DEF Directive
      <4>2. Tail(l) = <<>>
        BY <2>4, <3>1, TailOfOne DEF Line
      <4> QED
        BY <3>1, <4>1, <4>2
    <3> HIDE DEF d
    <3>3. ~Misquoted(d.args) /\ ~Accepted(d)
      <4>1. DOMAIN <<>> = {} /\ Len(<<>>) = 0
        OBVIOUS
      <4>2. ~Misquoted(<<>>)
        BY <4>1 DEF Misquoted, lineHasUnterminatedQuotedString, lineHasInvalidQuotedToken, Has
      <4>3. ~WellFormed(d.verb, <<>>)
        <5>1. /\ ~parseRequireLine(<<>>) /\ ~parseReplaceLine(<<>>) /\ ~parseGodebugLine(<<>>)
              /\ ~parseRetractLine(<<>>) /\ ~parseToolLine(<<>>)
          BY <4>1 DEF parseRequireLine, parseReplaceLine, parseGodebugLine, parseRetractLine, parseToolLine
        <5> QED
          BY <5>1 DEF WellFormed
      <4> QED
        BY <3>2, <4>2, <4>3 DEF Accepted
    <3>4. seen' = seen /\ kept' = kept /\ malformed' \subseteq malformed \cup {d.verb}
      BY <1>2, <2>7, <3>3, DirectiveRead DEF d
    <3> QED
      BY <1>3, <2>3, <2>6, <3>2, <3>4
  <2>8. CASE ~IsDirective(l)
    <3>1. kept' = kept /\ seen' = seen /\ malformed' = malformed
      BY <1>2, <2>5, <2>8, OtherLineRead
    <3> QED
      BY <1>3, <2>3, <2>6, <3>1
  <2> QED
    BY <2>7, <2>8
<1>15. CASE OpenVerb(file) # "use"
  <2>1. block = OpenVerb(file) /\ (block = "" <=> AtTop(file))
    BY <1>3, <1>9, <1>15
  <2>2. States(file, l) <=> l # <<>> /\ IF block = "" THEN ~Opens(l) ELSE ~Closes(l)
    BY <1>4, <2>1 DEF States
  <2>3. Stated(file, l) = Directive(l)
    BY <1>4, <2>1 DEF Stated, Directive
  <2>4. CASE IsDirective(l)
    <3> DEFINE d == Directive(l)
    <3>1. States(file, l)
      <4>1. block = "" /\ Head(l) \in Verbs => ~Opens(l)
        BY <2>4 DEF IsDirective, Opening
      <4> QED
        BY <2>2, <2>4, <4>1 DEF IsDirective
    <3>2. d \in Kept /\ d.verb \in Verbs
      BY <2>4, DirectiveTyped DEF Kept
    <3>3. d.verb \in WorkVerbs /\ Acceptable(d) /\ d.verb \notin seen
      BY <1>2, <1>3, <2>3, <3>1
    <3>4. /\ block' = block /\ malformed' = malformed
          /\ seen' = seen \cup ({d.verb} \cap OnceOnly)
          /\ kept' = IF d.verb \in Returned /\ Accepted(d) THEN Append(kept, d) ELSE kept
      BY <1>2, <2>4, <3>3, DirectiveRead
    <3>5. OpenVerb(file') = block
      BY <1>6, <2>1, <2>2, <3>1
    <3> HIDE DEF d
    <3>6. SaidIn(file') = SaidIn(file) \cup {d.verb}
      BY <1>7, <2>3, <3>1 DEF d
    <3>7. WrittenWithIn(file', {"replace"}) =
            IF d.verb = "replace" /\ Accepted(d) THEN Append(ReplacesIn(kept), d) ELSE ReplacesIn(kept)
      BY <1>8, <2>3, <3>1 DEF d
    <3>8. d.verb \in Returned => d.verb \in {"replace", "godebug"}
      BY <1>10, <3>3
    <3>9. "replace" \in Returned
      BY DEF Returned
    <3>10. ReplacesIn(kept') = WrittenWithIn(file', {"replace"})
      BY <1>1, <3>2, <3>4, <3>7, <3>9, ReplacesAfter
    <3>11. \A i \in DOMAIN kept' : kept'[i].verb \in {"replace", "godebug"}
      <4>1. CASE kept' = kept
        BY <1>3, <4>1
      <4>2. CASE kept' = Append(kept, d) /\ d.verb \in Returned
        <5>1. /\ DOMAIN kept = 1..Len(kept) /\ Len(kept) \in Nat
              /\ DOMAIN kept' = 1..(Len(kept) + 1)
              /\ \A i \in 1..Len(kept) : kept'[i] = kept[i]
              /\ kept'[Len(kept) + 1] = d
          BY <1>1, <3>2, <4>2
        <5>2. 1..(Len(kept) + 1) = (1..Len(kept)) \cup {Len(kept) + 1}
          BY <5>1
        <5> QED
          BY <1>3, <3>8, <4>2, <5>1, <5>2
      <4> QED
        BY <3>4, <4>1, <4>2
    <3> QED
      BY <1>3, <2>1, <3>4, <3>5, <3>6, <3>10, <3>11, <1>15
  <2>5. CASE ~IsDirective(l)
    <3>1. /\ kept' = kept /\ seen' = seen
          /\ block' = IF Opening(l) /\ Head(l) \notin Blockless THEN Head(l)
                      ELSE IF block # "" /\ Closes(l) THEN "" ELSE block
          /\ ~(Opening(l) /\ Head(l) \in Blockless) => malformed' = malformed
      BY <1>2, <2>5, OtherLineRead
    <3>2. Opens(l) => l # <<>>
      BY DEF Opens
    <3>3. Opening(l) => Head(l) \notin Blockless
      BY <1>2, <1>4, <1>11, <2>1, <3>2 DEF Opening
    <3>4. block' = IF OpenVerb(file') = "use" THEN "" ELSE OpenVerb(file')
      <4>1. CASE block = "" /\ Opens(l)
        <5>1. OpenVerb(file') = Head(l) /\ Head(l) \in WorkVerbs
          BY <1>2, <1>4, <1>6, <1>11, <2>1, <3>2, <4>1
        <5>2. Opening(l) <=> Head(l) # "use"
          BY <1>10, <4>1, <5>1 DEF Opening
        <5> QED
          BY <3>1, <3>3, <4>1, <5>1, <5>2
      <4>2. CASE block = "" /\ ~Opens(l)
        BY <1>6, <2>1, <3>1, <4>2 DEF Opening
      <4>3. CASE block # ""
        <5>1. ~Opening(l)
          BY <4>3 DEF Opening
        <5> QED
          BY <1>6, <1>15, <2>1, <3>1, <4>3, <5>1
      <4> QED
        BY <4>1, <4>2, <4>3
    <3>5. States(file, l) => Stated(file, l).verb = "use"
      <4> SUFFICES ASSUME States(file, l) PROVE Stated(file, l).verb = "use"
        OBVIOUS
      <4>1. block = "" /\ Head(l) \notin Verbs
        BY <2>2, <2>5 DEF IsDirective, Opening
      <4>2. Stated(file, l).verb = Head(l)
        <5>1. Directive(l) = [verb |-> Head(l), args |-> Tail(l)]
          BY <4>1 DEF Directive
        <5> QED
          BY <2>3, <5>1
      <4> QED
        BY <1>2, <1>10, <4>1, <4>2
    <3>6. SaidIn(file') \cap OnceOnly = seen /\ WrittenWithIn(file', {"replace"}) = ReplacesIn(kept)
      BY <1>12, <1>13, <3>5
    <3> QED
      BY <1>3, <3>1, <3>3, <3>4, <3>6
  <2> QED
    BY <2>4, <2>5
<1> QED
  BY <1>14, <1>15

(* What goWorkUseDirectiveMalformed makes of it.                             *)
LEMMA UseLineRead ==
    ASSUME NEW l \in Line, Typed, goWorkUseDirectiveMalformed(l),
           file' = Append(file, l), ValidSoFar(file', WorkVerbs), NoUseIn(file'),
           ~useBad, useInBlock <=> OpenVerb(file) = "use"
    PROVE  ~useBad' /\ (useInBlock' <=> OpenVerb(file') = "use")
<1>1. file \in Seq(Line)
  BY DEF Typed
<1>2. /\ ValidSoFar(file, WorkVerbs)
      /\ ~Has(l, "/*")
      /\ States(file, l) => /\ Stated(file, l).verb \in WorkVerbs
                            /\ Acceptable(Stated(file, l))
  BY <1>1, ValidAfter
<1>3. Stripped(l) = l
  BY <1>2 DEF Stripped
<1>4. OpenVerb(file') = IF AtTop(file) THEN IF Opens(l) THEN l[1] ELSE ""
                        ELSE IF Closes(l) THEN "" ELSE OpenVerb(file)
  <2>1. OpenVerb(file') = IF AtTop(file) THEN IF Opens(Stripped(l)) THEN l[1] ELSE ""
                          ELSE IF Closes(Stripped(l)) THEN "" ELSE OpenVerb(file)
    BY <1>1, BlockAfter
  <2> QED
    BY <1>3, <2>1
<1>5. States(file, l) => ~(Stated(file, l).verb \in {"replace", "godebug"} /\ l[1] = "use")
  BY <1>1, NoUseAfter
<1>6. /\ States(file, l) <=> l # <<>> /\ IF AtTop(file) THEN ~Opens(l) ELSE ~Closes(l)
      /\ Stated(file, l) = IF AtTop(file) THEN [verb |-> Head(l), args |-> Tail(l)]
                           ELSE [verb |-> OpenVerb(file), args |-> l]
  BY <1>3 DEF States, Stated
<1>7. l # <<>> => Head(l) = l[1]
  BY DEF Line
<1>8. ASSUME NEW args, Acceptable([verb |-> "use", args |-> args])
      PROVE  ~useArgInvalid(args)
  <2>1. Accepted([verb |-> "use", args |-> args])
    BY <1>8 DEF Acceptable
  <2>2. WellFormed("use", args) /\ ~Misquoted(args)
    BY <2>1 DEF Accepted
  <2>3. parseToolLine(args)
    BY <2>2 DEF WellFormed
  <2> QED
    BY <2>2, <2>3 DEF useArgInvalid
<1> DEFINE isUse == ~useInBlock /\ l # <<>> /\ Head(l) = "use"
           entry == useInBlock /\ l # <<>> /\ ~Closes(l)
<1>9. /\ useInBlock' = IF useInBlock THEN ~Closes(l) ELSE isUse /\ Opens(l)
      /\ useBad' = (\/ useBad
                    \/ entry /\ useArgInvalid(l)
                    \/ isUse /\ ~Opens(l) /\ useArgInvalid(Tail(l)))
  BY DEF goWorkUseDirectiveMalformed
<1>10. AtTop(file) => OpenVerb(file) = ""
  BY DEF OpenVerb
<1>11. CASE OpenVerb(file) = "use"
  <2>1. ~AtTop(file) /\ useInBlock
    BY <1>10, <1>11
  <2>2. entry => ~useArgInvalid(l)
    BY <1>2, <1>6, <1>8, <1>11, <2>1
  <2>3. ~useBad'
    BY <1>9, <2>1, <2>2
  <2> QED
    BY <1>4, <1>9, <1>11, <2>1, <2>3
<1>12. CASE OpenVerb(file) # "use" /\ AtTop(file)
  <2>1. ~useInBlock
    BY <1>12
  <2>2. isUse /\ ~Opens(l) => ~useArgInvalid(Tail(l))
    BY <1>2, <1>6, <1>8, <1>12
  <2>3. ~useBad'
    BY <1>9, <2>1, <2>2
  <2>4. Opens(l) => l # <<>>
    BY DEF Opens
  <2>5. useInBlock' <=> OpenVerb(file') = "use"
    BY <1>4, <1>7, <1>9, <1>12, <2>1, <2>4
  <2> QED
    BY <2>3, <2>5
<1>13. CASE OpenVerb(file) # "use" /\ ~AtTop(file)
  <2>1. OpenVerb(file) \in {"replace", "godebug"}
    <3>1. OpenVerb(file) \in WorkVerbs \ Blockless
      BY <1>1, <1>2, <1>13, OpenVerbValid
    <3> QED
      BY <1>13, <3>1 DEF WorkVerbs, Blockless
  <2>2. ~isUse
    <3> SUFFICES ASSUME isUse PROVE FALSE
      OBVIOUS
    <3>1. ~Closes(l)
      <4>1. Closes(l) => Head(l) = ")"
        BY DEF Closes
      <4> QED
        BY <4>1
    <3>2. States(file, l) /\ Stated(file, l).verb = OpenVerb(file) /\ l[1] = "use"
      BY <1>6, <1>7, <1>13, <3>1
    <3> QED
      BY <1>5, <2>1, <3>2
  <2>3. ~useInBlock
    BY <1>13
  <2> QED
    BY <1>4, <1>9, <1>13, <2>2, <2>3
<1> QED
  BY <1>11, <1>12, <1>13

LEMMA WorkStays ==
    ASSUME Typed, WorkInv, [Next]_vars
    PROVE  WorkInv'
<1>1. CASE Read
  <2>1. PICK l \in Line : /\ ReadLine(l) \/ PastScanner(l)
                          /\ file' = Append(file, l)
                          /\ ~bom => Glued(l) = Stripped(l)
    BY <1>1, ReadStep
  <2>2. bom' = bom /\ (torn => torn') /\ file \in Seq(Line)
    BY <1>1, ReadKeeps DEF Typed
  <2> SUFFICES ASSUME ~bom', ValidSoFar(file', WorkVerbs)
               PROVE  WorkInv'
    BY DEF WorkInv
  <2>3. ~bom /\ ValidSoFar(file, WorkVerbs) /\ ~Has(l, "/*")
    BY <2>1, <2>2, ValidAfter
  <2>4. NoUseIn(file') => NoUseIn(file)
    BY <2>1, <2>2, NoUseAfter
  <2>5. NoUseIn(file) => ~useBad /\ (~torn => (useInBlock <=> OpenVerb(file) = "use"))
    BY <2>3 DEF WorkInv
  <2>6. CASE PastScanner(l)
    <3>1. torn' /\ useBad' = useBad
      BY <2>6 DEF PastScanner, useVars
    <3> QED
      BY <2>4, <2>5, <3>1 DEF WorkInv
  <2>7. CASE ReadLine(l)
    <3>1. ~torn /\ ParseLine(l) /\ goWorkUseDirectiveMalformed(l)
      <4>1. Glued(l) = l
        BY <2>1, <2>3 DEF Stripped
      <4> QED
        BY <2>7, <4>1 DEF ReadLine
    <3>2. /\ block' = IF OpenVerb(file') = "use" THEN "" ELSE OpenVerb(file')
          /\ seen' = SaidIn(file') \cap OnceOnly
          /\ malformed' \subseteq Verbs \cup {"unterminated-block"}
          /\ Replaces' = WrittenWithIn(file', {"replace"})
          /\ \A i \in DOMAIN kept' : kept'[i].verb \in {"replace", "godebug"}
      BY <2>1, <2>3, <3>1, WorkLineParsed
    <3>3. ASSUME NoUseIn(file')
          PROVE  ~useBad' /\ (useInBlock' <=> OpenVerb(file') = "use")
      BY <2>1, <2>4, <2>5, <3>1, <3>3, UseLineRead
    <3> QED
      BY <3>2, <3>3 DEF WorkInv
  <2> QED
    BY <2>1, <2>6, <2>7
<1>2. CASE EndOfFile
  <2>1. /\ malformed' \subseteq malformed \cup {"unterminated-block"}
        /\ UNCHANGED <<bom, file, torn, block, kept, seen, useInBlock, useBad>>
    BY <1>2 DEF EndOfFile, useVars
  <2>2. Replaces' = Replaces
    BY <2>1 DEF Replaces
  <2> QED
    BY <2>1, <2>2 DEF WorkInv
<1>3. CASE Done \/ UNCHANGED vars
  <2>1. UNCHANGED <<bom, file, torn, block, kept, seen, malformed, useInBlock, useBad>>
    BY <1>3 DEF Done, vars, parserVars, useVars
  <2>2. Replaces' = Replaces
    BY <2>1 DEF Replaces
  <2> QED
    BY <2>1, <2>2 DEF WorkInv
<1> QED
  BY <1>1, <1>2, <1>3 DEF Next

(* Of a valid go.work, so far.                                               *)
LEMMA ValidWork ==
    ASSUME Typed, ScanInv, WorkInv, ValidWith(WorkVerbs), ~torn
    PROVE  /\ ~goWorkUnknownDirective /\ ~goWorkHasInvalidQuotedToken
           /\ ~goWorkHasUnterminatedQuotedString /\ ~goWorkHasBlockForm
           /\ Replaces = WrittenWith({"replace"})
<1>1. ~bom /\ ValidSoFar(file, WorkVerbs) /\ file \in Seq(Line)
  BY OfTheFile DEF Typed
<1>2. /\ malformed \subseteq Verbs \cup {"unterminated-block"}
      /\ Replaces = WrittenWithIn(file, {"replace"})
      /\ \A i \in DOMAIN kept : kept[i].verb \in {"replace", "godebug"}
  BY <1>1 DEF WorkInv
<1>3. /\ "invalid-quoted-token" \notin malformed /\ "unterminated-quoted-string" \notin malformed
      /\ "toolchain-unterminated-quoted-string" \notin malformed
      /\ "go-block-form" \notin malformed /\ "toolchain-block-form" \notin malformed
  BY <1>2 DEF Verbs
<1>4. KeptVerbs \cap {"module", "require", "exclude", "tool"} = {}
  BY <1>2 DEF KeptVerbs
<1>5. "ignore" \notin topVerbs
  <2>1. topVerbs = HeadsIn(file)
    BY <1>1 DEF ScanInv
  <2>2. ASSUME NEW i \in StatementsIn(file) \cup OpenersIn(file), TopIn(file, i)
        PROVE  Stripped(file[i])[1] \in WorkVerbs
    <3>1. CASE i \in StatementsIn(file)
      <4>1. WrittenIn(file, i) = [verb |-> Head(Stripped(file[i])), args |-> Tail(Stripped(file[i]))]
        BY <2>2 DEF WrittenIn
      <4>2. WrittenIn(file, i).verb \in WorkVerbs
        BY <1>1, <3>1 DEF ValidSoFar
      <4>3. Stripped(file[i]) # <<>> /\ i \in DOMAIN file
        BY <3>1 DEF StatementsIn
      <4>4. Stripped(file[i]) = file[i] /\ file[i] \in Seq(Token)
        BY <1>1, <4>3 DEF Stripped, Line
      <4>5. Head(Stripped(file[i])) = Stripped(file[i])[1]
        BY <4>3, <4>4
      <4> QED
        BY <4>1, <4>2, <4>5
    <3>2. CASE i \in OpenersIn(file)
      <4>1. file[i][1] \in WorkVerbs
        BY <1>1, <3>2 DEF ValidSoFar
      <4>2. Stripped(file[i]) = file[i]
        <5>1. i \in DOMAIN file
          BY <3>2 DEF OpenersIn
        <5> QED
          BY <1>1, <5>1 DEF ValidSoFar, Stripped
      <4> QED
        BY <4>1, <4>2
    <3> QED
      BY <2>2, <3>1, <3>2
  <2>3. HeadsIn(file) \subseteq WorkVerbs
    BY <2>2 DEF HeadsIn
  <2> QED
    BY <2>1, <2>3 DEF WorkVerbs
<1>6. WrittenWith({"replace"}) = WrittenWithIn(file, {"replace"})
  BY OfTheFile
<1> QED
  BY <1>2, <1>3, <1>4, <1>5, <1>6 DEF goWorkUnknownDirective, goWorkHasInvalidQuotedToken,
     goWorkHasUnterminatedQuotedString, goWorkHasBlockForm

-----------------------------------------------------------------------------
ParserInv == Typed /\ ScanInv /\ ModInv /\ WorkInv

THEOREM ParserInvariant == Spec => []ParserInv
<1>1. Init => ParserInv
  <2> SUFFICES ASSUME Init PROVE ParserInv
    OBVIOUS
  <2>1. /\ kind \in {"go.mod", "go.work"} /\ bom \in BOOLEAN
        /\ file = <<>> /\ ~torn /\ ~atEnd /\ block = "" /\ kept = <<>> /\ seen = {}
        /\ malformed = IF bom THEN {"bom"} ELSE {}
        /\ ~topInBlock /\ topVerbs = {} /\ goLine = NoGoLine
        /\ ~unknownInBlock /\ ~unknownFound /\ ~useInBlock /\ ~useBad
    BY DEF Init
  <2>2. /\ AtTop(file) /\ OpenVerb(file) = "" /\ SaidIn(file) = {} /\ HeadsIn(file) = {}
        /\ GoLineIn(file) = NoGoLine
        /\ \A verbs : ValidSoFar(file, verbs) /\ WrittenWithIn(file, verbs) = <<>>
    BY <2>1, NothingWritten
  <2>3. Typed
    <3>1. file \in Seq(Line) /\ kept \in Seq(Kept)
      BY <2>1, EmptySeq
    <3> QED
      BY <2>1, <3>1 DEF Typed
  <2>4. ScanInv
    BY <2>1, <2>2 DEF ScanInv
  <2>5. ModInv
    <3>1. Refused <=> bom
      BY <2>1 DEF Refused
    <3> QED
      BY <2>1, <2>2, <3>1 DEF ModInv
  <2>6. WorkInv
    <3>1. Replaces = <<>> /\ DOMAIN kept = {}
      <4>1. Replaces = Picked(<<>>, {i \in DOMAIN kept : kept[i].verb = "replace"}) /\ kept = <<>>
        BY <2>1 DEF Replaces
      <4>2. DOMAIN <<>> = {}
        OBVIOUS
      <4> QED
        BY <4>1, <4>2, NothingPicked
    <3> QED
      BY <2>1, <2>2, <3>1 DEF WorkInv
  <2> QED
    BY <2>3, <2>4, <2>5, <2>6 DEF ParserInv
<1>2. ParserInv /\ [Next]_vars => ParserInv'
  BY TypedStays, ScanStays, ModStays, WorkStays DEF ParserInv
<1> QED
  BY <1>1, <1>2, PTL DEF Spec

(* A go.mod of any length, made of any lines, is reported or cannot be       *)
(* loaded exactly when it is not a go.mod: no combination of ParseGoMod,     *)
(* hasTopLevelDirective and goModUnknownDirective losing their way, each at  *)
(* its own line, lets a wrong one through or accuses a right one.            *)
THEOREM RefusalIsExact == Spec => []RefusedExactlyWhenInvalid
<1>1. ParserInv => RefusedExactlyWhenInvalid
  <2>1. torn => Refused
    BY DEF Refused
  <2> QED
    BY <2>1, OfTheFile DEF ParserInv, ModInv, RefusedExactlyWhenInvalid
<1> QED
  BY <1>1, ParserInvariant, PTL

(* What ParseGoMod returns of such a file is every directive it states, in   *)
(* a block or out of one, in order and once each.                            *)
THEOREM CollectionIsExact == Spec => []CollectedAsWritten
<1>1. ParserInv => CollectedAsWritten
  <2>1. torn => Refused
    BY DEF Refused
  <2> QED
    BY <2>1, OfTheFile DEF ParserInv, ModInv, CollectedAsWritten
<1> QED
  BY <1>1, ParserInvariant, PTL

(* hasTopLevelDirective finds the verbs at the top level and                 *)
(* goDirectiveVersion the file's own top-level go directive, even in a file  *)
(* that is no go.mod; an entry of an earlier block that begins with "go" is  *)
(* the one thing the latter takes for it.                                    *)
THEOREM ScannersReadAsWritten == Spec => []TopLevelAsWritten
<1>1. ParserInv => TopLevelAsWritten
  <2>1. {Stripped(file[i])[1] : i \in {j \in Statements \cup Openers : TopLevel(j)}} = HeadsIn(file)
    BY OfTheFile DEF HeadsIn
  <2>2. ASSUME ParserInv, goLine = GoLineIn(file)
        PROVE  \/ goLine = IF OwnGoLines = {} THEN NoGoLine ELSE Tail(file[FirstGoLine(OwnGoLines)])
               \/ \E i \in GoEntries : (\A j \in OwnGoLines : i < j) /\ goLine = Tail(file[i])
    <3> DEFINE own == OwnGoLines
               entries == GoEntries
               all == GoLinesIn(file)
    <3>1. own \cup entries = all /\ own \cap entries = {}
      BY OfTheFile DEF OwnGoLines, GoEntries
    <3>2. all \subseteq Nat
      <4>1. file \in Seq(Line)
        BY <2>2 DEF ParserInv, Typed
      <4>2. DOMAIN file = 1..Len(file) /\ Len(file) \in Nat
        BY <4>1
      <4>3. all \subseteq DOMAIN file
        BY DEF GoLinesIn, StatementsIn
      <4> HIDE DEF all
      <4> QED
        BY <4>2, <4>3
    <3>3. goLine = IF all = {} THEN NoGoLine ELSE Tail(file[FirstGoLine(all)])
      BY <2>2 DEF GoLineIn
    <3> HIDE DEF own, entries, all
    <3>4. CASE all = {}
      BY <3>1, <3>3, <3>4 DEF own
    <3>5. CASE all # {}
      <4>1. PICK m \in all : \A i \in all : m <= i
        BY <3>2, <3>5, LeastOne
      <4>2. FirstGoLine(all) = m
        BY <3>2, <4>1, LeastIsFirst
      <4>3. CASE m \in own
        <5>1. FirstGoLine(own) = m
          BY <3>1, <3>2, <4>1, <4>3, LeastIsFirst
        <5> QED
          BY <3>3, <3>5, <4>2, <4>3, <5>1 DEF own
      <4>4. CASE m \in entries
        <5>1. ASSUME NEW j \in own PROVE m < j
          <6>1. j \in all /\ m # j
            BY <3>1, <4>4
          <6>2. j \in Nat /\ m \in Nat /\ m <= j
            BY <3>2, <4>1, <6>1
          <6> QED
            BY <6>1, <6>2
        <5> QED
          BY <3>3, <3>5, <4>2, <4>4, <5>1 DEF own, entries
      <4> QED
        BY <3>1, <4>1, <4>3, <4>4
    <3> QED
      BY <3>4, <3>5
  <2> QED
    BY <2>1, <2>2 DEF ParserInv, ScanInv, TopLevelAsWritten
<1> QED
  BY <1>1, ParserInvariant, PTL

(* The replaces goWorkReplaces returns of a valid go.work are those it       *)
(* states, although ParseGoMod refuses every use directive on the way.       *)
THEOREM OverlayIsExact == Spec => []OverlayAsWritten
<1>1. ParserInv => OverlayAsWritten
  <2> SUFFICES ASSUME ParserInv, ValidWith(WorkVerbs)
               PROVE  goWorkReplaces = IF torn THEN <<>> ELSE WrittenWith({"replace"})
    BY DEF OverlayAsWritten
  <2>1. CASE torn
    BY <2>1 DEF goWorkReplaces
  <2>2. CASE ~torn
    <3>1. /\ ~goWorkUnknownDirective /\ ~goWorkHasInvalidQuotedToken
          /\ ~goWorkHasUnterminatedQuotedString
          /\ Replaces = WrittenWith({"replace"})
      BY <2>2, ValidWork DEF ParserInv
    <3> QED
      BY <2>2, <3>1 DEF goWorkReplaces
  <2> QED
    BY <2>1, <2>2
<1> QED
  BY <1>1, ParserInvariant, PTL

(* A go.work something is reported of has something wrong, or an entry of a  *)
(* replace or godebug block that begins with the word "use".                 *)
THEOREM WorkReportsAreCaused == Spec => []WorkReportsAreReal
<1>1. ParserInv => WorkReportsAreReal
  <2> SUFFICES ASSUME ParserInv, WorkRefused, ValidWith(WorkVerbs), NoUseIn(file)
               PROVE  FALSE
    BY OfTheFile DEF WorkReportsAreReal, NoUseIn
  <2>1. ~useBad
    <3>1. ~bom /\ ValidSoFar(file, WorkVerbs)
      BY OfTheFile
    <3> QED
      BY <3>1 DEF ParserInv, WorkInv
  <2>2. ~goWorkUnknownDirective /\ ~goWorkHasInvalidQuotedToken
        /\ ~goWorkHasUnterminatedQuotedString /\ ~goWorkHasBlockForm
    <3>1. CASE torn
      BY <3>1 DEF goWorkUnknownDirective, goWorkHasInvalidQuotedToken, goWorkHasUnterminatedQuotedString,
                  goWorkHasBlockForm
    <3>2. CASE ~torn
      BY <3>2, ValidWork DEF ParserInv
    <3> QED
      BY <3>1, <3>2
  <2> QED
    BY <2>1, <2>2 DEF WorkRefused
<1> QED
  BY <1>1, ParserInvariant, PTL
=============================================================================
