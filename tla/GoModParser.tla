----------------------------- MODULE GoModParser -----------------------------
(* How modslop reads go.mod and go.work (src/gomod.go).  Five functions scan *)
(* the same text line by line, each with its own idea of which block it is   *)
(* in: ParseGoMod, hasTopLevelDirective, goDirectiveVersion,                 *)
(* goModUnknownDirective and goWorkUseDirectiveMalformed.  Their answers are *)
(* used side by side, so here they take each line together.  A line is the   *)
(* sequence of its tokens once its "//" comment is gone.                     *)
EXTENDS Naturals, Sequences

CONSTANTS
    Lines,      \* the lines of each kind of file: [{"go.mod", "go.work"} -> SUBSET Line]
    MaxLines    \* bound: the length of a file

(* goModKnownVerbs.                                                          *)
Verbs == {"module", "go", "toolchain", "require", "exclude", "replace", "retract", "tool",
          "godebug", "ignore"}

(* Besides words: "(", ")", "=>", a "k=v" setting, a bracketed retract       *)
(* interval, a token with a stray quote, a string nobody closes (it is the   *)
(* last token), a token too long for bufio.Scanner, and a line inside a      *)
(* block comment.                                                            *)
Token == Verbs \cup {"use", "typo", "path", "version", "(", ")", "=>", "k=v", "[v, v]",
                     "stray-quote", "unclosed", "overlong", "/*"}
Line == Seq(Token)

ASSUME ParserAssumption ==
    /\ Lines \in [{"go.mod", "go.work"} -> SUBSET Line]
    /\ MaxLines \in Nat

VARIABLES
    kind,           \* which file it is
    bom,            \* it begins with a byte order mark
    file,           \* the lines read so far
    torn,           \* a bufio.Scanner has met an overlong line: it reads no further
    atEnd,          \* the file is read
    block,          \* ParseGoMod: blockKind
    kept,           \* ParseGoMod: the directives it returns, in file order
    seen,           \* ParseGoMod: moduleSeen, goSeen, toolchainSeen
    malformed,      \* ParseGoMod: the names of the MalformedDirectives
    topInBlock,     \* hasTopLevelDirective: inBlock
    topVerbs,       \* hasTopLevelDirective: the verbs it finds
    goLine,         \* goDirectiveVersion: what it returns, NoGoLine if nothing yet
    unknownInBlock, \* goModUnknownDirective: inBlock
    unknownFound,   \* goModUnknownDirective has returned a verb
    useInBlock,     \* goWorkUseDirectiveMalformed: inBlock
    useBad          \* goWorkUseDirectiveMalformed has returned an argument

parserVars == <<block, kept, seen, malformed>>
topVars == <<topInBlock, topVerbs>>
unknownVars == <<unknownInBlock, unknownFound>>
useVars == <<useInBlock, useBad>>
vars == <<kind, bom, file, torn, atEnd, parserVars, topVars, goLine, unknownVars, useVars>>

NoGoLine == <<"(">>     \* no answer of goDirectiveVersion: it skips a block form

Init ==
    /\ kind \in {"go.mod", "go.work"}
    /\ bom \in BOOLEAN
    /\ file = <<>> /\ torn = FALSE /\ atEnd = FALSE
    /\ block = "" /\ kept = <<>> /\ seen = {}
    /\ malformed = IF bom THEN {"bom"} ELSE {}
    /\ topInBlock = FALSE /\ topVerbs = {}
    /\ goLine = NoGoLine
    /\ unknownInBlock = FALSE /\ unknownFound = FALSE
    /\ useInBlock = FALSE /\ useBad = FALSE

-----------------------------------------------------------------------------
(* A line as the scanners see it. *)

Has(l, token) == \E i \in DOMAIN l : l[i] = token
Overlong(l) == Has(l, "overlong")

(* stripBlockComments, which all five call first.                            *)
Stripped(l) == IF Has(l, "/*") THEN <<>> ELSE l

(* The three that do not strip the byte order mark see it glued to the first *)
(* word, which is then no verb.                                              *)
Glued(l) ==
    IF bom /\ file = <<>> /\ Stripped(l) = <<>> THEN <<"typo">>
    ELSE IF bom /\ file = <<>> THEN <<"typo">> \o Tail(Stripped(l))
    ELSE Stripped(l)

Closes(l) == l = <<")">>
Opens(l) == Len(l) = 2 /\ l[2] = "("

lineHasUnterminatedQuotedString(args) == Has(args, "unclosed")
lineHasInvalidQuotedToken(args) == Has(args, "stray-quote")
Misquoted(args) == lineHasUnterminatedQuotedString(args) \/ lineHasInvalidQuotedToken(args)

parseRequireLine(args) == Len(args) = 2

parseReplaceLine(args) ==
    \E arrow \in DOMAIN args :
        /\ args[arrow] = "=>"
        /\ \A i \in 1..(arrow - 1) : args[i] # "=>"
        /\ arrow - 1 \in {1, 2} /\ Len(args) - arrow \in {1, 2}

parseToolLine(args) == Len(args) = 1
parseGodebugLine(args) == args = <<"k=v">>
parseRetractLine(args) == Len(args) = 1 /\ args[1] \notin {"(", ")"}

WellFormed(verb, args) ==
    CASE verb \in {"require", "exclude"} -> parseRequireLine(args)
      [] verb = "replace" -> parseReplaceLine(args)
      [] verb = "godebug" -> parseGodebugLine(args)
      [] verb = "retract" -> parseRetractLine(args)
      [] OTHER -> parseToolLine(args)

-----------------------------------------------------------------------------
(* ParseGoMod, one alternative a line. *)

Blockless == {"go", "toolchain"}                \* no block form
OnceOnly == {"module", "go", "toolchain"}       \* a second one is refused
Returned == {"module", "require", "replace", "tool", "exclude", "godebug"}

Malformed(name) == malformed' = malformed \cup {name} /\ UNCHANGED <<block, kept, seen>>

(* The directive a line stands for: an entry of the open block, or a verb    *)
(* and its arguments.                                                        *)
Directive(l) == IF block # "" THEN [verb |-> block, args |-> l]
                ELSE [verb |-> Head(l), args |-> Tail(l)]

Opening(l) == block = "" /\ Opens(l) /\ Head(l) \in Verbs
IsDirective(l) == l # <<>> /\ ~Opening(l) /\ IF block = "" THEN Head(l) \in Verbs ELSE ~Closes(l)

SkipLine(l) ==
    /\ l # <<>> => block = "" /\ Head(l) \notin Verbs
    /\ UNCHANGED parserVars

OpenBlock(l) ==
    /\ Opening(l) /\ Head(l) \notin Blockless
    /\ block' = Head(l)
    /\ UNCHANGED <<kept, seen, malformed>>

BlockForm(l) ==
    /\ Opening(l) /\ Head(l) \in Blockless
    /\ Malformed(Head(l) \o "-block-form")

CloseBlock(l) ==
    /\ block # "" /\ Closes(l)
    /\ block' = ""
    /\ UNCHANGED <<kept, seen, malformed>>

Misquotes(l) ==
    /\ IsDirective(l) /\ Directive(l).verb # "godebug" /\ Misquoted(Directive(l).args)
    /\ Malformed(IF ~lineHasUnterminatedQuotedString(Directive(l).args) THEN "invalid-quoted-token"
                 ELSE IF Directive(l).verb = "toolchain" THEN "toolchain-unterminated-quoted-string"
                 ELSE "unterminated-quoted-string")

Accepted(d) == WellFormed(d.verb, d.args) /\ (d.verb = "godebug" \/ ~Misquoted(d.args))

(* A malformed godebug is dropped without a word.                            *)
Malforms(l) ==
    /\ IsDirective(l) /\ ~Accepted(Directive(l))
    /\ Directive(l).verb = "godebug" \/ ~Misquoted(Directive(l).args)
    /\ IF Directive(l).verb = "godebug" THEN UNCHANGED parserVars
       ELSE Malformed(Directive(l).verb)

Repeats(l) ==
    /\ IsDirective(l) /\ Accepted(Directive(l)) /\ Directive(l).verb \in seen
    /\ Malformed(Directive(l).verb \o "-repeated")

\* mutant: the entries of a block are read and not returned
CollectsTopLevelOnly(l) ==
    /\ IsDirective(l) /\ Accepted(Directive(l)) /\ Directive(l).verb \notin seen
    /\ kept' = IF Directive(l).verb \in Returned /\ block = "" THEN Append(kept, Directive(l)) ELSE kept
    /\ seen' = seen \cup ({Directive(l).verb} \cap OnceOnly)
    /\ UNCHANGED <<block, malformed>>

Collects(l) ==
    /\ IsDirective(l) /\ Accepted(Directive(l)) /\ Directive(l).verb \notin seen
    /\ kept' = IF Directive(l).verb \in Returned THEN Append(kept, Directive(l)) ELSE kept
    /\ seen' = seen \cup ({Directive(l).verb} \cap OnceOnly)
    /\ UNCHANGED <<block, malformed>>

(* A block comment anywhere is noted before the lines are read.              *)
NoteComment(l) ==
    /\ Has(l, "/*")
    /\ Malformed("block-comment")

ParseLine(l) ==
    \/ NoteComment(l)
    \/ /\ ~Has(l, "/*")
       /\ \/ SkipLine(l) \/ OpenBlock(l) \/ BlockForm(l) \/ CloseBlock(l)
          \/ Misquotes(l) \/ Malforms(l) \/ Repeats(l) \/ Collects(l)

-----------------------------------------------------------------------------
(* The other four scanners. *)

\* mutant: blocks ignored
hasTopLevelDirectiveFlat(l) ==
    /\ topInBlock' = FALSE
    /\ topVerbs' = IF l = <<>> THEN topVerbs ELSE topVerbs \cup {Head(l)}

hasTopLevelDirective(l) ==
    /\ topInBlock' = IF topInBlock THEN ~Closes(l) ELSE Opens(l)
    /\ topVerbs' = IF topInBlock \/ l = <<>> THEN topVerbs ELSE topVerbs \cup {Head(l)}

(* It looks for the word at the start of any line, inside a block or not.    *)
goDirectiveVersion(l) ==
    goLine' = IF goLine = NoGoLine /\ l # <<>> /\ Head(l) = "go" THEN Tail(l) ELSE goLine

\* mutant: a block that closes is not noticed
goModUnknownDirectiveOpenEnded(l) ==
    /\ unknownInBlock' = (unknownInBlock \/ Opens(l))
    /\ unknownFound' = (unknownFound \/ (~unknownInBlock /\ l # <<>> /\ Head(l) \notin Verbs))

(* It reads past an overlong line: it splits the text itself.                *)
goModUnknownDirective(l) ==
    /\ unknownInBlock' = IF unknownInBlock THEN ~Closes(l) ELSE Opens(l)
    /\ unknownFound' = (unknownFound \/ (~unknownInBlock /\ l # <<>> /\ Head(l) \notin Verbs))

useArgInvalid(args) == Misquoted(args) \/ ~parseToolLine(args)

\* mutant: a use block that closes is not noticed
goWorkUseDirectiveMalformedOpenEnded(l) ==
    LET isUse == ~useInBlock /\ l # <<>> /\ Head(l) = "use"
        entry == useInBlock /\ l # <<>> /\ ~Closes(l)
    IN  /\ useInBlock' = (useInBlock \/ (isUse /\ Opens(l)))
        /\ useBad' = \/ useBad
                     \/ entry /\ useArgInvalid(l)
                     \/ isUse /\ ~Opens(l) /\ useArgInvalid(Tail(l))

goWorkUseDirectiveMalformed(l) ==
    LET isUse == ~useInBlock /\ l # <<>> /\ Head(l) = "use"
        entry == useInBlock /\ l # <<>> /\ ~Closes(l)
    IN  /\ useInBlock' = IF useInBlock THEN ~Closes(l) ELSE isUse /\ Opens(l)
        /\ useBad' = \/ useBad
                     \/ entry /\ useArgInvalid(l)
                     \/ isUse /\ ~Opens(l) /\ useArgInvalid(Tail(l))

-----------------------------------------------------------------------------
ReadLine(l) ==
    /\ ~torn /\ ~Overlong(l)
    /\ ParseLine(l)
    /\ hasTopLevelDirective(Glued(l))
    /\ goDirectiveVersion(Glued(l))
    /\ goWorkUseDirectiveMalformed(Glued(l))
    /\ UNCHANGED torn

(* scanner.Scan returns false and stays there.                               *)
PastScanner(l) ==
    /\ torn \/ Overlong(l)
    /\ torn' = TRUE
    /\ UNCHANGED <<parserVars, topVars, goLine, useVars>>

Read ==
    /\ ~atEnd /\ Len(file) < MaxLines
    /\ \E l \in Lines[kind] :
         /\ ReadLine(l) \/ PastScanner(l)
         /\ goModUnknownDirective(Stripped(l))
         /\ file' = Append(file, l)
    /\ UNCHANGED <<kind, bom, atEnd>>

\* mutant: a block nobody closes is let pass
EndOfFileUnclosed ==
    /\ ~atEnd
    /\ atEnd' = TRUE
    /\ UNCHANGED <<kind, bom, file, torn, parserVars, topVars, goLine, unknownVars, useVars>>

EndOfFile ==
    /\ ~atEnd
    /\ atEnd' = TRUE
    /\ malformed' = IF block = "" THEN malformed ELSE malformed \cup {"unterminated-block"}
    /\ UNCHANGED <<kind, bom, file, torn, block, kept, seen, topVars, goLine, unknownVars, useVars>>

Done == atEnd /\ UNCHANGED vars

Next == Read \/ EndOfFile \/ Done

Spec == Init /\ [][Next]_vars

-----------------------------------------------------------------------------
(* What the program makes of the scanners' answers. *)

(* go.mod: LoadGoMod's error, checkMalformedDirectives or                    *)
(* checkGoModUnknownDirective.                                               *)
Refused == torn \/ malformed # {} \/ unknownFound

KeptVerbs == {kept[i].verb : i \in DOMAIN kept}

(* go.work: each of these calls ParseGoMod anew, and is silent when it fails.*)
goWorkUnknownDirective ==
    ~torn /\ (KeptVerbs \cap {"module", "require", "exclude", "tool"} # {} \/ "ignore" \in topVerbs)

goWorkHasInvalidQuotedToken == ~torn /\ "invalid-quoted-token" \in malformed

goWorkHasUnterminatedQuotedString ==
    ~torn /\ malformed \cap {"unterminated-quoted-string",
                             "toolchain-unterminated-quoted-string"} # {}

goWorkHasBlockForm == ~torn /\ malformed \cap {"go-block-form", "toolchain-block-form"} # {}

WorkRefused ==
    \/ goWorkUnknownDirective \/ goWorkHasInvalidQuotedToken
    \/ goWorkHasUnterminatedQuotedString \/ goWorkHasBlockForm \/ useBad

(* The elements of a sequence at some of its positions, in their order.      *)
Picked(s, positions) ==
    LET upTo[i \in 0..Len(s)] ==
            IF i = 0 THEN <<>>
            ELSE IF i \in positions THEN Append(upTo[i - 1], s[i])
            ELSE upTo[i - 1]
    IN  upTo[Len(s)]

(* The second result of ParseGoMod.                                          *)
Replaces == Picked(kept, {i \in DOMAIN kept : kept[i].verb = "replace"})

\* mutant: any malformed line drops the replaces
goWorkReplacesIfClean ==
    IF torn \/ malformed # {} THEN <<>> ELSE Replaces

goWorkReplaces ==
    IF \/ torn \/ goWorkUnknownDirective \/ goWorkHasInvalidQuotedToken
       \/ goWorkHasUnterminatedQuotedString
    THEN <<>>
    ELSE Replaces

-----------------------------------------------------------------------------
(* The reference: what the file says, read as a whole.  A block runs from a  *)
(* line of one word and "(" to the next line ")", and blocks do not nest.    *)

ClosedBetween(j, i) == \E c \in (j + 1)..(i - 1) : Closes(Stripped(file[c]))
OpenSpan(j, i) == Opens(Stripped(file[j])) /\ ~ClosedBetween(j, i)
TopLevel(i) == ~\E j \in 1..(i - 1) : OpenSpan(j, i)
Opener(i) == CHOOSE j \in 1..(i - 1) : OpenSpan(j, i) /\ TopLevel(j)

Written(i) ==
    LET l == Stripped(file[i])
    IN  IF TopLevel(i) THEN [verb |-> Head(l), args |-> Tail(l)]
        ELSE [verb |-> file[Opener(i)][1], args |-> l]

Statements ==
    {i \in DOMAIN file : LET l == Stripped(file[i]) IN
        l # <<>> /\ IF TopLevel(i) THEN ~Opens(l) ELSE ~Closes(l)}
Openers == {i \in DOMAIN file : TopLevel(i) /\ Opens(Stripped(file[i]))}

(* A malformed godebug is the one thing the program is known to let pass.    *)
Acceptable(d) == d.verb = "godebug" \/ Accepted(d)

ValidWith(verbs) ==
    /\ ~bom
    /\ \A i \in DOMAIN file : ~Has(file[i], "/*")
    /\ \A i \in Openers : file[i][1] \in verbs \ Blockless
    /\ \A i \in Statements : Written(i).verb \in verbs /\ Acceptable(Written(i))
    /\ \A i, j \in Statements :
         i # j /\ Written(i).verb = Written(j).verb => Written(i).verb \notin OnceOnly
    /\ TopLevel(Len(file) + 1)

WorkVerbs == {"go", "toolchain", "godebug", "use", "replace"}

WrittenWith(verbs) ==
    Picked([i \in DOMAIN file |-> IF i \in Statements THEN Written(i) ELSE [verb |-> "", args |-> <<>>]],
           {i \in Statements : Written(i).verb \in verbs /\ Accepted(Written(i))})

(* The file's own go directives, and the entries of a block that begin with  *)
(* that word.                                                                *)
OwnGoLines == {i \in Statements : TopLevel(i) /\ file[i][1] = "go"}
GoEntries == {i \in Statements : ~TopLevel(i) /\ file[i][1] = "go" /\ ~Opens(file[i])}
FirstGoLine(S) == CHOOSE i \in S : \A j \in S : i <= j

-----------------------------------------------------------------------------
(* Properties. *)

(* Until something is reported of the file, the scanners that keep track of  *)
(* blocks agree with ParseGoMod on being in one.                             *)
ScannersAgree ==
    ~Refused => (topInBlock <=> block # "") /\ (unknownInBlock <=> block # "")

(* A go.mod is reported unbuildable, or cannot be loaded, exactly when it is *)
(* not a go.mod, whichever scanner is the one to notice and however far the  *)
(* others have lost their way; a malformed godebug alone is let pass.        *)
RefusedExactlyWhenInvalid ==
    kind = "go.mod" /\ atEnd => (Refused <=> torn \/ ~ValidWith(Verbs))

(* Of a go.mod nothing is reported of, every directive that is written is    *)
(* what the checks get, no more and no less, in the order of the file.       *)
CollectedAsWritten ==
    kind = "go.mod" /\ atEnd /\ ~Refused => kept = WrittenWith(Returned)

(* Which verbs hasTopLevelDirective finds is what the text says even of a    *)
(* file that is not one, but for a byte order mark or an overlong line; and  *)
(* goDirectiveVersion has the file's own top-level go directive, the first   *)
(* if there are more, and none where there is none.  The one exception is an *)
(* entry of an earlier block that begins with "go": the scan keeps no track  *)
(* of blocks and takes that line for the directive.                          *)
TopLevelAsWritten ==
    ~bom /\ ~torn =>
        /\ topVerbs = {Stripped(file[i])[1] : i \in {j \in Statements \cup Openers : TopLevel(j)}}
        /\ \/ goLine = IF OwnGoLines = {} THEN NoGoLine ELSE Tail(file[FirstGoLine(OwnGoLines)])
           \/ \E i \in GoEntries : (\A j \in OwnGoLines : i < j) /\ goLine = Tail(file[i])

(* The overlay of a go.work is exactly its replaces; an overlong line drops  *)
(* all of them, and goWorkReplaces does not say so.                          *)
OverlayAsWritten ==
    kind = "go.work" /\ atEnd /\ ValidWith(WorkVerbs) =>
        goWorkReplaces = IF torn THEN <<>> ELSE WrittenWith({"replace"})

(* What is reported of a go.work is really wrong with it, unless an entry of *)
(* a replace or godebug block begins with the word "use", which              *)
(* goWorkUseDirectiveMalformed takes for a use directive.                    *)
WorkReportsAreReal ==
    kind = "go.work" /\ atEnd /\ WorkRefused =>
        \/ ~ValidWith(WorkVerbs)
        \/ \E i \in Statements : Written(i).verb \in {"replace", "godebug"} /\ file[i][1] = "use"

=============================================================================
