------------------------- MODULE LookupRequestsProofs -------------------------
(* A Lookup of five requests over a moving proxy implements TwoReads, for    *)
(* every set of versions, any proxy and any number of moves.  What has been  *)
(* read so far, and which requests failed, fix what the unfinished result    *)
(* holds: with that invariant every request is a read or a stutter of the    *)
(* abstract call, and the last one returns what Lookup promises.             *)
EXTENDS LookupRequests, FiniteSetTheorems, TLAPS

(* The result of a module that exists: whose time, whose go.mod it holds.    *)
Made(newest, first, text) ==
    [exists |-> TRUE, unknown |-> FALSE, private |-> FALSE, blocklisted |-> FALSE,
     count |-> Cardinality(lines), latest |-> newest, earliest |-> first, body |-> text]

(* The go.mod that was asked for. *)
Text == IF "mod" \in failed THEN NoVersion
        ELSE governingModVersion(governingBasis(taken, lines, failed), lines)

(* The answer about a module that is not there, or was not heard of. *)
Gone(unknown, blocklisted) ==
    [exists |-> FALSE, unknown |-> unknown, private |-> FALSE, blocklisted |-> blocklisted,
     count |-> 0, latest |-> NoVersion, earliest |-> NoVersion, body |-> NoVersion]

TypeInv ==
    /\ proxy \in Facts /\ taken \in Facts
    /\ at \in {"call", "latest", "list", "legacy", "mod", "returned"}

SoFar ==
    /\ at = "call" => failed = {} /\ (taken.served = "private" <=> proxy.served = "private")
    /\ at = "latest" => failed \subseteq {"latest"} /\ taken.served # "private"
    /\ at \in {"list", "legacy", "mod"} =>
         /\ taken.served = "ok"
         /\ lines = IF "list" \in failed THEN {} ELSE taken.tags
    /\ at = "list" => failed \subseteq {"list"} /\ result = Made(taken.latest, NoVersion, NoVersion)
    /\ at = "legacy" => /\ failed \subseteq {"list", "legacy"} /\ result = Made(taken.latest, NoVersion, NoVersion)
                       /\ basis = governingBasis(taken, lines, failed)
    /\ at = "mod" => failed \subseteq {"list", "legacy", "mod"} /\ result = Made(taken.latest, NoVersion, Text)

CallInv == TypeInv /\ SoFar

-----------------------------------------------------------------------------
(* The only tag is the highest one. *)
LEMMA HighestOfOne ==
    ASSUME NEW v \in Version PROVE Highest({v}) = v
BY VersionAssumption DEF Highest

(* A proxy never takes a tag away, and never changes hands with a private one. *)
LEMMA MoveMoves ==
    ASSUME TypeInv, Move PROVE TwoReadsOfIt!Moves(proxy, proxy')
<1>1. CASE Publish BY <1>1, LookupAssumption DEF Publish, TypeInv, Facts, TwoReadsOfIt!Moves
<1>2. CASE Refresh
  BY <1>2 DEF Refresh, Preferred, TypeInv, Facts, TwoReadsOfIt!Moves
<1>3. CASE AppearOrBlocked BY <1>3 DEF AppearOrBlocked, TypeInv, Facts, TwoReadsOfIt!Moves
<1>4. QED BY <1>1, <1>2, <1>3 DEF Move

(* What the last request leaves is what Lookup says of the two reads. *)
LEMMA AnswerIsFound ==
    ASSUME CallInv, AskInfo PROVE result' = Found(taken, failed') /\ failed' \subseteq Requests
                                  /\ "latest" \notin failed'
<1>1. /\ at = "mod" /\ taken \in Facts
      /\ failed \subseteq {"list", "legacy", "mod"}
      /\ lines = IF "list" \in failed THEN {} ELSE taken.tags
      /\ result = Made(taken.latest, NoVersion, Text)
  BY DEF AskInfo, CallInv, TypeInv, SoFar
<1>2. IsFiniteSet(lines) /\ lines \subseteq Version /\ taken.latest \in Version
  BY <1>1, VersionAssumption, FS_Subset, FS_EmptySet DEF Facts
<1>3. /\ failed' = failed \/ failed' = failed \cup {"info"}
      /\ "info" \notin failed
      /\ taken' = taken /\ lines' = lines
  BY <1>1 DEF AskInfo, NoRequest, Fails, Answers
<1>4. /\ lines = IF "list" \in failed' THEN {} ELSE taken.tags
      /\ Text = IF "mod" \in failed' THEN NoVersion
                ELSE governingModVersion(governingBasis(taken, lines, failed'), lines)
  BY <1>1, <1>3 DEF governingBasis, Text
<1>5. failed' \subseteq Requests /\ "latest" \notin failed'
  BY <1>1, <1>3 DEF Requests
<1>6. Cardinality(lines) \in Nat /\ (Cardinality(lines) = 0 <=> lines = {})
  BY <1>2, FS_CardinalityType, FS_EmptySet
<1> DEFINE one == Cardinality(lines) = 1 /\ "info" \notin failed'
           newest == IF one THEN Highest(lines) ELSE taken.latest
           first == CASE Cardinality(lines) = 0 -> NoVersion
                      [] Cardinality(lines) = 1 -> newest
                      [] OTHER -> IF "info" \in failed' THEN NoVersion ELSE Lowest(lines)
<1>a. Found(taken, failed') = Made(newest, first, Text)
  <2> DEFINE read == IF "list" \in failed' THEN {} ELSE taken.tags
             text == IF "mod" \in failed' THEN NoVersion
                     ELSE governingModVersion(governingBasis(taken, read, failed'), read)
  <2>1. read = lines /\ text = Text BY <1>4
  <2>2. QED BY <2>1 DEF Found, Made
<1>7. CASE lines = {}
  <2>1. result' = Made(taken.latest, NoVersion, Text)
    BY <1>1, <1>6, <1>7 DEF AskInfo, Made
  <2>2. newest = taken.latest /\ first = NoVersion BY <1>6, <1>7
  <2>3. QED BY <2>1, <2>2, <1>5, <1>a
<1>8. CASE lines = {taken.latest}
  <2>1. Cardinality(lines) = 1 /\ Highest(lines) = taken.latest
    BY <1>2, <1>8, FS_Singleton, HighestOfOne
  <2>2. result' = Made(taken.latest, taken.latest, Text)
    BY <1>1, <1>8, <2>1 DEF AskInfo, Made
  <2>3. newest = taken.latest /\ first = taken.latest BY <2>1
  <2>4. QED BY <2>2, <2>3, <1>5, <1>a
<1>9. CASE Cardinality(lines) = 1 /\ lines # {taken.latest}
  <2>1. \/ "info" \in failed' /\ result' = Made(taken.latest, taken.latest, Text)
        \/ failed' = failed /\ result' = Made(Highest(lines), Highest(lines), Text)
    <3>1. \/ Fails("info") /\ result' = [result EXCEPT !.earliest = taken.latest]
          \/ Answers /\ result' = [result EXCEPT !.latest = Highest(lines),
                                                  !.earliest = Highest(lines)]
      BY <1>6, <1>9 DEF AskInfo
    <3>2. CASE Fails("info") /\ result' = [result EXCEPT !.earliest = taken.latest]
      BY <1>1, <3>2 DEF Fails, Made
    <3>3. CASE Answers /\ result' = [result EXCEPT !.latest = Highest(lines),
                                                   !.earliest = Highest(lines)]
      BY <1>1, <3>3 DEF Answers, Made
    <3>4. QED BY <3>1, <3>2, <3>3
  <2>2. newest = (IF "info" \in failed' THEN taken.latest ELSE Highest(lines)) /\ first = newest
    BY <1>9
  <2>3. QED BY <2>1, <2>2, <1>3, <1>5, <1>a
<1>10. CASE Cardinality(lines) > 1
  <2>1. lines # {taken.latest} BY <1>2, <1>10, FS_Singleton
  <2>2. \/ "info" \in failed' /\ result' = Made(taken.latest, NoVersion, Text)
        \/ failed' = failed /\ result' = Made(taken.latest, Lowest(lines), Text)
    BY <1>1, <1>6, <1>10, <2>1 DEF AskInfo, Fails, Answers, Made
  <2>3. newest = taken.latest /\ first = IF "info" \in failed' THEN NoVersion ELSE Lowest(lines)
    BY <1>6, <1>10
  <2>4. QED BY <2>2, <2>3, <1>3, <1>5, <1>a
<1>11. QED BY <1>6, <1>7, <1>8, <1>9, <1>10

-----------------------------------------------------------------------------
(* Nothing is known of a request that has not been made. *)
LEMMA CallInvInit == ASSUME Init PROVE CallInv
BY LookupAssumption DEF Init, CallInv, TypeInv, SoFar

(* The proxy's moves leave what has been read alone. *)
LEMMA CallInvMove ==
    ASSUME CallInv, Move PROVE CallInv'
<1>1. proxy' \in Facts /\ (proxy.served = "private" <=> proxy'.served = "private")
  BY MoveMoves DEF CallInv, TwoReadsOfIt!Moves
<1>2. TypeInv' BY <1>1 DEF CallInv, TypeInv, Move, callVars
<1>3. UNCHANGED callVars BY DEF Move
<1>4. SoFar'
  BY <1>1, <1>3 DEF CallInv, SoFar, callVars, Made, Text
<1>5. QED BY <1>2, <1>4 DEF CallInv

LEMMA CallInvCall ==
    ASSUME CallInv, Call PROVE CallInv'
<1> USE DEF CallInv
<1>1. CASE Private BY <1>1 DEF Private, TypeInv, SoFar, proxyVars
<1>2. CASE AskLatest BY <1>2 DEF AskLatest, TypeInv, SoFar, proxyVars, Fails
<1>3. CASE NoModule BY <1>3 DEF NoModule, TypeInv, SoFar, proxyVars
<1>4. CASE AskList
  <2>1. TypeInv' BY <1>4 DEF AskList, TypeInv, Facts, proxyVars
  <2>2. /\ taken.served = "ok" /\ taken'.served = "ok" /\ failed = {}
        /\ taken'.tags = proxy.tags /\ taken'.latest = taken.latest
    BY <1>4 DEF AskList, TypeInv, SoFar, Facts
  <2>3. \/ failed' = {"list"} /\ lines' = {}
        \/ failed' = {} /\ lines' = proxy.tags
    BY <1>4, <2>2 DEF AskList, Fails, Answers
  <2>4. result' = Made(taken.latest, NoVersion, NoVersion)'
    BY <1>4, <2>2 DEF AskList, Absent, Made
  <2>5. QED BY <1>4, <2>1, <2>2, <2>3, <2>4 DEF AskList, SoFar
<1>5. CASE Rebase
  <2>1. TypeInv' BY <1>5 DEF Rebase, TypeInv, proxyVars
  <2>2. /\ taken.served = "ok" /\ failed \subseteq {"list"}
        /\ result' = Made(taken.latest, NoVersion, NoVersion)'
        /\ lines = IF "list" \in failed THEN {} ELSE taken.tags
    BY <1>5 DEF Rebase, SoFar, proxyVars, Made
  <2>3. failed' \in {failed, failed \cup {"legacy"}}
    BY <1>5 DEF Rebase, Fails, Answers, NoRequest
  <2>4. basis' = governingBasis(taken, lines, failed')
    BY <1>5, <2>2 DEF Rebase, governingBasis, Fails, Answers, NoRequest
  <2>5. QED BY <1>5, <2>1, <2>2, <2>3, <2>4 DEF Rebase, SoFar
<1>6. CASE AskMod
  <2>1. TypeInv' BY <1>6 DEF AskMod, TypeInv, proxyVars
  <2>2. /\ taken.served = "ok" /\ failed \subseteq {"list", "legacy"}
        /\ basis = governingBasis(taken, lines, failed)
        /\ result = Made(taken.latest, NoVersion, NoVersion)
        /\ lines = IF "list" \in failed THEN {} ELSE taken.tags
    BY <1>6 DEF AskMod, SoFar
  <2>3. \/ failed' = failed \cup {"mod"} /\ result' = result /\ Text' = NoVersion
        \/ /\ failed' = failed
           /\ Text' = governingModVersion(basis, lines)
           /\ result' = [result EXCEPT !.body = governingModVersion(basis, lines)]
    BY <1>6, <2>2 DEF AskMod, Fails, Answers, Text, governingBasis
  <2>4. result' = Made(taken.latest, NoVersion, Text)'
    BY <1>6, <2>2, <2>3 DEF AskMod, Made
  <2>5. QED BY <1>6, <2>1, <2>2, <2>3, <2>4 DEF AskMod, SoFar
<1>7. CASE AskInfo BY <1>7 DEF AskInfo, TypeInv, SoFar, proxyVars
<1>8. QED BY <1>1, <1>2, <1>3, <1>4, <1>5, <1>6, <1>7 DEF Call

LEMMA CallInvInvariant == Spec => []CallInv
<1>1. ASSUME CallInv, [Next]_vars PROVE CallInv'
  <2>1. CASE Move BY <1>1, <2>1, CallInvMove
  <2>2. CASE Call BY <1>1, <2>2, CallInvCall
  <2>3. CASE UNCHANGED vars
    BY <1>1, <2>3 DEF vars, proxyVars, callVars, CallInv, TypeInv, SoFar, Made, Text
  <2>4. QED BY <1>1, <2>1, <2>2, <2>3 DEF Next, Done
<1>2. QED BY CallInvInit, <1>1, PTL DEF Spec

-----------------------------------------------------------------------------
(* Every request is a read of the abstract call, its return or a stutter. *)
LEMMA CallImplements ==
    ASSUME CallInv, CallInv', Call
    PROVE TwoReadsOfIt!Next \/ UNCHANGED TwoReadsOfIt!vars
<1> USE DEF CallInv
<1>1. CASE Private
  <2>1. /\ taken.served = "private" /\ at = "call" /\ at' = "returned"
        /\ UNCHANGED <<proxy, taken>> /\ result' = Lookup(taken, {})
    BY <1>1 DEF Private, SoFar, proxyVars, Lookup
  <2>2. TwoReadsOfIt!Enough({}) = "call" BY <2>1 DEF TwoReadsOfIt!Enough
  <2>3. TwoReadsOfIt!Return BY <2>1, <2>2 DEF TwoReadsOfIt!Return, Phase, Answer
  <2>4. QED BY <2>3 DEF TwoReadsOfIt!Next
<1>2. CASE AskLatest
  <2>1. TwoReadsOfIt!ReadLatest
    BY <1>2 DEF AskLatest, TwoReadsOfIt!ReadLatest, Phase, Answer, proxyVars
  <2>2. QED BY <2>1 DEF TwoReadsOfIt!Next
<1>3. CASE NoModule
  <2>1. /\ at = "latest" /\ at' = "returned" /\ taken.served \in {"ok", "unresolved", "malware"}
        /\ failed \subseteq {"latest"} /\ ("latest" \in failed \/ taken.served # "ok")
        /\ UNCHANGED <<proxy, taken, failed>>
    BY <1>3 DEF NoModule, TypeInv, SoFar, Facts, proxyVars
  <2>2. result' = Lookup(taken, failed)
    <3>1. CASE "latest" \in failed
      <4>1. result' = Gone(TRUE, FALSE)
        <5>1. /\ ("latest" \in failed) = TRUE
              /\ ("latest" \notin failed /\ taken.served = "malware") = FALSE
          BY <3>1
        <5>2. result' = [Absent EXCEPT !.unknown = TRUE, !.blocklisted = FALSE]
          BY <1>3, <5>1, Zenon DEF NoModule
        <5>3. QED BY <5>2 DEF Absent, Gone
      <4>2. Lookup(taken, failed) = Gone(TRUE, FALSE)
        <5> DEFINE answer == Lookup(taken, failed)
        <5>1. answer = [Absent EXCEPT !.unknown = TRUE] BY <2>1, <3>1 DEF Lookup
        <5> HIDE DEF answer
        <5>2. answer = Gone(TRUE, FALSE) BY <5>1 DEF Absent, Gone
        <5>3. QED BY <5>2 DEF answer
      <4>3. QED BY <4>1, <4>2
    <3>2. CASE taken.served = "unresolved" /\ failed = {}
      <4>1. result' = Gone(FALSE, FALSE)
        <5>1. /\ ("latest" \in failed) = FALSE
              /\ ("latest" \notin failed /\ taken.served = "malware") = FALSE
          BY <3>2
        <5>2. result' = [Absent EXCEPT !.unknown = FALSE, !.blocklisted = FALSE]
          BY <1>3, <5>1, Zenon DEF NoModule
        <5>3. QED BY <5>2 DEF Absent, Gone
      <4>2. Lookup(taken, failed) = Gone(FALSE, FALSE)
        <5> DEFINE answer == Lookup(taken, failed)
        <5>1. answer = Absent BY <2>1, <3>2 DEF Lookup
        <5> HIDE DEF answer
        <5>2. answer = Gone(FALSE, FALSE) BY <5>1 DEF Absent, Gone
        <5>3. QED BY <5>2 DEF answer
      <4>3. QED BY <4>1, <4>2
    <3>3. CASE taken.served = "malware" /\ failed = {}
      <4>1. result' = Gone(FALSE, TRUE)
        <5>1. /\ ("latest" \in failed) = FALSE
              /\ ("latest" \notin failed /\ taken.served = "malware") = TRUE
          BY <3>3
        <5>2. result' = [Absent EXCEPT !.unknown = FALSE, !.blocklisted = TRUE]
          BY <1>3, <5>1, Zenon DEF NoModule
        <5>3. QED BY <5>2 DEF Absent, Gone
      <4>2. Lookup(taken, failed) = Gone(FALSE, TRUE)
        <5> DEFINE answer == Lookup(taken, failed)
        <5>1. answer = [Absent EXCEPT !.blocklisted = TRUE] BY <2>1, <3>3 DEF Lookup
        <5> HIDE DEF answer
        <5>2. answer = Gone(FALSE, TRUE) BY <5>1 DEF Absent, Gone
        <5>3. QED BY <5>2 DEF answer
      <4>3. QED BY <4>1, <4>2
    <3>4. QED BY <2>1, <3>1, <3>2, <3>3
  <2>3. TwoReadsOfIt!Enough(failed) = "latest read" BY <2>1 DEF TwoReadsOfIt!Enough
  <2>4. failed \in SUBSET Requests BY <2>1 DEF Requests
  <2>5. TwoReadsOfIt!Return
    BY <2>1, <2>2, <2>3, <2>4 DEF TwoReadsOfIt!Return, Phase, Answer
  <2>6. QED BY <2>5 DEF TwoReadsOfIt!Next
<1>4. CASE AskList
  <2>1. TwoReadsOfIt!ReadTags
    BY <1>4 DEF AskList, TwoReadsOfIt!ReadTags, Phase, Answer, proxyVars
  <2>2. QED BY <2>1 DEF TwoReadsOfIt!Next
<1>5. CASE Rebase
  BY <1>5 DEF Rebase, TwoReadsOfIt!vars, Phase, Answer, proxyVars
<1>6. CASE AskMod
  BY <1>6 DEF AskMod, TwoReadsOfIt!vars, Phase, Answer, proxyVars
<1>7. CASE AskInfo
  <2>1. /\ at = "mod" /\ at' = "returned" /\ taken.served = "ok" /\ UNCHANGED <<proxy, taken>>
    BY <1>7 DEF AskInfo, SoFar, proxyVars
  <2>2. failed' \in SUBSET Requests /\ "latest" \notin failed' /\ result' = Lookup(taken, failed')
    BY <1>7, <2>1, AnswerIsFound DEF Lookup
  <2>3. TwoReadsOfIt!Enough(failed') = "both read" BY <2>1, <2>2 DEF TwoReadsOfIt!Enough
  <2>4. TwoReadsOfIt!Return BY <2>1, <2>2, <2>3 DEF TwoReadsOfIt!Return, Phase, Answer
  <2>5. QED BY <2>4 DEF TwoReadsOfIt!Next
<1>8. QED BY <1>1, <1>2, <1>3, <1>4, <1>5, <1>6, <1>7 DEF Call

(* LookupRequests implements TwoReads: whatever the proxy publishes, draws   *)
(* back or blocks between the requests of one Lookup, its answer is what     *)
(* Lookup says of one reading of @latest and a later one of the tags.        *)
THEOREM LookupIsTwoReads == Spec => ImplementsTwoReads
<1>1. Init => TwoReadsOfIt!Init
  BY LookupAssumption DEF Init, TwoReadsOfIt!Init, Phase, Answer
<1>2. ASSUME CallInv, CallInv', [Next]_vars
      PROVE [TwoReadsOfIt!Next]_TwoReadsOfIt!vars
  <2>1. CASE Move
    <3>1. TwoReadsOfIt!Move
      BY <1>2, <2>1, MoveMoves DEF CallInv, Move, callVars, TwoReadsOfIt!Move, Phase, Answer
    <3>2. QED BY <3>1 DEF TwoReadsOfIt!Next
  <2>2. CASE Call BY <1>2, <2>2, CallImplements
  <2>3. CASE UNCHANGED vars
    BY <2>3 DEF vars, proxyVars, callVars, TwoReadsOfIt!vars, Phase, Answer
  <2>4. QED BY <1>2, <2>1, <2>2, <2>3 DEF Next, Done
<1>3. QED BY CallInvInvariant, <1>1, <1>2, PTL DEF Spec, ImplementsTwoReads, TwoReadsOfIt!Spec

-----------------------------------------------------------------------------
(* The tags that were counted are the ones of one moment of the call, and    *)
(* nothing else decides how new or how flooded a module looks.               *)

TagsOfAMoment == \E g \in moments : g.served = "ok" /\ g.tags = taken.tags

MomentInv ==
    /\ proxy \in moments
    /\ at \in {"list", "legacy", "mod"} /\ "list" \notin failed => TagsOfAMoment
    /\ at = "returned" /\ result.exists /\ failed = {} => result = Found(taken, {}) /\ TagsOfAMoment

LEMMA AgeIsOfTheTags ==
    ASSUME NEW f, NEW g, f.tags = g.tags
    PROVE  /\ Thin(Found(f, {})) <=> Thin(Found(g, {}))
           /\ Flooded(Found(f, {})) <=> Flooded(Found(g, {}))
<1>1. Found(f, {}).count = Cardinality(f.tags) /\ Found(g, {}).count = Cardinality(f.tags)
  BY DEF Found
<1>2. Cardinality(f.tags) = 1 =>
        Found(f, {}).latest = Highest(f.tags) /\ Found(g, {}).latest = Highest(f.tags)
  BY DEF Found
<1>3. Cardinality(f.tags) \notin {0, 1} =>
        Found(f, {}).earliest = Lowest(f.tags) /\ Found(g, {}).earliest = Lowest(f.tags)
  BY DEF Found
<1>4. Cardinality(f.tags) > 1 => Cardinality(f.tags) \notin {0, 1}
  OBVIOUS
<1>5. QED
  BY <1>1, <1>2, <1>3, <1>4 DEF Thin, Flooded

LEMMA MomentStep == ASSUME CallInv, MomentInv, [Next]_vars PROVE MomentInv'
<1> USE DEF MomentInv, TagsOfAMoment
<1>1. CASE Move
  <2>1. moments' = moments \cup {proxy'} /\ UNCHANGED callVars
    BY <1>1 DEF Move
  <2>2. UNCHANGED <<at, taken, failed, result>>
    BY <2>1 DEF callVars
  <2>3. TagsOfAMoment => TagsOfAMoment'
    BY <2>1, <2>2
  <2>4. (result = Found(taken, {}))' <=> result = Found(taken, {})
    BY <2>2
  <2>5. QED
    BY <2>1, <2>2, <2>3, <2>4
<1>2. CASE Private \/ AskLatest \/ NoModule
  <2>1. UNCHANGED proxyVars
    BY <1>2 DEF Private, AskLatest, NoModule
  <2>2. at' = "latest" \/ (at' = "returned" /\ ~result'.exists)
    BY <1>2 DEF Private, AskLatest, NoModule, Absent
  <2>3. QED
    BY <2>1, <2>2 DEF proxyVars
<1>3. CASE AskList
  <2>1. UNCHANGED proxyVars /\ at' = "list" /\ taken' = [taken EXCEPT !.tags = proxy.tags]
    BY <1>3 DEF AskList
  <2>2. taken'.tags = proxy.tags
    BY <2>1 DEF CallInv, TypeInv, Facts
  <2>3. "list" \notin failed' => proxy.served = "ok"
    BY <1>3 DEF AskList, Fails, Answers
  <2>4. QED
    BY <2>1, <2>2, <2>3 DEF proxyVars
<1>4. CASE Rebase \/ AskMod
  <2>1. UNCHANGED <<proxy, moments, taken>> /\ at' \in {"legacy", "mod"} /\ at \in {"list", "legacy"}
    BY <1>4 DEF Rebase, AskMod, proxyVars
  <2>2. failed \subseteq failed'
    BY <1>4 DEF Rebase, AskMod, Fails, Answers, NoRequest
  <2>3. QED
    BY <2>1, <2>2
<1>5. CASE AskInfo
  <2>1. UNCHANGED <<proxy, moments, taken>> /\ at' = "returned" /\ at = "mod"
    BY <1>5 DEF AskInfo, proxyVars
  <2>2. failed \subseteq failed'
    BY <1>5 DEF AskInfo, Fails, Answers, NoRequest
  <2>3. result' = Found(taken, failed')
    BY <1>5, AnswerIsFound
  <2>4. QED
    BY <2>1, <2>2, <2>3
<1>6. CASE UNCHANGED vars
  <2>1. UNCHANGED <<proxy, moments, at, taken, failed, result>>
    BY <1>6 DEF vars, proxyVars, callVars
  <2>2. QED
    BY <2>1
<1>7. QED
  BY <1>1, <1>2, <1>3, <1>4, <1>5, <1>6 DEF Next, Call, Done

(* For every proxy and any number of moves: what the freshness cases read of *)
(* a Lookup that lost no answer was so at one moment of the call.            *)
THEOREM FreshnessIsOfOneMoment == Spec => []FreshnessOfOneMoment
<1>1. Init => MomentInv
  BY DEF Init, MomentInv, TagsOfAMoment
<1>2. MomentInv => FreshnessOfOneMoment
  BY AgeIsOfTheTags DEF MomentInv, TagsOfAMoment, FreshnessOfOneMoment
<1>3. QED
  BY CallInvInvariant, MomentStep, <1>1, <1>2, PTL DEF Spec
=============================================================================
