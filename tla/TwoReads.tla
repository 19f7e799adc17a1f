------------------------------- MODULE TwoReads -------------------------------
(* What one call of Lookup promises of a proxy that does not stand still: it *)
(* takes @latest at one moment and the list of tags at a later one, and its  *)
(* answer is what Lookup says of the two put together.  Whatever else it     *)
(* asks for, the go.mod and the time of a version, never changes.            *)
CONSTANTS
    Facts,          \* what the proxy may have of a module
    Requests,       \* the requests of a call; any of them may fail
    Lookup(_, _),   \* the answer for a proxy that stands still, some requests failing
    Absent          \* no answer yet

VARIABLES
    proxy,          \* the module as the proxy has it now: Facts
    phase,          \* "call", "latest read", "both read", "returned"
    taken,          \* what has been read of it: Facts
    answer          \* the ModuleStatus returned

vars == <<proxy, phase, taken, answer>>

Init ==
    /\ proxy \in Facts /\ phase = "call" /\ taken = proxy /\ answer = Absent

(* The proxy moves: tags are added and never taken away, @latest points      *)
(* where it likes, a module appears or is blocked.                           *)
Moves(f, g) ==
    /\ g \in Facts /\ f.tags \subseteq g.tags
    /\ f.served = "private" <=> g.served = "private"

Move == Moves(proxy, proxy') /\ UNCHANGED <<phase, taken, answer>>

ReadLatest ==
    /\ phase = "call"
    /\ taken' = proxy
    /\ phase' = "latest read"
    /\ UNCHANGED <<proxy, answer>>

ReadTags ==
    /\ phase = "latest read"
    /\ taken' = [taken EXCEPT !.tags = proxy.tags]
    /\ phase' = "both read"
    /\ UNCHANGED <<proxy, answer>>

(* How much of the proxy the answer needs, the requests in failed failing.   *)
Enough(failed) ==
    CASE taken.served = "private" -> "call"
      [] taken.served \in {"unresolved", "malware"} -> "latest read"
      [] taken.served = "ok" -> IF "latest" \in failed THEN "latest read" ELSE "both read"

Return ==
    /\ \E failed \in SUBSET Requests :
         /\ phase = Enough(failed)
         /\ answer' = Lookup(taken, failed)
    /\ phase' = "returned"
    /\ UNCHANGED <<proxy, taken>>

Next == Move \/ ReadLatest \/ ReadTags \/ Return

Spec == Init /\ [][Next]_vars
=============================================================================
