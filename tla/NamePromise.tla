---------------------------- MODULE NamePromise ----------------------------
(***************************************************************************)
(* What the session registry promises about names: a name passes only from *)
(* a session that gave it up or is gone, and never while a result is still *)
(* owed to it by somebody else who lives.  Lanes.tla is shown to implement *)
(* it.                                                                     *)
(***************************************************************************)
CONSTANTS Server, Name

VARIABLES
  live,   \* the servers whose process and launching host both run
  holds,  \* <<s, n>>: s is registered as the holder of n
  owed    \* <<s, n>>: s has unfinished work whose result goes to n

vars == <<live, holds, owed>>

Init == live = {} /\ holds = {} /\ owed = {}

(* Grants of servers that are not in L. *)
Stale(L) == {h \in holds : h[1] \notin L}

Join(s) ==
  /\ s \notin live /\ \A n \in Name : <<s, n>> \notin holds \cup owed
  /\ live' = live \cup {s}
  /\ UNCHANGED <<holds, owed>>

(* A server goes, or loses its host, leaving its grants or taking them away. *)
Fade(s) ==
  /\ live' = live \ {s}
  /\ \E D \in SUBSET Stale(live \ {s}) : holds' = holds \ D
  /\ UNCHANGED owed

(* Nobody but s, of those that live, holds n or is owed a result at it. *)
Free(n, s) ==
  \A t \in live \ {s} : <<t, n>> \notin holds \cup owed

(* s takes the names N together; whoever held them is gone. *)
Take(s, N) ==
  /\ \A n \in N : Free(n, s)
  /\ \E D \in SUBSET Stale(live \ {s}) :
       /\ \A h \in holds : h[2] \in N /\ h[1] # s => h \in D
       /\ holds' = (holds \ D) \cup ({s} \X N)
  /\ UNCHANGED <<live, owed>>

Yield(s, n) ==
  /\ holds' = holds \ {<<s, n>>}
  /\ UNCHANGED <<live, owed>>

Forget ==
  /\ \E D \in SUBSET Stale(live) : holds' = holds \ D
  /\ UNCHANGED <<live, owed>>

(* s accepts work and will put its result where it reads, unless it died.    *)
Owe(s, n) ==
  /\ s \in live => \A t \in live \ {s} : <<t, n>> \notin holds
  /\ owed' = owed \cup {<<s, n>>}
  /\ UNCHANGED <<live, holds>>

Settle(s, n) ==
  /\ owed' = owed \ {<<s, n>>}
  /\ UNCHANGED <<live, holds>>

Next ==
  \/ \E s \in Server :
       \/ Join(s) \/ Fade(s)
       \/ \E N \in SUBSET Name : Take(s, N)
       \/ \E n \in Name : Yield(s, n) \/ Owe(s, n) \/ Settle(s, n)
  \/ Forget

Spec == Init /\ [][Next]_vars
=============================================================================
