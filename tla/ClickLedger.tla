------------------------------ MODULE ClickLedger ------------------------------
(***************************************************************************)
(* What the owner of a link may rely on about its clicks, without streams, *)
(* workers or commands.                                                    *)
(*                                                                         *)
(* Clicks are taken up in the order they came, or lost.  A click that is   *)
(* taken up is stored once or lost, and neither is ever taken back.  A     *)
(* stored click is added to the counter of its link once, or given up, and *)
(* then it is settled: only settled clicks show in a counter.  A counter   *)
(* that an old value is written back to stays within the settled clicks.   *)
(***************************************************************************)
EXTENDS Naturals, FiniteSets

CONSTANTS
  Clicks,      \* numbers, in the order in which clicks are tracked
  Codes,
  Unreadable,  \* codes whose clicks are never taken up
  None

VARIABLES
  code,   \* click -> the code of its link, None before it is tracked
  fate,   \* click -> "new", "waiting", "held", "stored", "settled" or "lost"
  count   \* code -> its counter

ledgerVars == <<code, fate, count>>

Init ==
  /\ code = [i \in Clicks |-> None]
  /\ fate = [i \in Clicks |-> "new"]
  /\ count = [c \in Codes |-> 0]

Are(f) == {i \in Clicks : fate[i] = f}
Of(c) == {i \in Clicks : code[i] = c}
Oldest(S) == \A i \in S, j \in Are("waiting") \ S : i < j

\* The clicks of S become f, and those of L are lost.
Become(S, f, L) ==
  fate' = [i \in Clicks |-> IF i \in S THEN f ELSE IF i \in L THEN "lost" ELSE fate[i]]

Track(i, c) ==
  /\ fate[i] = "new"
  /\ \A j \in Are("new") : i <= j
  /\ code' = [code EXCEPT ![i] = c]
  /\ \E L \in SUBSET Are("waiting") : Oldest(L) /\ Become({i}, "waiting", L)
  /\ count' = count

\* Either all that can be read of S is taken up, or nothing.
TakeUp(S) ==
  /\ Oldest(S)
  /\ \E H \in {{}, {i \in S : code[i] \notin Unreadable}} : Become(H, "held", S)
  /\ UNCHANGED <<code, count>>

Store(S) ==
  /\ \/ Become(S, "stored", {}) \/ Become(S, "settled", {}) \/ Become({}, "stored", S)
  /\ UNCHANGED <<code, count>>

\* The clicks of S are of one link and are counted, those of G are given up.
Count(c, S, G) ==
  /\ S \subseteq Of(c)
  /\ count' = [count EXCEPT ![c] = @ + Cardinality(S)]
  /\ Become(S \union G, "settled", {})
  /\ code' = code

WriteBack(c, n) ==
  /\ n <= Cardinality(Are("settled") \intersect Of(c))
  /\ count' = [count EXCEPT ![c] = n]
  /\ UNCHANGED <<code, fate>>

Next ==
  \/ \E i \in Clicks : \E c \in Codes : Track(i, c)
  \/ \E S \in SUBSET Are("waiting") : TakeUp(S)
  \/ \E S \in SUBSET Are("held") : Store(S)
  \/ \E S, G \in SUBSET Are("stored") : \E c \in Codes : Count(c, S, G)
  \/ \E c \in Codes : \E n \in 0..Cardinality(Clicks) : WriteBack(c, n)

Spec == Init /\ [][Next]_ledgerVars

=============================================================================
