----------------------------- MODULE OneTimeCodes -----------------------------
(***************************************************************************)
(* What an address may rely on about the codes sent to it, without rows,   *)
(* requests or clocks.                                                     *)
(*                                                                         *)
(* A code is issued once, and while it is open no other code of its        *)
(* purpose is issued.  An open code lets one request through, or answers   *)
(* MaxAttempts wrong guesses, or is withdrawn or expires: then it is dead, *)
(* and neither a used nor a dead code opens again.  Of a code that several *)
(* requests worked on at a time only this is promised, that it stays dead  *)
(* once it has expired.                                                    *)
(***************************************************************************)
EXTENDS Naturals

CONSTANTS Codes, Purposes, MaxAttempts

VARIABLES
  code,     \* code -> "none", "open", "used", "dead" or "shared"
  purpose,  \* what the code is for
  passed,   \* requests it let through while it was not shared ...
  guesses   \* ... and wrong guesses it answered

codeVars == <<code, purpose, passed, guesses>>

Init ==
  /\ code = [o \in Codes |-> "none"]
  /\ purpose \in [Codes -> Purposes]
  /\ passed = [o \in Codes |-> 0]
  /\ guesses = [o \in Codes |-> 0]

Moves(o, from, to) ==
  /\ code[o] \in from /\ code'[o] \in to
  /\ code' = [code EXCEPT ![o] = code'[o]]

Issue(o) ==
  /\ Moves(o, {"none"}, {"open", "shared"})
  /\ \E p \in Purposes :
       /\ \A n \in Codes : code[n] = "open" => purpose[n] # p
       /\ purpose' = [purpose EXCEPT ![o] = p]
  /\ UNCHANGED <<passed, guesses>>

Accept(o) ==
  /\ passed' = [passed EXCEPT ![o] = passed[o] + 1]
  /\ Moves(o, {"open"}, {"used"})
  /\ UNCHANGED <<purpose, guesses>>

\* A guess that was being answered when the code expired is still counted.
Refuse(o) ==
  /\ guesses[o] < MaxAttempts
  /\ guesses' = [guesses EXCEPT ![o] = guesses[o] + 1]
  /\ Moves(o, {"open", "dead"}, {IF guesses[o] + 1 = MaxAttempts THEN "dead" ELSE code[o]})
  /\ UNCHANGED <<purpose, passed>>

\* Withdrawn or expired; or a second request begins to work on it.
End(o) ==
  /\ Moves(o, {"open"}, {"dead", "shared"}) \/ Moves(o, {"shared"}, {"dead"})
  /\ UNCHANGED <<purpose, passed, guesses>>

Next == \E o \in Codes : Issue(o) \/ Accept(o) \/ Refuse(o) \/ End(o)

Spec == Init /\ [][Next]_codeVars

=============================================================================
