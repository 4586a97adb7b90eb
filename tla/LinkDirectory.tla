---------------------------- MODULE LinkDirectory ----------------------------
(***************************************************************************)
(* What the owner of a short link and its visitors may rely on, without    *)
(* caches, rows, queues or processes.                                      *)
(*                                                                         *)
(* A code is published once, for one target, and keeps it.  A published    *)
(* link is live until it is taken down.  Its safety check is due from the  *)
(* moment it is published and is settled at most once: with a verdict,     *)
(* which makes the link live or takes it down whatever it was before, or   *)
(* by being forfeited, which leaves the link as it is.  Once the check is  *)
(* settled a link that is down stays down.                                 *)
(***************************************************************************)
CONSTANTS Codes, Targets, None

VARIABLES
  target,  \* code -> what it leads to, or None
  live,    \* code -> whether it redirects
  check    \* code -> "none", "due" or "settled"

dirVars == <<target, live, check>>

Init ==
  /\ target = [c \in Codes |-> None]
  /\ live = [c \in Codes |-> FALSE]
  /\ check = [c \in Codes |-> "none"]

Publish(c, t) ==
  /\ target[c] = None
  /\ target' = [target EXCEPT ![c] = t]
  /\ live' = [live EXCEPT ![c] = TRUE]
  /\ \E s \in {"due", "settled"} : check' = [check EXCEPT ![c] = s]

TakeDown(c) ==
  /\ live[c]
  /\ live' = [live EXCEPT ![c] = FALSE]
  /\ UNCHANGED <<target, check>>

Judge(c, safe) ==
  /\ check[c] = "due"
  /\ check' = [check EXCEPT ![c] = "settled"]
  /\ live' = [live EXCEPT ![c] = safe]
  /\ UNCHANGED target

\* A crash or a loss of the queue can settle several checks at once.
Forfeit(lost) ==
  /\ \A c \in lost : check[c] = "due"
  /\ check' = [c \in Codes |-> IF c \in lost THEN "settled" ELSE check[c]]
  /\ UNCHANGED <<target, live>>

Next ==
  \/ \E c \in Codes : \/ \E t \in Targets : Publish(c, t)
                      \/ TakeDown(c)
                      \/ \E safe \in BOOLEAN : Judge(c, safe)
  \/ \E lost \in SUBSET Codes : Forfeit(lost)

Spec == Init /\ [][Next]_dirVars

=============================================================================
