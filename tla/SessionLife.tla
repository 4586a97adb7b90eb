----------------------------- MODULE SessionLife -----------------------------
(***************************************************************************)
(* What a user may rely on after a login, without tokens, rows, clocks or  *)
(* requests.                                                               *)
(*                                                                         *)
(* A login opens a session.  It is refreshed by spending the refresh token *)
(* it has and getting another one, and it has no other way to go on: it    *)
(* ends only where a statement made for it fails, and for good.  Sessions  *)
(* of different logins do not touch each other.  Of a session one of whose *)
(* tokens was presented by two refreshes at a time nothing is promised.    *)
(***************************************************************************)
CONSTANT Logins

VARIABLES
  session,  \* login -> "none", "open", "spent", "over" or "shared"
  failed    \* logins one of whose statements failed

lifeVars == <<session, failed>>

Init ==
  /\ session = [f \in Logins |-> "none"]
  /\ failed = {}

\* Login, the two halves of a refresh, and a second refresh with the token.
Moves == {<<"none", "open">>, <<"open", "spent">>, <<"spent", "open">>,
          <<"open", "shared">>}

GoOn(f) ==
  /\ <<session[f], session'[f]>> \in Moves
  /\ session' = [session EXCEPT ![f] = session'[f]]
  /\ failed' = failed

\* A statement fails; the session may survive it.
Fail(f) ==
  /\ failed' = failed \union {f}
  /\ session[f] \in {"open", "spent", "shared"}
  /\ \/ session' = session
     \/ session[f] # "shared" /\ session' = [session EXCEPT ![f] = "over"]

Next == \E f \in Logins : GoOn(f) \/ Fail(f)

Spec == Init /\ [][Next]_lifeVars

=============================================================================
