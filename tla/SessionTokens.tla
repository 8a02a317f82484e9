---------------------------- MODULE SessionTokens ----------------------------
(***************************************************************************)
(* What the token endpoints promise to whoever holds refresh tokens, with  *)
(* no rows, requests or steps in it.  A session is named by its first      *)
(* token.  At any time at most one token is usable of the tokens that were *)
(* sent to a client for a session; a token that is no longer usable never  *)
(* is again, and a closed session stays closed.                            *)
(*                                                                         *)
(* Rotations are not transactions, so two promises have an exception: of a *)
(* forked session several tokens may be usable, and a session that was     *)
(* overtaken while it was closed may be given one more.                    *)
(***************************************************************************)
CONSTANT Tokens

VARIABLES sent,      \* tokens sent to clients
          usable,    \* usable[s]: those of session s that would be accepted
          closed,    \* sessions ended by a logout or a detected reuse
          overtaken, \* closed while a token was being issued for them
          forked     \* sessions in which one token was presented twice at once

vars == <<sent, usable, closed, overtaken, forked>>

Init ==
  /\ sent = {}
  /\ usable = [s \in Tokens |-> {}]
  /\ closed = {} /\ overtaken = {} /\ forked = {}

(* A token is sent once, to open a session or to continue one.  The one    *)
(* before it is spent, and it is not usable if the session was closed.     *)
Issue(t, s) ==
  /\ t \notin sent
  /\ t = s \/ s \in sent
  /\ sent' = sent \union {t}
  /\ \/ /\ s \in closed => s \in overtaken
        /\ usable' = [usable EXCEPT ![s] = IF s \in forked THEN @ \union {t} ELSE {t}]
     \/ UNCHANGED usable
  /\ UNCHANGED <<closed, overtaken, forked>>

(* Tokens are spent, expire, or make room for a newer session. *)
Drop(D) ==
  /\ usable' = [s \in Tokens |-> usable[s] \ D]
  /\ UNCHANGED <<sent, closed, overtaken, forked>>

Close(S) ==
  /\ closed' = closed \union S
  /\ \E O \in SUBSET S : overtaken' = overtaken \union O
  /\ usable' = [s \in Tokens |-> IF s \in S THEN {} ELSE usable[s]]
  /\ UNCHANGED <<sent, forked>>

(* Two clients, or one twice, present the token of the session at a time. *)
Fork(s) ==
  /\ usable[s] # {}
  /\ forked' = forked \union {s}
  /\ UNCHANGED <<sent, usable, closed, overtaken>>

Next ==
  \/ \E t, s \in Tokens : Issue(t, s)
  \/ \E s \in Tokens : Fork(s)
  \/ \E S \in SUBSET Tokens : Drop(S) \/ Close(S)

Spec == Init /\ [][Next]_vars
=============================================================================
