----------------------------- MODULE SdkSession -----------------------------
(***************************************************************************)
(* The session of a browser application built on the frontend SDK          *)
(* (sdk/frontend/index.tsx), against the token endpoints of the server.    *)
(*                                                                         *)
(* A page keeps its tokens in memory and reports them to the application   *)
(* (onTokensChange), which stores the refresh token where a reload finds   *)
(* it again (initialRefreshToken).  The access token, the refresh token    *)
(* and the user are always set and cleared together; a page "holds" the    *)
(* refresh token that stands for all three.  Between a request and its     *)
(* answer everything else on the page may run, and nothing stops two       *)
(* refreshes from being under way: the timer and any number of 401s each   *)
(* start one.                                                              *)
(*                                                                         *)
(* The server is seen from outside, and takes one step per request: its    *)
(* own steps are RefreshTokens.  A request may be lost or refused before   *)
(* it has any effect, its answer lost or replaced by an error after it.    *)
(* The account stays enabled.                                              *)
(***************************************************************************)
EXTENDS Naturals, FiniteSets

CONSTANTS Tokens,  \* refresh tokens the server may issue
          Pages,   \* tabs of one browser, over one session store
          Calls,   \* requests under way at a time
          Nothing

ASSUME SdkAssumption ==
  /\ Nothing \notin Tokens \union Pages \union {"refresh", "restore", "login", "logout"}
  /\ (Tokens \union {Nothing}) \cap {"ok", "rejected", "network"} = {}

VARIABLES row,      \* the server's refresh tokens
          saved,    \* the refresh token in the application's session store
          page,     \* the SDK's state on each page
          call,     \* requests and logins under way
          troubled, \* families with a lost answer or two holders, see below
          reused,   \* families the server revoked for a reused token
          ended     \* families whose logout was acknowledged before any trouble

sdkVars == <<row, saved, page, call, troubled, reused, ended>>
ghosts == <<troubled, reused, ended>>

-----------------------------------------------------------------------------
(* The server *)

Row == [state : {"unissued", "live", "rotated", "revoked"},
        family : Tokens \union {Nothing}]
Unissued == {t \in Tokens : row[t].state = "unissued"}
Fresh == CHOOSE t \in Unissued : TRUE
Live == {t \in Tokens : row[t].state = "live"}
Family(t) == row[t].family

(* Unrotated tokens of the family can no longer be used. *)
Killed(f) == [t \in Tokens |-> IF row[t].family = f /\ row[t].state = "live"
                               THEN [row[t] EXCEPT !.state = "revoked"] ELSE row[t]]

(* The token is replaced by a new one of its family.                       *)
Rotated(t) == [row EXCEPT ![t].state = "rotated",
                          ![Fresh] = [state |-> "live", family |-> Family(t)]]

-----------------------------------------------------------------------------
(* Pages and calls *)

(* `out` is a ghost: the page was logged out with no other call under way, *)
(* and nobody has signed in on it since.                                   *)
Page == [held : Tokens \union {Nothing}, timer : BOOLEAN, loading : BOOLEAN,
         script : {"absent", "loading", "loaded", "failed"}, out : BOOLEAN]
Blank == [held |-> Nothing, timer |-> FALSE, loading |-> FALSE, script |-> "absent",
          out |-> FALSE]

(* A call whose page was reloaded is an orphan: `on` is None. *)
Kinds == {"refresh", "restore", "login", "logout"}
Call == [kind : Kinds \union {Nothing}, on : Pages \union {Nothing},
         pc : {"idle", "script", "waits", "prompt", "sent", "answered"},
         sent : Tokens \union {Nothing},
         answer : Tokens \union {Nothing, "ok", "rejected", "network"}]
Idle == [kind |-> Nothing, on |-> Nothing, pc |-> "idle", sent |-> Nothing, answer |-> Nothing]

On(p) == {k \in Calls : call[k].on = p}
(* Two pages holding tokens of one family, or two requests of it under     *)
(* way, may present a token twice.                                         *)
Shares(p, t) ==
  \/ \E q \in Pages \ {p} : page[q].held # Nothing /\ Family(page[q].held) = Family(t)
  \/ \E k \in Calls : call[k].sent # Nothing /\ Family(call[k].sent) = Family(t)

Send(k, kind, p, t) ==
  /\ call[k].pc = "idle"
  /\ call' = [call EXCEPT ![k] = [Idle EXCEPT !.kind = kind, !.on = p,
                                              !.pc = "sent", !.sent = t]]
  /\ troubled' = IF Shares(p, t) THEN troubled \union {Family(t)} ELSE troubled
  /\ UNCHANGED <<row, saved, reused, ended>>

(* silentRefresh presents the token held at the moment it starts. *)
SilentRefresh(k, p) == Send(k, "refresh", p, page[p].held)

(* Thirty seconds before the access token expires; the timer may find the  *)
(* page signed out.                                                        *)
TimerFires(k, p) ==
  /\ page[p].timer
  /\ page' = [page EXCEPT ![p].timer = FALSE]
  /\ IF page[p].held # Nothing THEN SilentRefresh(k, p)
     ELSE UNCHANGED <<row, saved, call, ghosts>>

(* authFetch: a 401 starts a refresh of its own. *)
Unauthorized(k, p) ==
  /\ page[p].held # Nothing
  /\ SilentRefresh(k, p)
  /\ UNCHANGED page

(* The page is loaded anew; with a saved token it restores the session.    *)
(* What was under way goes on without it, a login only if it was sent.     *)
Forgotten(p) == [j \in Calls |-> IF call[j].on # p THEN call[j]
                                 ELSE IF call[j].pc = "sent" THEN [call[j] EXCEPT !.on = Nothing]
                                 ELSE Idle]

Unheard(p) == {Family(call[j].sent) : j \in {i \in On(p) : call[i].sent # Nothing}}

Load(k, p) ==
  /\ call[k].pc = "idle"
  /\ page' = [page EXCEPT ![p] = [Blank EXCEPT !.loading = saved # Nothing]]
  /\ call' = IF saved = Nothing THEN Forgotten(p)
             ELSE [Forgotten(p) EXCEPT ![k] =
                     [Idle EXCEPT !.kind = "restore", !.on = p, !.pc = "sent",
                                  !.sent = saved]]
  /\ troubled' = troubled \union Unheard(p) \union
                 IF saved # Nothing /\ Shares(p, saved) THEN {Family(saved)} ELSE {}
  /\ UNCHANGED <<row, saved, reused, ended>>

-----------------------------------------------------------------------------
(* Signing in *)

(* login, loadGoogleScript: a script tag that is already in the document   *)
(* is waited for, even one that has failed.                                *)
BeginLogin(k, p) ==
  /\ call[k].pc = "idle"
  /\ LET s == page[p].script IN
     /\ page' = [page EXCEPT ![p].loading = TRUE, ![p].out = FALSE,
                             ![p].script = IF s = "absent" THEN "loading" ELSE s]
     /\ call' = [call EXCEPT ![k] = [Idle EXCEPT !.kind = "login", !.on = p,
                  !.pc = CASE s = "loaded" -> "prompt"
                           [] s = "absent" -> "script"
                           [] OTHER -> "waits"]]
  /\ UNCHANGED <<row, saved, ghosts>>

Waiting(p) == {k \in On(p) : call[k].pc \in {"script", "waits"}}

ScriptLoads(p) ==
  /\ page[p].script = "loading"
  /\ page' = [page EXCEPT ![p].script = "loaded"]
  /\ call' = [k \in Calls |-> IF k \in Waiting(p)
                              THEN [call[k] EXCEPT !.pc = "prompt"] ELSE call[k]]
  /\ UNCHANGED <<row, saved, ghosts>>

(* The login that inserted the tag is rejected; no other hears of it. *)
ScriptFails(p) ==
  /\ page[p].script = "loading"
  /\ page' = [page EXCEPT ![p].script = "failed", ![p].loading = FALSE]
  /\ call' = [k \in Calls |-> IF call[k].on = p /\ call[k].pc = "script"
                              THEN Idle ELSE call[k]]
  /\ UNCHANGED <<row, saved, ghosts>>

(* The prompt is skipped, or its credential is exchanged. *)
Prompted(k) ==
  /\ call[k].pc = "prompt"
  /\ \E skip \in BOOLEAN :
       /\ page' = [page EXCEPT ![call[k].on].loading = ~skip]
       /\ call' = [call EXCEPT ![k] = IF skip THEN Idle ELSE [@ EXCEPT !.pc = "sent"]]
  /\ UNCHANGED <<row, saved, ghosts>>

-----------------------------------------------------------------------------
(* The server's part of a call, and the answer on the page *)

(* Without a page nobody hears the answer. *)
Answered(k, a) == call' = [call EXCEPT ![k] =
  IF call[k].on = Nothing THEN Idle ELSE [@ EXCEPT !.pc = "answered", !.answer = a]]

(* An answer may be lost on its way, or the server may fail between its    *)
(* writes and its answer: the page does not learn what was done.           *)
Replies(k, a) ==
  \/ /\ Answered(k, a)
     /\ UNCHANGED troubled
  \/ /\ \E b \in {"network", "rejected"} \ {a} : Answered(k, b)
     /\ troubled' = IF call[k].sent = Nothing THEN troubled
                    ELSE troubled \union {Family(call[k].sent)}

LoseRequest(k) ==
  /\ call[k].pc = "sent"
  /\ Answered(k, "network")
  /\ UNCHANGED <<row, saved, page, ghosts>>

(* Too many requests, a credential that is not accepted, or a failure      *)
(* before the first write.                                                 *)
Refuse(k) ==
  /\ call[k].pc = "sent"
  /\ Answered(k, "rejected")
  /\ UNCHANGED <<row, saved, page, ghosts>>

(* POST /auth/google/exchange opens a new family. *)
ServeLogin(k) ==
  /\ call[k].pc = "sent" /\ call[k].kind = "login"
  /\ Unissued # {}
  /\ row' = [row EXCEPT ![Fresh] = [state |-> "live", family |-> Fresh]]
  /\ Replies(k, Fresh)
  /\ UNCHANGED <<saved, page, reused, ended>>

(* POST /auth/refresh: rotation, reuse detection, or a revoked token. *)
ServeRefresh(k) ==
  /\ call[k].pc = "sent" /\ call[k].kind \in {"refresh", "restore"}
  /\ LET t == call[k].sent IN
     CASE row[t].state = "live" ->
            /\ Unissued # {}
            /\ row' = Rotated(t)
            /\ Replies(k, Fresh)
            /\ UNCHANGED reused
       [] row[t].state = "rotated" ->
            /\ row' = Killed(Family(t))
            /\ reused' = reused \union {Family(t)}
            /\ Replies(k, "rejected")
       [] row[t].state = "revoked" ->
            /\ Replies(k, "rejected")
            /\ UNCHANGED <<row, reused>>
  /\ UNCHANGED <<saved, page, ended>>

(* The endpoint revokes nothing. *)
MutServeLogout(k) ==
  /\ call[k].pc = "sent" /\ call[k].kind = "logout"
  /\ Replies(k, "ok")
  /\ UNCHANGED <<row, saved, page, reused, ended>>

(* POST /auth/logout ends the family, unless the token was rotated. *)
ServeLogout(k) ==
  /\ call[k].pc = "sent" /\ call[k].kind = "logout"
  /\ row' = IF row[call[k].sent].state = "live" THEN Killed(Family(call[k].sent)) ELSE row
  /\ Replies(k, "ok")
  /\ UNCHANGED <<saved, page, reused, ended>>

Stored(p, n) == [page EXCEPT ![p].held = n, ![p].timer = TRUE]

(* onTokensChange is called after a login only. *)
MutDeliverTokens(k) ==
  /\ call[k].pc = "answered" /\ call[k].answer \in Tokens
  /\ LET p == call[k].on  n == call[k].answer IN
     /\ page' = [Stored(p, n) EXCEPT ![p].loading =
                   IF call[k].kind = "refresh" THEN @ ELSE FALSE]
     /\ saved' = IF call[k].kind = "login" THEN n ELSE saved
     /\ troubled' = IF \E q \in Pages \ {p} : page[q].held # Nothing /\
                         Family(page[q].held) = Family(n)
                    THEN troubled \union {Family(n)} ELSE troubled
  /\ call' = [call EXCEPT ![k] = Idle]
  /\ UNCHANGED <<row, reused, ended>>

(* storeTokens, whatever happened on the page since the request was sent. *)
DeliverTokens(k) ==
  /\ call[k].pc = "answered" /\ call[k].answer \in Tokens
  /\ LET p == call[k].on  n == call[k].answer IN
     /\ page' = [Stored(p, n) EXCEPT ![p].loading =
                   IF call[k].kind = "refresh" THEN @ ELSE FALSE]
     /\ saved' = n
     /\ troubled' = IF \E q \in Pages \ {p} : page[q].held # Nothing /\
                         Family(page[q].held) = Family(n)
                    THEN troubled \union {Family(n)} ELSE troubled
  /\ call' = [call EXCEPT ![k] = Idle]
  /\ UNCHANGED <<row, reused, ended>>

(* A failed login leaves isLoading set. *)
MutDeliverFailure(k) ==
  /\ call[k].pc = "answered" /\ call[k].answer \in {"rejected", "network"}
  /\ call[k].kind # "logout"
  /\ LET p == call[k].on  rejected == call[k].answer = "rejected" IN
     /\ page' = [page EXCEPT
          ![p].held = IF call[k].kind = "refresh" /\ rejected THEN Nothing ELSE @,
          ![p].loading = IF call[k].kind = "restore" THEN FALSE ELSE @]
     /\ saved' = IF call[k].kind = "restore" /\ rejected THEN Nothing ELSE saved
  /\ call' = [call EXCEPT ![k] = Idle]
  /\ UNCHANGED <<row, ghosts>>

(* A silent refresh that is rejected signs the page out and tells nobody;  *)
(* a rejected restore tells the application; a failed login changes        *)
(* nothing; a network error keeps the tokens.                              *)
DeliverFailure(k) ==
  /\ call[k].pc = "answered" /\ call[k].answer \in {"rejected", "network"}
  /\ call[k].kind # "logout"
  /\ LET p == call[k].on  rejected == call[k].answer = "rejected" IN
     /\ page' = [page EXCEPT
          ![p].held = IF call[k].kind = "refresh" /\ rejected THEN Nothing ELSE @,
          ![p].loading = IF call[k].kind = "refresh" THEN @ ELSE FALSE]
     /\ saved' = IF call[k].kind = "restore" /\ rejected THEN Nothing ELSE saved
  /\ call' = [call EXCEPT ![k] = Idle]
  /\ UNCHANGED <<row, ghosts>>

(* logout: the local state is cleared whatever the server answers. *)
SignedOut(k, p) == [page EXCEPT ![p].held = Nothing, ![p].timer = FALSE,
                                ![p].out = On(p) \ {k} = {}]

Logout(k, p) ==
  /\ IF page[p].held = Nothing
     THEN /\ page' = SignedOut(k, p)
          /\ saved' = Nothing
          /\ call[k].pc = "idle"
          /\ UNCHANGED <<row, call, ghosts>>
     ELSE /\ Send(k, "logout", p, page[p].held)
          /\ UNCHANGED page

DeliverLogout(k) ==
  /\ call[k].pc = "answered" /\ call[k].kind = "logout"
  /\ page' = SignedOut(k, call[k].on)
  /\ saved' = Nothing
  /\ ended' = ended \union (IF call[k].answer = "ok" THEN {Family(call[k].sent)} \ troubled
                            ELSE {})
  /\ call' = [call EXCEPT ![k] = Idle]
  /\ UNCHANGED <<row, troubled, reused>>

-----------------------------------------------------------------------------
SdkInit ==
  /\ row = [t \in Tokens |-> [state |-> "unissued", family |-> Nothing]]
  /\ saved = Nothing
  /\ page = [p \in Pages |-> Blank]
  /\ call = [k \in Calls |-> Idle]
  /\ troubled = {} /\ reused = {} /\ ended = {}

Serve(k) == \/ ServeLogin(k) \/ ServeRefresh(k) \/ ServeLogout(k)
            \/ LoseRequest(k) \/ Refuse(k)
Deliver(k) == DeliverTokens(k) \/ DeliverFailure(k) \/ DeliverLogout(k)

SdkNext ==
  \/ \E k \in Calls, p \in Pages :
       TimerFires(k, p) \/ Unauthorized(k, p) \/ Load(k, p) \/ BeginLogin(k, p) \/ Logout(k, p)
  \/ \E p \in Pages : ScriptLoads(p) \/ ScriptFails(p)
  \/ \E k \in Calls : Prompted(k) \/ Serve(k) \/ Deliver(k)

(* A fetch settles, a script loads or fails, a prompt is answered.  Users, *)
(* timers and 401s owe nothing.                                            *)
Fairness ==
  /\ \A k \in Calls : WF_sdkVars(Serve(k)) /\ WF_sdkVars(Deliver(k)) /\ WF_sdkVars(Prompted(k))
  /\ \A p \in Pages : WF_sdkVars(ScriptLoads(p) \/ ScriptFails(p))

SdkSpec == SdkInit /\ [][SdkNext]_sdkVars /\ Fairness

-----------------------------------------------------------------------------
(* Properties *)

(* Every token, page and call is well formed. *)
SdkTypeOK ==
  /\ row \in [Tokens -> Row]
  /\ saved \in Tokens \union {Nothing}
  /\ page \in [Pages -> Page]
  /\ call \in [Calls -> Call]
  /\ troubled \subseteq Tokens /\ reused \subseteq Tokens /\ ended \subseteq Tokens

(* The SDK does not trip the server's reuse detection by itself: a family  *)
(* is revoked for a reused token only after the server's answer to a       *)
(* request of it was lost or replaced by an error (a reload loses those    *)
(* under way), after two requests of it overlapped, or when two pages hold *)
(* it.                                                                     *)
NoSelfRevocation == reused \subseteq troubled

(* A logout sticks: the page stays signed out until somebody signs in on   *)
(* it or it is reloaded, unless another call was under way on it when the  *)
(* logout finished; and of a session whose logout was acknowledged no      *)
(* token is usable or saved from then on, unless before that an answer of  *)
(* it was lost or replaced by an error, two requests of it overlapped, or  *)
(* two pages held it (one of them may log out with a token that the other  *)
(* has rotated, for which the server does nothing and answers as always).  *)
LogoutSticks ==
  /\ \A p \in Pages : page[p].out => page[p].held = Nothing
  /\ \A t \in Live \union ({saved} \ {Nothing}) : Family(t) \notin ended

(* The spinner stops on a page that is not reloaded for ever: what is      *)
(* under way settles, unless Google's script has failed to load there,     *)
(* when a second login waits for ever.                                     *)
LoadingEnds ==
  \A p \in Pages :
    \/ []<><<\E k \in Calls : Load(k, p)>>_sdkVars
    \/ page[p].loading ~> ~page[p].loading \/ page[p].script = "failed"
=============================================================================
