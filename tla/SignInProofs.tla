---------------------------- MODULE SignInProofs ----------------------------
(***************************************************************************)
(* For any number of requests, accounts, Google subjects, clients and      *)
(* authorizations: who gets a session or a code, and how often.  Then, of  *)
(* the browser that got one (SdkSession): what becomes of it there.        *)
(*                                                                         *)
(* The invariant has five parts.  Form says what a request holds at each   *)
(* statement.  AuthInv follows an authorization: whoever is past its       *)
(* delete has found it and left it gone, so nobody else does.  CodeInv     *)
(* follows a code: it stays with the callback that was answered with it,   *)
(* and of the exchanges that hold it all are still before the mark, or one *)
(* is alone, or the code is overlapped.  OpenInv binds the account of      *)
(* every request past the look-ups to the subject that signed in, and      *)
(* OffInv keeps what was disabled before a request began out of what it    *)
(* found active.                                                           *)
(***************************************************************************)
EXTENDS SignIn, SdkSession, TLAPS

Mails == [email : Emails \union {None}, before : Emails \union {None}]

Tables == /\ users \in [Accounts -> User]
          /\ google \in [Subs -> Mails]
          /\ client \in [Clients -> BOOLEAN]
          /\ pending \in [States -> Pending]
          /\ codes \in [Requests -> Code]
          /\ contested \subseteq Accounts /\ overlapped \subseteq Requests

Resolved == {"profile", "grant", "session", "code"}

Form(r) ==
  /\ r.pc \in {"consume", "expired", "google"} => r.state # None /\ r.sub # None
  /\ r.pc \in {"sub", "profile", "stub", "claim", "create"} => r.email # None /\ r.sub # None
  /\ r.pc \in Resolved \union {"claim"} => r.uid # None
  /\ r.pc \in Resolved /\ r.code = None => r.sub # None
  /\ r.pc = "claim" => r.seen = None
  /\ r.pc \in {"mark", "identity"} => r.code # None
  /\ r.code # None => r.state = None /\ r.pc \in {"mark", "identity", "grant", "session"}
  /\ r.pc = "code" => r.state # None
  /\ r.pc = "session" => r.state = None

Past(r) == r.state # None /\ r.pc \notin {"consume", "expired"}

AuthInv ==
  /\ \A q \in Requests : req[q].state # None =>
       /\ pending[req[q].state].state # "absent"
       /\ req[q].to = pending[req[q].state].to
  /\ \A q \in Requests : Past(req[q]) => pending[req[q].state].state = "gone"
  /\ \A p, q \in Requests :
       Past(req[p]) /\ Past(req[q]) /\ req[p].state = req[q].state => p = q

CodeInv ==
  /\ \A k \in Requests : codes[k].state # "absent" =>
       At(k, "code") /\ codes[k].to = req[k].to /\ codes[k].uid = req[k].uid
  /\ \A q \in Requests : req[q].code # None =>
       /\ codes[req[q].code].state # "absent"
       /\ req[q].to = codes[req[q].code].to
       /\ At(q, "mark") \/ codes[req[q].code].used
  /\ \A p, q \in Requests :
       p # q /\ req[q].code # None /\ req[p].code = req[q].code
         => req[q].code \in overlapped \/ At(q, "mark")

(* Account u exists in T, and is bound to subject s or was claimed twice;  *)
(* whom request q of R signs in.                                           *)
Bound(C, T, u, s) == T[u].email # None /\ (u \in C \/ T[u].sub = s)
Of(R, q) == IF R[q].code = None THEN R[q].sub ELSE R[R[q].code].sub

OpenInv == \A q \in Requests :
  /\ req[q].pc \in Resolved => Bound(contested, users, req[q].uid, Of(req, q))
  /\ At(q, "claim") => req[q].uid \in Existing

(* D: the accounts that are disabled. *)
OffRow(D, r) ==
  /\ r.off \subseteq D
  /\ r.pc \in {"profile", "claim", "grant"} /\ r.live => r.uid \notin r.off
  /\ r.pc \in {"session", "code"} => r.uid \notin r.off
OffInv == \A q \in Requests : OffRow(Disabled, req[q])

IInv == /\ Tables
        /\ req \in [Requests -> Request]
        /\ \A q \in Requests : Form(req[q])
        /\ AuthInv
        /\ CodeInv
        /\ OpenInv
        /\ OffInv

-----------------------------------------------------------------------------
(* What the tables must keep for the invariant of those who do not write.  *)

PendingKept == \A st \in States : pending[st].state # "absent" =>
  /\ pending'[st].to = pending[st].to
  /\ pending'[st].state # "absent"
  /\ pending[st].state = "gone" => pending'[st].state = "gone"

CodesKept == /\ overlapped' = overlapped
             /\ \A k \in Requests :
                  /\ codes'[k].to = codes[k].to
                  /\ codes'[k].uid = codes[k].uid
                  /\ codes'[k].used = codes[k].used
                  /\ codes'[k].state = "absent" <=> codes[k].state = "absent"

BoundKept ==
  /\ Existing \subseteq Existing'
  /\ \A u \in Accounts, s \in Subs :
       Bound(contested, users, u, s) => Bound(contested', users', u, s)

(* What the new state of one request must be. *)
AuthFits(q, r) == r.state # None =>
  /\ \/ req[q].state = r.state /\ r.to = req[q].to
     \/ pending[r.state].state # "absent" /\ r.to = pending[r.state].to
  /\ Past(r) => \/ req[q].state = r.state /\ Past(req[q])
                \/ /\ req[q].state = r.state
                   /\ pending[r.state].state # "gone"
                   /\ pending'[r.state].state = "gone"

CodeFits(q, r) == r.code # None =>
  /\ r.code = req[q].code /\ r.to = req[q].to
  /\ r.pc = "mark" <=> At(q, "mark")

OpenFits(r) ==
  /\ r.pc \in Resolved =>
       IF r.code = None THEN Bound(contested', users', r.uid, r.sub)
       ELSE At(r.code, "code") /\ Bound(contested', users', r.uid, req[r.code].sub)
  /\ r.pc = "claim" => r.uid \in Existing'

-----------------------------------------------------------------------------
LEMMA Turned ==
  ASSUME IInv, NEW q \in Requests, NEW r \in Request, req' = [req EXCEPT ![q] = r]
  PROVE  /\ req' \in [Requests -> Request] /\ req'[q] = r
         /\ \A p \in Requests \ {q} : req'[p] = req[p]
BY DEF IInv

LEMMA StateTyped ==
  ASSUME NEW r \in Request
  PROVE  /\ r.state # None => r.state \in States
         /\ r.code # None => r.code \in Requests
         /\ r.uid # None => r.uid \in Accounts
         /\ r.sub # None => r.sub \in Subs
         /\ r.email # None => r.email \in Emails
BY DEF Request

LEMMA AuthStep ==
  ASSUME IInv, NEW q \in Requests, NEW r \in Request, req' = [req EXCEPT ![q] = r],
         PendingKept, AuthFits(q, r)
  PROVE  AuthInv'
<1>1. /\ req' \in [Requests -> Request] /\ req'[q] = r
      /\ \A p \in Requests \ {q} : req'[p] = req[p]
  BY Turned
<1>2. \A p \in Requests : /\ req[p].state # None => req[p].state \in States
                          /\ req'[p].state # None => req'[p].state \in States
  BY <1>1, StateTyped DEF IInv
<1>3. ASSUME NEW p \in Requests, req'[p].state # None
      PROVE  /\ pending'[req'[p].state].state # "absent"
             /\ req'[p].to = pending'[req'[p].state].to
             /\ Past(req'[p]) => pending'[req'[p].state].state = "gone"
  <2>1. CASE p = q
    BY <1>1, <1>2, <1>3, <2>1 DEF IInv, AuthInv, AuthFits, PendingKept
  <2>2. CASE p # q
    BY <1>1, <1>2, <1>3, <2>2 DEF IInv, AuthInv, PendingKept
  <2> QED BY <2>1, <2>2
<1>4. ASSUME NEW p \in Requests, NEW o \in Requests, p # o,
             Past(req'[p]), Past(req'[o]), req'[p].state = req'[o].state
      PROVE  FALSE
  <2>1. ASSUME NEW u \in Requests, u # q, Past(r), Past(req[u]), r.state = req[u].state
        PROVE  FALSE
    BY <1>2, <2>1 DEF IInv, AuthInv, AuthFits, Past
  <2> QED BY <1>1, <1>4, <2>1 DEF IInv, AuthInv
<1>5. \A p \in Requests : Past(req'[p]) => req'[p].state # None
  BY DEF Past
<1> QED BY <1>3, <1>4, <1>5 DEF AuthInv

LEMMA CodeStep ==
  ASSUME IInv, NEW q \in Requests, NEW r \in Request, req' = [req EXCEPT ![q] = r],
         CodesKept, CodeFits(q, r), ~At(q, "code")
  PROVE  CodeInv'
<1>1. /\ req' \in [Requests -> Request] /\ req'[q] = r
      /\ \A p \in Requests \ {q} : req'[p] = req[p]
  BY Turned
<1>2. \A p \in Requests : req'[p].code # None =>
        /\ req'[p].code \in Requests
        /\ req'[p].code = req[p].code /\ req'[p].to = req[p].to
        /\ req'[p].pc = "mark" <=> req[p].pc = "mark"
  BY <1>1, StateTyped DEF CodeFits, At
<1>3. ASSUME NEW k \in Requests, codes'[k].state # "absent"
      PROVE  req'[k].pc = "code" /\ codes'[k].to = req'[k].to /\ codes'[k].uid = req'[k].uid
  BY <1>1, <1>3 DEF IInv, CodeInv, CodesKept, At
<1>4. ASSUME NEW p \in Requests, req'[p].code # None
      PROVE  /\ codes'[req'[p].code].state # "absent"
             /\ req'[p].to = codes'[req'[p].code].to
             /\ req'[p].pc = "mark" \/ codes'[req'[p].code].used
  BY <1>2, <1>4 DEF IInv, CodeInv, CodesKept, At
<1>5. ASSUME NEW p \in Requests, NEW o \in Requests, p # o,
             req'[o].code # None, req'[p].code = req'[o].code
      PROVE  req'[o].code \in overlapped' \/ req'[o].pc = "mark"
  BY <1>2, <1>5 DEF IInv, CodeInv, CodesKept, At
<1> QED BY <1>3, <1>4, <1>5 DEF CodeInv, At

LEMMA OpenStep ==
  ASSUME IInv, NEW q \in Requests, NEW r \in Request, req' = [req EXCEPT ![q] = r],
         BoundKept, OpenFits(r), Form(r), ~At(q, "code")
  PROVE  OpenInv'
<1>1. /\ req' \in [Requests -> Request] /\ req'[q] = r
      /\ \A p \in Requests \ {q} : req'[p] = req[p]
  BY Turned
<1>a. ASSUME NEW p \in Requests, req'[p].pc = "claim"
      PROVE  req'[p].uid \in Existing'
  BY <1>1, <1>a DEF OpenFits, IInv, OpenInv, BoundKept, At
<1>2. SUFFICES ASSUME NEW p \in Requests, req'[p].pc \in Resolved
               PROVE  Bound(contested', users', req'[p].uid, Of(req', p))
  BY <1>a DEF OpenInv, At
<1>3. CASE p = q
  <2>1. CASE r.code = None
    BY <1>1, <1>2, <1>3, <2>1 DEF OpenFits, Of
  <2>2. CASE r.code # None
    <3>1. r.code \in Requests /\ r.code # q
      BY <1>1, <1>2, <1>3, <2>2, StateTyped DEF OpenFits, At
    <3>2. Of(req', p) = req[r.code].sub
      BY <1>1, <1>3, <2>2, <3>1 DEF Of
    <3> QED BY <1>1, <1>2, <1>3, <2>2, <3>2 DEF OpenFits
  <2> QED BY <2>1, <2>2
<1>4. CASE p # q
  <2>1. req[p] \in Request /\ Form(req[p]) /\ req'[p] = req[p] /\ req[p].pc \in Resolved
    BY <1>1, <1>2, <1>4 DEF IInv
  <2>2. Bound(contested, users, req[p].uid, Of(req, p))
    BY <2>1 DEF IInv, OpenInv
  <2>3. CASE req[p].code = None
    <3>1. Of(req', p) = req[p].sub /\ Of(req, p) = req[p].sub
      BY <2>1, <2>3 DEF Of
    <3>2. req[p].uid \in Accounts /\ req[p].sub \in Subs
      BY <2>1, <2>3, StateTyped DEF Form
    <3> QED BY <2>1, <2>2, <3>1, <3>2 DEF BoundKept
  <2>4. CASE req[p].code # None
    <3>1. req[p].code \in Requests /\ At(req[p].code, "code")
      BY <2>1, <2>4, StateTyped DEF IInv, CodeInv
    <3>2. Of(req', p) = req[req[p].code].sub /\ Of(req, p) = req[req[p].code].sub
      BY <1>1, <2>1, <2>4, <3>1 DEF Of, At
    <3>3. req[req[p].code].sub \in Subs /\ req[p].uid \in Accounts
      <4>1. Form(req[req[p].code]) /\ req[req[p].code] \in Request
        BY <3>1 DEF IInv
      <4>2. req[req[p].code].code = None
        BY <3>1, <4>1 DEF Form, At
      <4> QED BY <2>1, <3>1, <4>1, <4>2, StateTyped DEF Form, Resolved, At
    <3> QED BY <2>1, <2>2, <3>2, <3>3 DEF BoundKept
  <2> QED BY <2>3, <2>4
<1> QED BY <1>3, <1>4

LEMMA OffStep ==
  ASSUME IInv, NEW q \in Requests, NEW r \in Request, req' = [req EXCEPT ![q] = r],
         Disabled \subseteq Disabled', OffRow(Disabled', r)
  PROVE  OffInv'
<1>1. /\ req' \in [Requests -> Request] /\ req'[q] = r
      /\ \A p \in Requests \ {q} : req'[p] = req[p]
  BY Turned
<1>2. ASSUME NEW p \in Requests PROVE OffRow(Disabled', req'[p])
  BY <1>1 DEF IInv, OffInv, OffRow
<1> QED BY <1>2 DEF OffInv

(* Together, for a step of one request that writes no code. *)
Kept == Tables' /\ PendingKept /\ CodesKept /\ BoundKept /\ Disabled \subseteq Disabled'

Fits(q, r) == /\ Form(r) /\ AuthFits(q, r) /\ CodeFits(q, r) /\ OpenFits(r)
              /\ OffRow(Disabled', r)

LEMMA QuietStep ==
  ASSUME IInv, Kept, NEW q \in Requests, NEW r \in Request, req' = [req EXCEPT ![q] = r],
         ~At(q, "code"), Fits(q, r)
  PROVE  IInv'
<1>1. /\ req' \in [Requests -> Request] /\ req'[q] = r
      /\ \A p \in Requests \ {q} : req'[p] = req[p]
  BY Turned
<1>2. \A p \in Requests : Form(req'[p])
  BY <1>1 DEF IInv, Fits
<1>3. AuthInv'
  BY AuthStep DEF Kept, Fits
<1>4. CodeInv'
  BY CodeStep DEF Kept, Fits
<1>5. OpenInv'
  BY OpenStep DEF Kept, Fits
<1>6. OffInv'
  BY OffStep DEF Kept, Fits
<1> QED BY <1>1, <1>2, <1>3, <1>4, <1>5, <1>6 DEF IInv, Kept

(* A step of somebody else. *)
LEMMA WorldStep ==
  ASSUME IInv, Kept, req' = req
  PROVE  IInv'
<1>1. \A p \in Requests : req[p].state # None => req[p].state \in States
  BY StateTyped DEF IInv
<1>2. AuthInv'
  BY <1>1 DEF IInv, Kept, AuthInv, PendingKept, Past
<1>3. \A p \in Requests : req[p].code # None => req[p].code \in Requests
  BY StateTyped DEF IInv
<1>4. CodeInv'
  BY <1>3 DEF IInv, Kept, CodeInv, CodesKept, At
<1>5. ASSUME NEW p \in Requests, req[p].pc \in Resolved
      PROVE  Bound(contested', users', req[p].uid, Of(req, p))
  <2>1. req[p] \in Request /\ Form(req[p])
    BY DEF IInv
  <2>2. Of(req, p) \in Subs
    <3>1. CASE req[p].code = None
      BY <1>5, <2>1, <3>1, StateTyped DEF Form, Of
    <3>2. CASE req[p].code # None
      <4>1. LET k == req[p].code IN k \in Requests /\ req[k].pc = "code" /\ Form(req[k]) /\ req[k] \in Request
        BY <1>3, <3>2 DEF IInv, CodeInv, At
      <4>2. req[req[p].code].code = None
        BY <4>1 DEF Form
      <4> QED BY <3>2, <4>1, <4>2, StateTyped DEF Form, Of, Resolved
    <3> QED BY <3>1, <3>2
  <2>3. req[p].uid \in Accounts
    BY <1>5, <2>1, StateTyped DEF Form
  <2> QED BY <1>5, <2>2, <2>3 DEF IInv, OpenInv, Kept, BoundKept
<1>6. OpenInv'
  BY <1>5 DEF OpenInv, Of, At, IInv, Kept, BoundKept
<1>7. OffInv'
  BY DEF IInv, Kept, OffInv, OffRow
<1> QED BY <1>2, <1>4, <1>6, <1>7 DEF IInv, Kept

-----------------------------------------------------------------------------
(* Steps of a request *)

LEMMA NothingWritten ==
  ASSUME IInv, UNCHANGED <<tables, google, history>>
  PROVE  Kept
<1>1. UNCHANGED <<users, client, pending, codes, google, contested, overlapped>>
  BY DEF tables, history
<1>2. Tables' /\ BoundKept /\ Disabled = Disabled'
  BY <1>1 DEF IInv, Tables, BoundKept, Disabled, Existing
<1> QED BY <1>1, <1>2 DEF Kept, PendingKept, CodesKept

(* The request is turned away: it holds nothing that the invariant needs.  *)
LEMMA TurnedAway ==
  ASSUME IInv, Kept, NEW q \in Requests, NEW a \in {"refused", "error"}, Answer(q, a),
         ~At(q, "code")
  PROVE  IInv'
<1> DEFINE r == IF a = "refused" THEN [New EXCEPT !.pc = a]
                ELSE [New EXCEPT !.pc = a, !.sub = req[q].sub, !.email = req[q].email]
<1>1. req' = [req EXCEPT ![q] = r]
  BY DEF Answer
<1>2. req[q] \in Request
  BY DEF IInv
<1>3. /\ r \in Request
      /\ r.pc = a /\ r.state = None /\ r.code = None /\ r.off = {}
  BY <1>2 DEF Request, New, PCs, Answers, Nobody, Party
<1> HIDE DEF r
<1>4. Fits(q, r)
  BY <1>3 DEF Fits, Form, AuthFits, CodeFits, OpenFits, OffRow, Resolved
<1> QED BY <1>1, <1>3, <1>4, QuietStep

(* A request begins a login. *)
LEMMA LoginBegins ==
  ASSUME IInv, NEW q \in Requests, NEW s \in Subs, NEW e \in Emails, At(q, "new"),
         Begin(q, [New EXCEPT !.pc = "sub", !.sub = s, !.email = e]),
         UNCHANGED <<tables, google, history>>
  PROVE  IInv'
<1> DEFINE r == [New EXCEPT !.pc = "sub", !.sub = s, !.email = e, !.off = Disabled]
<1>1. req' = [req EXCEPT ![q] = r]
  BY DEF Begin, New
<1>2. /\ r \in Request
      /\ r.pc = "sub" /\ r.state = None /\ r.code = None /\ r.off = Disabled
      /\ r.sub = s /\ r.email = e
  BY DEF Request, New, PCs, Nobody, Party, Disabled, Existing
<1> HIDE DEF r
<1>3. Kept /\ Disabled' = Disabled
  BY NothingWritten DEF tables, Disabled, Existing
<1>4. Fits(q, r)
  BY <1>2, <1>3, SignInAssumption
     DEF Fits, Form, AuthFits, CodeFits, OpenFits, OffRow, Resolved
<1> QED BY <1>1, <1>2, <1>3, <1>4, QuietStep DEF At

LEMMA CallbackInv ==
  ASSUME IInv, NEW q \in Requests, NEW st \in States, NEW s \in Subs, Callback(q, st, s)
  PROVE  IInv'
<1> DEFINE r == [New EXCEPT !.pc = IF pending[st].state = "live" THEN "consume" ELSE "expired",
                            !.state = st, !.sub = s, !.to = pending[st].to, !.off = Disabled]
<1>1. req' = [req EXCEPT ![q] = r] /\ At(q, "new") /\ UNCHANGED <<tables, google, history>>
  BY DEF Callback, Begin, New
<1>2. pending[st].to \in Party /\ pending[st].state # "absent"
  BY DEF IInv, Tables, Pending, Callback, InTable
<1>3. /\ r \in Request
      /\ r.pc \in {"consume", "expired"} /\ r.state = st /\ r.code = None /\ r.off = Disabled
      /\ r.sub = s /\ r.to = pending[st].to
  BY <1>2 DEF Request, New, PCs, Nobody, Disabled, Existing
<1> HIDE DEF r
<1>4. Kept /\ Disabled' = Disabled
  BY <1>1, NothingWritten DEF tables, Disabled, Existing
<1>5. Fits(q, r)
  BY <1>2, <1>3, <1>4, SignInAssumption
     DEF Fits, Form, AuthFits, CodeFits, OpenFits, OffRow, Resolved, Past
<1> QED BY <1>1, <1>3, <1>4, <1>5, QuietStep DEF At

(* A request that goes on with the authorization, or the code, it has.     *)
LEMMA GoesOn ==
  ASSUME IInv, Kept, NEW q \in Requests, NEW r \in Request, req' = [req EXCEPT ![q] = r],
         req[q].pc \notin {"code", "consume", "expired", "mark"},
         r.pc \notin {"consume", "expired", "mark"},
         r.state = req[q].state, r.to = req[q].to, r.code = req[q].code,
         Form(r), OpenFits(r), OffRow(Disabled', r)
  PROVE  IInv'
<1>1. AuthFits(q, r) /\ CodeFits(q, r)
  BY DEF AuthFits, CodeFits, Past, At
<1> QED BY <1>1, QuietStep DEF Fits, At

LEMMA ConsumeInv == ASSUME IInv, NEW q \in Requests, Consume(q) PROVE IInv'
<1> DEFINE st == req[q].state
<1>1. /\ req[q] \in Request /\ Form(req[q]) /\ req[q].pc \in {"consume", "expired"}
      /\ st \in States /\ UNCHANGED <<users, google, client, codes, history>>
  BY StateTyped DEF IInv, Consume, Form
<1>2. CASE pending[st].state \in InTable
  <2>1. pending' = [pending EXCEPT ![st].state = "gone"]
    BY <1>2 DEF Consume
  <2>2. pending \in [States -> Pending] /\ pending' \in [States -> Pending]
    BY <1>1, <2>1 DEF IInv, Tables, Pending
  <2>3. PendingKept
    BY <1>1, <1>2, <2>1, <2>2 DEF PendingKept, Pending
  <2>4. Kept /\ Disabled' = Disabled
    BY <1>1, <2>2, <2>3
       DEF Kept, IInv, Tables, CodesKept, BoundKept, history, Disabled, Existing
  <2>5. CASE At(q, "consume")
    <3> DEFINE r == [req[q] EXCEPT !.pc = "google"]
    <3>1. req' = [req EXCEPT ![q] = r]
      BY <1>2, <2>5 DEF Consume, Goto, IInv
    <3>2. /\ r \in Request /\ r.pc = "google" /\ r.state = st /\ r.to = req[q].to
          /\ r.code = req[q].code /\ r.sub = req[q].sub /\ r.off = req[q].off
      BY <1>1 DEF Request, PCs
    <3> HIDE DEF r
    <3>3. Form(r)
      BY <1>1, <3>2 DEF Form, Resolved
    <3>4. r.code = None
      BY <3>2, <3>3 DEF Form
    <3>5. pending'[st].state = "gone" /\ pending[st].state # "gone"
      BY <1>1, <1>2, <2>1, <2>2 DEF InTable, Pending
    <3>6. AuthFits(q, r) /\ CodeFits(q, r) /\ OpenFits(r)
      BY <3>2, <3>4, <3>5 DEF AuthFits, CodeFits, OpenFits, Resolved
    <3>7. OffRow(Disabled', r)
      BY <2>4, <3>2 DEF IInv, OffInv, OffRow
    <3> QED BY <1>1, <2>4, <3>1, <3>2, <3>3, <3>6, <3>7, QuietStep DEF Fits, At
  <2>6. CASE ~At(q, "consume")
    BY <1>1, <1>2, <2>4, <2>6, TurnedAway DEF Consume, At
  <2> QED BY <2>5, <2>6
<1>3. CASE pending[st].state \notin InTable
  <2>1. Answer(q, "error") /\ Kept
    BY <1>1, <1>3, NothingWritten DEF Consume, tables
  <2> QED BY <1>1, <2>1, TurnedAway DEF At
<1> QED BY <1>2, <1>3

LEMMA AskGoogleInv == ASSUME IInv, NEW q \in Requests, AskGoogle(q) PROVE IInv'
<1>1. /\ req[q] \in Request /\ Form(req[q]) /\ req[q].pc = "google" /\ ~At(q, "code")
      /\ Kept /\ Disabled' = Disabled
  BY NothingWritten DEF IInv, AskGoogle, At, tables, Disabled, Existing
<1>2. req[q].sub \in Subs /\ req[q].code = None
  BY <1>1, StateTyped DEF Form
<1>3. CASE Answer(q, "refused")
  BY <1>1, <1>3, TurnedAway
<1>4. CASE ~Answer(q, "refused")
  <2> DEFINE e == google[req[q].sub].email
             r == [req[q] EXCEPT !.pc = "sub", !.email = e]
  <2>1. req' = [req EXCEPT ![q] = r] /\ e # None
    BY <1>4 DEF AskGoogle, IInv
  <2>2. e \in Emails
    BY <1>2, <2>1 DEF IInv, Tables, Mails
  <2>3. /\ r \in Request /\ r.pc = "sub" /\ r.state = req[q].state /\ r.to = req[q].to
        /\ r.code = None /\ r.sub = req[q].sub /\ r.off = req[q].off /\ r.email # None
    BY <1>1, <1>2, <2>1, <2>2 DEF Request, PCs
  <2> HIDE DEF r, e
  <2>4. Form(r) /\ OpenFits(r)
    BY <1>1, <2>3 DEF Form, OpenFits, Resolved
  <2>5. OffRow(Disabled', r)
    BY <1>1, <2>3 DEF IInv, OffInv, OffRow
  <2> QED BY <1>1, <1>2, <2>1, <2>3, <2>4, <2>5, GoesOn
<1> QED BY <1>3, <1>4

LEMMA ReadIdentityInv == ASSUME IInv, NEW q \in Requests, ReadIdentity(q) PROVE IInv'
<1> DEFINE k == req[q].code
           u == codes[k].uid
           r == [req[q] EXCEPT !.pc = "grant", !.uid = u, !.live = users[u].active]
<1>1. /\ req[q] \in Request /\ Form(req[q]) /\ req[q].pc = "identity" /\ k # None
      /\ Kept /\ Disabled' = Disabled /\ UNCHANGED <<users, contested>>
  BY NothingWritten DEF IInv, ReadIdentity, At, tables, history, Disabled, Existing, Form
<1>2. /\ k \in Requests /\ At(k, "code") /\ u = req[k].uid /\ req[k] \in Request
      /\ Form(req[k])
  BY <1>1, StateTyped DEF IInv, CodeInv
<1>3. /\ u \in Accounts /\ u # None /\ req[k].code = None
      /\ Bound(contested, users, u, req[k].sub)
  BY <1>2, StateTyped, SignInAssumption DEF IInv, OpenInv, Of, Form, At, Resolved
<1>4. users[u] \in User /\ req' = [req EXCEPT ![q] = r]
  BY <1>3 DEF IInv, Tables, ReadIdentity
<1> HIDE DEF u
<1>5. /\ r \in Request /\ r.pc = "grant" /\ r.state = req[q].state /\ r.to = req[q].to
      /\ r.code = k /\ r.off = req[q].off /\ r.uid = u /\ r.live = users[u].active
  BY <1>1, <1>3, <1>4, ZenonT(40) DEF Request, PCs, User
<1> HIDE DEF r
<1>6. Form(r) /\ OpenFits(r)
  BY <1>1, <1>2, <1>3, <1>5 DEF Form, OpenFits, Resolved
<1>7. OffRow(Disabled', r)
  BY <1>1, <1>5 DEF IInv, OffInv, OffRow, Disabled
<1> QED BY <1>1, <1>4, <1>5, <1>6, <1>7, GoesOn

LEMMA FindBySubInv == ASSUME IInv, NEW q \in Requests, FindBySub(q) PROVE IInv'
<1>1. /\ req[q] \in Request /\ Form(req[q]) /\ req[q].pc = "sub" /\ req[q].code = None
      /\ Kept /\ Disabled' = Disabled /\ UNCHANGED <<users, contested>>
  BY NothingWritten DEF IInv, FindBySub, At, tables, history, Disabled, Existing, Form
<1>2. CASE Goto(q, "stub")
  <2> DEFINE r == [req[q] EXCEPT !.pc = "stub"]
  <2>1. req' = [req EXCEPT ![q] = r]
    BY <1>2 DEF Goto, IInv
  <2>2. /\ r \in Request /\ r.pc = "stub" /\ r.state = req[q].state /\ r.to = req[q].to
        /\ r.code = None /\ r.sub = req[q].sub /\ r.email = req[q].email
        /\ r.off = req[q].off
    BY <1>1 DEF Request, PCs
  <2> HIDE DEF r
  <2>3. Form(r) /\ OpenFits(r)
    BY <1>1, <2>2 DEF Form, OpenFits, Resolved
  <2>4. OffRow(Disabled', r)
    BY <1>1, <2>2 DEF IInv, OffInv, OffRow
  <2> QED BY <1>1, <2>1, <2>2, <2>3, <2>4, GoesOn
<1>3. CASE ~Goto(q, "stub")
  <2>1. PICK u \in Existing, l \in {"profile", "grant"} :
          /\ users[u].sub = req[q].sub
          /\ req' = [req EXCEPT ![q].pc = l, ![q].uid = u, ![q].live = users[u].active]
    BY <1>3 DEF FindBySub
  <2> DEFINE r == [req[q] EXCEPT !.pc = l, !.uid = u, !.live = users[u].active]
  <2>2. req' = [req EXCEPT ![q] = r]
    BY <2>1 DEF IInv
  <2>3. u \in Accounts /\ u # None /\ users[u].active \in BOOLEAN /\ l \in PCs
    BY SignInAssumption DEF Existing, IInv, Tables, User, PCs
  <2>4. /\ r \in Request /\ r.pc = l /\ r.state = req[q].state /\ r.to = req[q].to
        /\ r.code = None /\ r.sub = req[q].sub /\ r.email = req[q].email
        /\ r.off = req[q].off /\ r.uid = u /\ r.live = users[u].active
    BY <1>1, <2>3 DEF Request
  <2> HIDE DEF r
  <2>5. Form(r) /\ OpenFits(r)
    BY <1>1, <2>1, <2>3, <2>4 DEF Form, OpenFits, Resolved, Bound, Existing
  <2>6. OffRow(Disabled', r)
    BY <1>1, <2>4 DEF IInv, OffInv, OffRow, Disabled
  <2> QED BY <1>1, <2>2, <2>4, <2>5, <2>6, GoesOn
<1> QED BY <1>2, <1>3

LEMMA FindStubInv == ASSUME IInv, NEW q \in Requests, FindStub(q) PROVE IInv'
<1>1. /\ req[q] \in Request /\ Form(req[q]) /\ req[q].pc = "stub" /\ req[q].code = None
      /\ Kept /\ Disabled' = Disabled /\ UNCHANGED users
  BY NothingWritten DEF IInv, FindStub, At, tables, Disabled, Existing, Form
<1>2. CASE Goto(q, "create")
  <2> DEFINE r == [req[q] EXCEPT !.pc = "create"]
  <2>1. req' = [req EXCEPT ![q] = r]
    BY <1>2 DEF Goto, IInv
  <2>2. /\ r \in Request /\ r.pc = "create" /\ r.state = req[q].state /\ r.to = req[q].to
        /\ r.code = None /\ r.sub = req[q].sub /\ r.email = req[q].email
        /\ r.off = req[q].off
    BY <1>1 DEF Request, PCs
  <2> HIDE DEF r
  <2>3. Form(r) /\ OpenFits(r)
    BY <1>1, <2>2 DEF Form, OpenFits, Resolved
  <2>4. OffRow(Disabled', r)
    BY <1>1, <2>2 DEF IInv, OffInv, OffRow
  <2> QED BY <1>1, <2>1, <2>2, <2>3, <2>4, GoesOn
<1>3. CASE ~Goto(q, "create")
  <2>1. PICK u \in Unclaimed(req[q].email) :
          req' = [req EXCEPT ![q].pc = "claim", ![q].uid = u,
                             ![q].seen = users[u].sub, ![q].live = users[u].active]
    BY <1>3 DEF FindStub
  <2> DEFINE r == [req[q] EXCEPT !.pc = "claim", !.uid = u, !.seen = users[u].sub,
                                 !.live = users[u].active]
  <2>2. req' = [req EXCEPT ![q] = r]
    BY <2>1 DEF IInv
  <2>3. /\ u \in Existing /\ u \in Accounts /\ u # None /\ users[u] \in User
        /\ users[u].sub = None
    BY SignInAssumption DEF Unclaimed, Existing, IInv, Tables
  <2>4. /\ r \in Request /\ r.pc = "claim" /\ r.state = req[q].state /\ r.to = req[q].to
        /\ r.code = None /\ r.sub = req[q].sub /\ r.email = req[q].email
        /\ r.off = req[q].off /\ r.uid = u /\ r.live = users[u].active /\ r.seen = None
    BY <1>1, <2>3 DEF Request, PCs, User
  <2> HIDE DEF r
  <2>5. Form(r) /\ OpenFits(r)
    BY <1>1, <2>3, <2>4 DEF Form, OpenFits, Resolved, Existing
  <2>6. OffRow(Disabled', r)
    BY <1>1, <2>4 DEF IInv, OffInv, OffRow, Disabled
  <2> QED BY <1>1, <2>2, <2>4, <2>5, <2>6, GoesOn
<1> QED BY <1>2, <1>3

(* One row of users is rewritten: it stays disabled if it was, and bound.  *)
LEMMA RowWritten ==
  ASSUME IInv, NEW u \in Accounts, NEW v \in User, users' = [users EXCEPT ![u] = v],
         UNCHANGED <<google, client, pending, codes, overlapped>>,
         contested \subseteq contested', contested' \subseteq Accounts,
         u \in Existing => v.email # None, u \in Disabled => ~v.active,
         \A s \in Subs : Bound(contested, users, u, s) => u \in contested' \/ v.sub = s
  PROVE  Kept
<1>1. users \in [Accounts -> User] /\ users' \in [Accounts -> User] /\ users'[u] = v
      /\ \A w \in Accounts \ {u} : users'[w] = users[w]
  BY DEF IInv, Tables
<1>2. Tables' /\ PendingKept /\ CodesKept
  BY <1>1 DEF IInv, Tables, PendingKept, CodesKept
<1>3. BoundKept
  BY <1>1 DEF BoundKept, Bound, Existing
<1>4. Disabled \subseteq Disabled'
  BY <1>1 DEF Disabled, Existing
<1> QED BY <1>2, <1>3, <1>4 DEF Kept

LEMMA UpdateProfileInv == ASSUME IInv, NEW q \in Requests, UpdateProfile(q) PROVE IInv'
<1> DEFINE u == req[q].uid
           v == [users[u] EXCEPT !.email = req[q].email]
           r == [req[q] EXCEPT !.pc = "grant"]
<1>1. /\ req[q] \in Request /\ Form(req[q]) /\ req[q].pc = "profile" /\ req[q].code = None
      /\ u \in Accounts /\ req[q].email \in Emails /\ req[q].email # None
      /\ UNCHANGED <<google, client, pending, codes, overlapped, contested>>
  BY StateTyped DEF IInv, UpdateProfile, At, Form, Resolved, history
<1>2. CASE EmailTaken(req[q].email, u)
  BY <1>1, <1>2, NothingWritten, TurnedAway DEF UpdateProfile, At, tables, history
<1>3. CASE ~EmailTaken(req[q].email, u)
  <2>1. /\ users' = [users EXCEPT ![u] = v] /\ v \in User /\ v.sub = users[u].sub
        /\ v.active = users[u].active /\ v.email = req[q].email
        /\ req' = [req EXCEPT ![q] = r]
    BY <1>1, <1>3 DEF UpdateProfile, Goto, IInv, Tables, User
  <2> HIDE DEF v
  <2>2. \A s \in Subs : Bound(contested, users, u, s) => u \in contested' \/ v.sub = s
    BY <1>1, <2>1 DEF Bound
  <2>3. v.email # None /\ (u \in Disabled => ~v.active)
    BY <1>1, <2>1 DEF Disabled
  <2>a. contested \subseteq contested' /\ contested' \subseteq Accounts
    BY <1>1 DEF IInv, Tables
  <2>4. Kept
    BY <1>1, <2>1, <2>2, <2>3, <2>a, RowWritten
  <2>5. /\ r \in Request /\ r.pc = "grant" /\ r.state = req[q].state /\ r.to = req[q].to
        /\ r.code = None /\ r.sub = req[q].sub /\ r.off = req[q].off /\ r.uid = u
        /\ r.live = req[q].live
    BY <1>1 DEF Request, PCs
  <2> HIDE DEF r
  <2>6. Form(r)
    BY <1>1, <2>5 DEF Form, Resolved
  <2>7. OpenFits(r)
    <3>1. Bound(contested, users, u, req[q].sub)
      BY <1>1 DEF IInv, OpenInv, Of, Resolved
    <3>2. req[q].sub \in Subs
      BY <1>1, StateTyped DEF Form
    <3> QED BY <1>1, <2>4, <2>5, <3>1, <3>2 DEF OpenFits, Kept, BoundKept
  <2>8. OffRow(Disabled', r)
    BY <1>1, <2>4, <2>5 DEF IInv, OffInv, OffRow, Kept
  <2> QED BY <1>1, <2>1, <2>4, <2>5, <2>6, <2>7, <2>8, GoesOn
<1> QED BY <1>2, <1>3

(* A stub claimed twice is contested; to whom it was bound before is no    *)
(* matter then.                                                            *)
LEMMA ClaimStubInv == ASSUME IInv, NEW q \in Requests, ClaimStub(q) PROVE IInv'
<1> DEFINE u == req[q].uid
           v == [users[u] EXCEPT !.sub = req[q].sub]
           r == [req[q] EXCEPT !.pc = "grant"]
<1>1. /\ req[q] \in Request /\ Form(req[q]) /\ req[q].pc = "claim" /\ req[q].code = None
      /\ u \in Accounts /\ req[q].sub \in Subs /\ req[q].sub # None /\ req[q].seen = None
      /\ UNCHANGED <<google, client, pending, codes, overlapped>>
  BY StateTyped DEF IInv, ClaimStub, At, Form
<1>2. CASE SubTaken(req[q].sub, u)
  BY <1>1, <1>2, NothingWritten, TurnedAway DEF ClaimStub, At, tables, history
<1>3. CASE ~SubTaken(req[q].sub, u)
  <2>1. /\ users' = [users EXCEPT ![u] = v] /\ v \in User /\ v.sub = req[q].sub
        /\ v.active = users[u].active /\ v.email = users[u].email
        /\ req' = [req EXCEPT ![q] = r]
        /\ contested' = IF users[u].sub \in {req[q].seen, req[q].sub}
                        THEN contested ELSE contested \union {u}
    BY <1>1, <1>3 DEF ClaimStub, Goto, IInv, Tables, User
  <2> HIDE DEF v
  <2>2. \A s \in Subs : Bound(contested, users, u, s) => u \in contested' \/ v.sub = s
    <3>1. None \notin Subs
      BY SignInAssumption
    <3> QED BY <1>1, <2>1, <3>1 DEF Bound
  <2>3. u \in Existing /\ v.email # None /\ (u \in Disabled => ~v.active)
    BY <1>1, <2>1 DEF Disabled, Existing, IInv, OpenInv, At
  <2>a. contested \subseteq contested' /\ contested' \subseteq Accounts
    BY <1>1, <2>1 DEF IInv, Tables
  <2>4. Kept
    BY <1>1, <2>1, <2>2, <2>3, <2>a, RowWritten
  <2>5. /\ r \in Request /\ r.pc = "grant" /\ r.state = req[q].state /\ r.to = req[q].to
        /\ r.code = None /\ r.sub = req[q].sub /\ r.off = req[q].off /\ r.uid = u
        /\ r.live = req[q].live
    BY <1>1 DEF Request, PCs
  <2> HIDE DEF r
  <2>6. Form(r)
    BY <1>1, <2>5 DEF Form, Resolved
  <2>7. users'[u].sub = req[q].sub /\ users'[u].email # None
    BY <1>1, <2>1, <2>3 DEF IInv, Tables
  <2>8. OpenFits(r)
    BY <2>5, <2>7 DEF OpenFits, Bound, Resolved
  <2>9. OffRow(Disabled', r)
    BY <1>1, <2>4, <2>5 DEF IInv, OffInv, OffRow, Kept
  <2> QED BY <1>1, <2>1, <2>4, <2>5, <2>6, <2>8, <2>9, GoesOn
<1> QED BY <1>2, <1>3

LEMMA ProvisionInv == ASSUME IInv, NEW q \in Requests, Provision(q) PROVE IInv'
<1>1. /\ req[q] \in Request /\ Form(req[q]) /\ req[q].pc = "create" /\ req[q].code = None
      /\ req[q].email \in Emails /\ req[q].email # None /\ req[q].sub \in Subs
      /\ UNCHANGED <<google, client, pending, codes, overlapped, contested>>
  BY StateTyped DEF IInv, Provision, At, Form, history
<1> DEFINE Taken == SubTaken(req[q].sub, None) \/ EmailTaken(req[q].email, None)
<1>2. CASE Taken
  BY <1>1, <1>2, NothingWritten, TurnedAway DEF Provision, At, tables, history
<1>3. CASE ~Taken
  <2> DEFINE v == [sub |-> req[q].sub, email |-> req[q].email, active |-> TRUE]
  <2>1. PICK u \in Accounts \ Existing :
          /\ users' = [users EXCEPT ![u] = v]
          /\ req' = [req EXCEPT ![q].pc = "grant", ![q].uid = u, ![q].live = TRUE]
    BY <1>3 DEF Provision
  <2> DEFINE r == [req[q] EXCEPT !.pc = "grant", !.uid = u, !.live = TRUE]
  <2>2. req' = [req EXCEPT ![q] = r] /\ v \in User /\ v.sub = req[q].sub
        /\ v.email = req[q].email /\ users'[u] = v
    BY <1>1, <2>1 DEF IInv, Tables, User
  <2> HIDE DEF v
  <2>3. u \in Accounts /\ u # None /\ u \notin Disabled /\ users[u].email = None
    BY SignInAssumption DEF Disabled, Existing
  <2>4. u \notin Existing
    OBVIOUS
  <2>5. \A s \in Subs : ~Bound(contested, users, u, s)
    BY <2>3 DEF Bound
  <2>6. Kept
    BY <1>1, <2>1, <2>2, <2>3, <2>4, <2>5, RowWritten DEF IInv, Tables
  <2>7. /\ r \in Request /\ r.pc = "grant" /\ r.state = req[q].state /\ r.to = req[q].to
        /\ r.code = None /\ r.sub = req[q].sub /\ r.off = req[q].off /\ r.uid = u
    BY <1>1 DEF Request, PCs
  <2> HIDE DEF r
  <2>8. Form(r)
    BY <1>1, <2>3, <2>7 DEF Form, Resolved
  <2>9. OpenFits(r)
    BY <1>1, <2>2, <2>7 DEF OpenFits, Bound, Resolved
  <2>10. OffRow(Disabled', r)
    BY <1>1, <2>3, <2>6, <2>7 DEF IInv, OffInv, OffRow, Kept
  <2> QED BY <1>1, <2>2, <2>6, <2>7, <2>8, <2>9, <2>10, GoesOn
<1> QED BY <1>2, <1>3

(* The account that a request is about to be granted is its subject's.     *)
LEMMA GrantedBound ==
  ASSUME IInv, NEW q \in Requests, req[q].pc = "grant"
  PROVE  /\ req[q].code = None => Bound(contested, users, req[q].uid, req[q].sub)
         /\ req[q].code # None =>
              /\ At(req[q].code, "code")
              /\ Bound(contested, users, req[q].uid, req[req[q].code].sub)
<1>1. Bound(contested, users, req[q].uid, Of(req, q))
  BY DEF IInv, OpenInv, Resolved
<1>2. req[q].code # None => req[q].code \in Requests
  BY StateTyped DEF IInv
<1> QED BY <1>1, <1>2 DEF Of, IInv, CodeInv

LEMMA AnswerGiven ==
  ASSUME NEW q \in Requests, NEW a \in {"session", "code"}, Answer(q, a)
  PROVE  req' = [req EXCEPT ![q] =
           [req[q] EXCEPT !.pc = a, !.email = None, !.seen = None, !.live = FALSE,
                          !.off = req[q].off \cap {req[q].uid}]]
<1>1. CASE a = "session"
  BY <1>1 DEF Answer
<1>2. CASE a = "code"
  BY <1>2 DEF Answer
<1> QED BY <1>1, <1>2

LEMMA GrantInv == ASSUME IInv, NEW q \in Requests, Grant(q) PROVE IInv'
<1> DEFINE R(a) == [req[q] EXCEPT !.pc = a, !.email = None, !.seen = None, !.live = FALSE,
                                  !.off = req[q].off \cap {req[q].uid}]
<1>1. /\ req[q] \in Request /\ Form(req[q]) /\ req[q].pc = "grant" /\ ~At(q, "code")
      /\ UNCHANGED <<users, google, client, pending, contested, overlapped>>
  BY DEF IInv, Grant, At, history
<1>2. ASSUME NEW a \in {"session", "code"}, req[q].live
      PROVE  /\ R(a) \in Request /\ R(a).pc = a /\ R(a).state = req[q].state
             /\ R(a).to = req[q].to /\ R(a).code = req[q].code /\ R(a).sub = req[q].sub
             /\ R(a).uid = req[q].uid /\ R(a).off = {} /\ ~R(a).live
  <2>1. req[q].uid \notin req[q].off
    BY <1>1, <1>2 DEF IInv, OffInv, OffRow
  <2>2. req[q].off \cap {req[q].uid} = {}
    BY <2>1
  <2>3. a \in PCs /\ None \in Emails \union {None} /\ None \in Subs \union {None}
    BY DEF PCs, Answers
  <2>4. R(a).off = {}
    BY <1>1, <2>2 DEF Request
  <2> QED BY <1>1, <1>2, <2>3, <2>4 DEF Request
<1>3. ASSUME NEW a \in {"session", "code"}, req[q].live,
             a = "code" <=> req[q].state # None
      PROVE  Form(R(a)) /\ OpenFits(R(a)) /\ OffRow(Disabled', R(a))
  <2> DEFINE r == R(a)
  <2>1. /\ r.pc = a /\ r.state = req[q].state /\ r.code = req[q].code /\ r.sub = req[q].sub
        /\ r.uid = req[q].uid /\ r.off = {}
    BY <1>2, <1>3
  <2> HIDE DEF r
  <2>2. Form(r) /\ OffRow(Disabled', r)
    BY <1>1, <1>3, <2>1 DEF Form, Resolved, OffRow
  <2>3. OpenFits(r)
    BY <1>1, <1>3, <2>1, GrantedBound DEF OpenFits, Resolved
  <2> QED BY <2>2, <2>3 DEF r
<1>4. CASE ~req[q].live
  <2>1. Answer(q, "refused") /\ Kept
    BY <1>1, <1>4, NothingWritten DEF Grant, tables, history
  <2> QED BY <1>1, <2>1, TurnedAway
<1>5. CASE req[q].live /\ req[q].state = None
  <2> DEFINE r == R("session")
  <2>1. req' = [req EXCEPT ![q] = r] /\ Kept
    BY <1>1, <1>5, AnswerGiven, NothingWritten DEF Grant, tables, history
  <2>2. /\ r \in Request /\ r.pc = "session" /\ r.state = req[q].state /\ r.to = req[q].to
        /\ r.code = req[q].code
    BY <1>2, <1>5
  <2>3. Form(r) /\ OpenFits(r) /\ OffRow(Disabled', r)
    BY <1>3, <1>5
  <2> HIDE DEF r
  <2> QED BY <1>1, <2>1, <2>2, <2>3, GoesOn
<1>6. CASE req[q].live /\ req[q].state # None
  <2> DEFINE r == R("code")
             c == [to |-> req[q].to, uid |-> req[q].uid, used |-> FALSE, state |-> "live"]
  <2>1. req' = [req EXCEPT ![q] = r] /\ codes' = [codes EXCEPT ![q] = c]
    BY <1>6, AnswerGiven DEF Grant
  <2>2. /\ r \in Request /\ r.pc = "code" /\ r.state = req[q].state /\ r.to = req[q].to
        /\ r.code = None /\ r.uid = req[q].uid
    BY <1>1, <1>2, <1>6 DEF Form
  <2>3. Form(r) /\ OpenFits(r) /\ OffRow(Disabled', r)
    BY <1>3, <1>6
  <2>4. c \in Code /\ c.to = req[q].to /\ c.uid = req[q].uid
    BY <1>1 DEF Code, Request
  <2> HIDE DEF r, c
  <2>5. /\ req' \in [Requests -> Request] /\ req'[q] = r
        /\ \A p \in Requests \ {q} : req'[p] = req[p]
    BY <2>1, <2>2, Turned
  <2>6. /\ codes' \in [Requests -> Code] /\ codes'[q] = c
        /\ \A k \in Requests \ {q} : codes'[k] = codes[k]
    BY <2>1, <2>4 DEF IInv, Tables
  <2>7. Tables' /\ PendingKept /\ BoundKept /\ Disabled = Disabled'
    BY <1>1, <2>6 DEF IInv, Tables, PendingKept, BoundKept, Disabled, Existing
  <2>8. AuthFits(q, r)
    BY <1>1, <2>2 DEF AuthFits, Past
  <2>9. AuthInv'
    BY <2>1, <2>2, <2>7, <2>8, AuthStep
  <2>10. CodeInv'
    <3>1. \A p \in Requests : req'[p].code # None =>
            /\ p # q /\ req'[p] = req[p] /\ req[p].code \in Requests \ {q}
      BY <1>1, <2>2, <2>5, StateTyped DEF IInv, CodeInv
    <3>2. ASSUME NEW k \in Requests, codes'[k].state # "absent"
          PROVE  req'[k].pc = "code" /\ codes'[k].to = req'[k].to /\ codes'[k].uid = req'[k].uid
      BY <2>2, <2>4, <2>5, <2>6, <3>2 DEF IInv, CodeInv, At
    <3>3. ASSUME NEW p \in Requests, req'[p].code # None
          PROVE  /\ codes'[req'[p].code].state # "absent"
                 /\ req'[p].to = codes'[req'[p].code].to
                 /\ req'[p].pc = "mark" \/ codes'[req'[p].code].used
      BY <2>6, <3>1, <3>3 DEF IInv, CodeInv, At
    <3>4. ASSUME NEW p \in Requests, NEW o \in Requests, p # o,
                 req'[o].code # None, req'[p].code = req'[o].code
          PROVE  req'[o].code \in overlapped' \/ req'[o].pc = "mark"
      BY <1>1, <3>1, <3>4 DEF IInv, CodeInv, At
    <3> QED BY <3>2, <3>3, <3>4 DEF CodeInv, At
  <2>11. OpenInv'
    BY <1>1, <2>1, <2>2, <2>3, <2>7, OpenStep
  <2>12. OffInv'
    BY <2>1, <2>2, <2>3, <2>7, OffStep
  <2>13. \A p \in Requests : Form(req'[p])
    BY <2>3, <2>5 DEF IInv
  <2> QED BY <2>5, <2>7, <2>9, <2>10, <2>11, <2>12, <2>13 DEF IInv
<1> QED BY <1>4, <1>5, <1>6

(* An exchange that finds a code unused finds all that hold it unmarked.   *)
LEMMA ExchangeInv ==
  ASSUME IInv, NEW q \in Requests, NEW k \in Requests, NEW c \in Clients, NEW w \in Uris,
         Exchange(q, k, c, w)
  PROVE  IInv'
<1> DEFINE to == [client |-> c, uri |-> w]
           r == [New EXCEPT !.pc = "mark", !.code = k, !.to = to, !.off = Disabled]
<1>1. req' = [req EXCEPT ![q] = r] /\ At(q, "new") /\ UNCHANGED <<tables, google, history>>
  BY DEF Exchange, Begin, New
<1>2. to \in Party /\ codes[k].state = "live" /\ ~codes[k].used /\ codes[k].to = to
  BY DEF Party, Exchange
<1> HIDE DEF to
<1>3. /\ r \in Request /\ r.pc = "mark" /\ r.state = None /\ r.code = k /\ k # None
      /\ r.off = Disabled /\ r.to = to
  BY <1>2, SignInAssumption DEF Request, New, PCs, Disabled, Existing
<1> HIDE DEF r
<1>4. Kept /\ Disabled' = Disabled /\ codes' = codes /\ overlapped' = overlapped
  BY <1>1, NothingWritten DEF tables, history, Disabled, Existing
<1>5. Form(r) /\ AuthFits(q, r) /\ OpenFits(r) /\ OffRow(Disabled', r)
  BY <1>3, <1>4 DEF Form, AuthFits, OpenFits, OffRow, Resolved
<1>6. /\ req' \in [Requests -> Request] /\ req'[q] = r
      /\ \A p \in Requests \ {q} : req'[p] = req[p]
  BY <1>1, <1>3, Turned
<1>7. CodeInv'
  <2>1. ASSUME NEW j \in Requests, codes'[j].state # "absent"
        PROVE  req'[j].pc = "code" /\ codes'[j].to = req'[j].to /\ codes'[j].uid = req'[j].uid
    BY <1>1, <1>4, <1>6, <2>1 DEF IInv, CodeInv, At
  <2>2. ASSUME NEW p \in Requests, req'[p].code # None
        PROVE  /\ codes'[req'[p].code].state # "absent"
               /\ req'[p].to = codes'[req'[p].code].to
               /\ req'[p].pc = "mark" \/ codes'[req'[p].code].used
    BY <1>2, <1>3, <1>4, <1>6, <2>2 DEF IInv, CodeInv, At
  <2>3. ASSUME NEW p \in Requests, NEW o \in Requests, p # o,
               req'[o].code # None, req'[p].code = req'[o].code
        PROVE  req'[o].code \in overlapped' \/ req'[o].pc = "mark"
    BY <1>2, <1>3, <1>4, <1>6, <2>3 DEF IInv, CodeInv, At
  <2> QED BY <2>1, <2>2, <2>3 DEF CodeInv, At
<1>8. AuthInv' /\ OpenInv' /\ OffInv'
  BY <1>1, <1>3, <1>4, <1>5, AuthStep, OpenStep, OffStep DEF Kept, At
<1>9. \A p \in Requests : Form(req'[p])
  BY <1>5, <1>6 DEF IInv
<1> QED BY <1>4, <1>6, <1>7, <1>8, <1>9 DEF IInv, Kept

(* Whoever marks a code leaves nobody else unmarked, or it is overlapped.  *)
LEMMA MarkUsedInv == ASSUME IInv, NEW q \in Requests, MarkUsed(q) PROVE IInv'
<1> DEFINE k == req[q].code
<1>1. /\ req[q] \in Request /\ Form(req[q]) /\ req[q].pc = "mark" /\ ~At(q, "code")
      /\ k # None /\ k \in Requests
      /\ UNCHANGED <<users, google, client, pending, contested>>
  BY StateTyped DEF IInv, MarkUsed, At, Form
<1>2. CASE codes[k].state \notin InTable
  <2>1. Answer(q, "error") /\ Kept
    BY <1>1, <1>2, NothingWritten DEF MarkUsed, tables, history
  <2> QED BY <1>1, <2>1, TurnedAway
<1>3. CASE codes[k].state \in InTable
  <2> DEFINE r == [req[q] EXCEPT !.pc = "identity"]
  <2>1. /\ req' = [req EXCEPT ![q] = r]
        /\ codes' = [codes EXCEPT ![k].used = TRUE]
        /\ overlapped' = overlapped \union
             {j \in {k} : \E p \in Requests \ {q} : At(p, "mark") /\ req[p].code = j}
    BY <1>3 DEF MarkUsed, Goto, IInv
  <2>2. /\ r \in Request /\ r.pc = "identity" /\ r.state = req[q].state /\ r.to = req[q].to
        /\ r.code = k /\ r.off = req[q].off
    BY <1>1 DEF Request, PCs
  <2> HIDE DEF r
  <2>3. /\ req' \in [Requests -> Request] /\ req'[q] = r
        /\ \A p \in Requests \ {q} : req'[p] = req[p]
    BY <2>1, <2>2, Turned
  <2>4. /\ codes' \in [Requests -> Code] /\ codes'[k].used
        /\ \A j \in Requests : /\ codes'[j].to = codes[j].to /\ codes'[j].uid = codes[j].uid
                               /\ codes'[j].state = codes[j].state
                               /\ codes[j].used => codes'[j].used
    BY <1>1, <2>1, ZenonT(40) DEF IInv, Tables, Code
  <2>5. overlapped \subseteq overlapped' /\ overlapped' \subseteq Requests
    BY <1>1, <2>1 DEF IInv, Tables
  <2>6. Tables' /\ PendingKept /\ BoundKept /\ Disabled = Disabled'
    BY <1>1, <2>4, <2>5 DEF IInv, Tables, PendingKept, BoundKept, Disabled, Existing
  <2>7. Form(r) /\ AuthFits(q, r) /\ OpenFits(r)
    BY <1>1, <2>2 DEF Form, AuthFits, OpenFits, Resolved
  <2>8. OffRow(Disabled', r)
    BY <1>1, <2>2, <2>6 DEF IInv, OffInv, OffRow
  <2>9. CodeInv'
    <3>1. ASSUME NEW j \in Requests, codes'[j].state # "absent"
          PROVE  req'[j].pc = "code" /\ codes'[j].to = req'[j].to /\ codes'[j].uid = req'[j].uid
      BY <1>1, <2>3, <2>4, <3>1 DEF IInv, CodeInv, At
    <3>2. \A p \in Requests : /\ req'[p].code = req[p].code /\ req'[p].to = req[p].to
                              /\ req[p].code # None => req[p].code \in Requests
      BY <2>2, <2>3, StateTyped DEF IInv
    <3>3. ASSUME NEW p \in Requests, req'[p].code # None
          PROVE  /\ codes'[req'[p].code].state # "absent"
                 /\ req'[p].to = codes'[req'[p].code].to
                 /\ req'[p].pc = "mark" \/ codes'[req'[p].code].used
      BY <1>1, <2>3, <2>4, <3>2, <3>3 DEF IInv, CodeInv, At
    <3>4. ASSUME NEW p \in Requests, NEW o \in Requests, p # o,
                 req'[o].code # None, req'[p].code = req'[o].code
          PROVE  req'[o].code \in overlapped' \/ req'[o].pc = "mark"
      <4>1. CASE o = q
        <5>1. k \in overlapped \/ At(p, "mark")
          BY <1>1, <3>2, <3>4, <4>1 DEF IInv, CodeInv
        <5> QED BY <2>1, <2>5, <3>2, <3>4, <4>1, <5>1
      <4>2. CASE o # q
        BY <2>3, <2>5, <3>2, <3>4, <4>2 DEF IInv, CodeInv, At
      <4> QED BY <4>1, <4>2
    <3> QED BY <3>1, <3>3, <3>4 DEF CodeInv, At
  <2>10. AuthInv' /\ OpenInv' /\ OffInv'
    BY <1>1, <2>1, <2>2, <2>6, <2>7, <2>8, AuthStep, OpenStep, OffStep
  <2>11. \A p \in Requests : Form(req'[p])
    BY <2>3, <2>7 DEF IInv
  <2> QED BY <2>3, <2>6, <2>9, <2>10, <2>11 DEF IInv
<1> QED BY <1>2, <1>3

-----------------------------------------------------------------------------
(* Steps of everybody else *)

LEMMA AuthorizeInv ==
  ASSUME IInv, NEW st \in States, NEW c \in Clients, NEW w \in Uris, Authorize(st, c, w)
  PROVE  IInv'
<1>1. /\ pending' = [pending EXCEPT ![st] =
                       [to |-> [client |-> c, uri |-> w], state |-> "live"]]
      /\ UNCHANGED <<users, google, client, codes, req, contested, overlapped>>
  BY DEF Authorize, history
<1>2. /\ pending' \in [States -> Pending] /\ pending[st].state = "absent"
      /\ \A x \in States \ {st} : pending'[x] = pending[x]
  BY <1>1 DEF IInv, Tables, Pending, Party, Authorize
<1>3. Kept
  BY <1>1, <1>2 DEF Kept, IInv, Tables, PendingKept, CodesKept, BoundKept, Disabled, Existing
<1> QED BY <1>1, <1>3, WorldStep

LEMMA CreateStubInv ==
  ASSUME IInv, NEW u \in Accounts, NEW e \in Emails, CreateStub(u, e)
  PROVE  IInv'
<1> DEFINE v == [sub |-> None, email |-> e, active |-> TRUE]
<1>1. /\ users' = [users EXCEPT ![u] = v] /\ v \in User /\ v.email # None
      /\ UNCHANGED <<google, client, pending, codes, req, contested, overlapped>>
  BY SignInAssumption DEF CreateStub, User, history
<1>2. /\ u \notin Existing /\ u \notin Disabled
      /\ \A s \in Subs : ~Bound(contested, users, u, s)
  BY DEF CreateStub, Disabled, Existing, Bound
<1> HIDE DEF v
<1>3. contested \subseteq contested' /\ contested' \subseteq Accounts
  BY <1>1 DEF IInv, Tables
<1>4. Kept
  BY <1>1, <1>2, <1>3, RowWritten
<1> QED BY <1>1, <1>4, WorldStep

LEMMA DisableInv == ASSUME IInv, NEW u \in Accounts, Disable(u) PROVE IInv'
<1> DEFINE v == [users[u] EXCEPT !.active = FALSE]
<1>1. /\ users' = [users EXCEPT ![u] = v] /\ v \in User /\ v.email = users[u].email
      /\ v.sub = users[u].sub /\ ~v.active
      /\ UNCHANGED <<google, client, pending, codes, req, contested, overlapped>>
  BY DEF IInv, Tables, Disable, User, history
<1> HIDE DEF v
<1>2. /\ contested \subseteq contested' /\ contested' \subseteq Accounts
      /\ u \in Existing => v.email # None
      /\ \A s \in Subs : Bound(contested, users, u, s) => u \in contested' \/ v.sub = s
  BY <1>1 DEF IInv, Tables, Existing, Bound
<1>3. Kept
  BY <1>1, <1>2, RowWritten
<1> QED BY <1>1, <1>3, WorldStep

LEMMA DeactivateClientInv == ASSUME IInv, NEW c \in Clients, DeactivateClient(c) PROVE IInv'
<1>1. /\ UNCHANGED <<users, google, pending, codes, req, contested, overlapped>>
      /\ client' \in [Clients -> BOOLEAN]
  BY DEF DeactivateClient, IInv, Tables, history
<1>2. Kept
  BY <1>1 DEF Kept, IInv, Tables, PendingKept, CodesKept, BoundKept, Disabled, Existing
<1> QED BY <1>1, <1>2, WorldStep

LEMMA RenameInv == ASSUME IInv, NEW s \in Subs, NEW e \in Emails, Rename(s, e) PROVE IInv'
<1>1. UNCHANGED <<users, client, pending, codes, req, contested, overlapped>>
  BY DEF Rename, tables, history
<1>2. google' \in [Subs -> Mails]
  <2>1. \A t \in Subs : google[t] \in Mails
    BY DEF IInv, Tables
  <2> QED BY <2>1 DEF Rename, Mails
<1>3. Kept
  BY <1>1, <1>2 DEF Kept, IInv, Tables, PendingKept, CodesKept, BoundKept, Disabled, Existing
<1> QED BY <1>1, <1>3, WorldStep

LEMMA ExpirePendingInv == ASSUME IInv, NEW st \in States, ExpirePending(st) PROVE IInv'
<1>1. /\ UNCHANGED <<users, google, client, codes, req, contested, overlapped>>
      /\ pending' = [pending EXCEPT ![st].state = "expired"] /\ pending[st].state = "live"
  BY DEF ExpirePending, history
<1>2. pending' \in [States -> Pending] /\ PendingKept
  BY <1>1 DEF IInv, Tables, Pending, PendingKept
<1>3. Kept
  BY <1>1, <1>2 DEF Kept, IInv, Tables, CodesKept, BoundKept, Disabled, Existing
<1> QED BY <1>1, <1>3, WorldStep

LEMMA ExpireCodeInv == ASSUME IInv, NEW k \in Requests, ExpireCode(k) PROVE IInv'
<1>1. /\ UNCHANGED <<users, google, client, pending, req, contested, overlapped>>
      /\ codes' = [codes EXCEPT ![k].state = "expired"] /\ codes[k].state = "live"
  BY DEF ExpireCode, history
<1>2. codes' \in [Requests -> Code] /\ CodesKept
  BY <1>1 DEF IInv, Tables, Code, CodesKept
<1>3. Kept
  BY <1>1, <1>2 DEF Kept, IInv, Tables, PendingKept, BoundKept, Disabled, Existing
<1> QED BY <1>1, <1>3, WorldStep

LEMMA PurgeInv == ASSUME IInv, Purge PROVE IInv'
<1>1. UNCHANGED <<users, google, client, req, contested, overlapped>>
  BY DEF Purge, history
<1>2. CASE pending' = Swept(pending) /\ codes' = codes
  <2>1. pending' = [st \in States |-> IF pending[st].state = "expired"
                      THEN [pending[st] EXCEPT !.state = "gone"] ELSE pending[st]]
    BY <1>2 DEF Swept, IInv, Tables
  <2>2. \A st \in States : pending[st] \in Pending
    BY DEF IInv, Tables
  <2>3. pending' \in [States -> Pending] /\ PendingKept
    BY <2>1, <2>2 DEF Pending, PendingKept
  <2>4. Kept
    BY <1>1, <1>2, <2>3 DEF Kept, IInv, Tables, CodesKept, BoundKept, Disabled, Existing
  <2> QED BY <1>1, <2>4, WorldStep
<1>3. CASE codes' = Swept(codes) /\ pending' = pending
  <2>1. codes' = [k \in Requests |-> IF codes[k].state = "expired"
                    THEN [codes[k] EXCEPT !.state = "gone"] ELSE codes[k]]
    BY <1>3 DEF Swept, IInv, Tables
  <2>2. \A k \in Requests : codes[k] \in Code
    BY DEF IInv, Tables
  <2>3. codes' \in [Requests -> Code] /\ CodesKept
    BY <1>1, <2>1, <2>2 DEF Code, CodesKept
  <2>4. Kept
    BY <1>1, <1>3, <2>3 DEF Kept, IInv, Tables, PendingKept, BoundKept, Disabled, Existing
  <2> QED BY <1>1, <2>4, WorldStep
<1> QED BY <1>2, <1>3 DEF Purge

-----------------------------------------------------------------------------
LEMMA InitInv == ASSUME Init PROVE IInv
<1>1. /\ users = [u \in Accounts |-> NoUser] /\ client = [c \in Clients |-> TRUE]
      /\ pending = [st \in States |-> [to |-> Nobody, state |-> "absent"]]
      /\ codes = [q \in Requests |-> NoCode] /\ req = [q \in Requests |-> New]
      /\ contested = {} /\ overlapped = {}
  BY DEF Init
<1>2. google \in [Subs -> Mails]
  BY DEF Init, Mails
<1>3. Tables
  BY <1>1, <1>2 DEF Tables, User, NoUser, Pending, Party, Nobody, Code, NoCode
<1>4. New \in Request /\ Form(New) /\ OffRow(Disabled, New)
  BY DEF New, Request, PCs, Party, Nobody, Form, OffRow, Resolved
<1>5. AuthInv
  BY <1>1 DEF AuthInv, Past, New
<1>6. CodeInv
  BY <1>1 DEF CodeInv, NoCode, New
<1>7. OpenInv /\ OffInv
  BY <1>1, <1>4 DEF OpenInv, OffInv, Resolved, New, At
<1> QED BY <1>1, <1>3, <1>4, <1>5, <1>6, <1>7 DEF IInv

LEMMA RequestInv == ASSUME IInv, NEW q \in Requests, Step(q) PROVE IInv'
BY ConsumeInv, AskGoogleInv, MarkUsedInv, ReadIdentityInv, FindBySubInv, UpdateProfileInv,
   FindStubInv, ClaimStubInv, ProvisionInv, GrantInv DEF Step

LEMMA AgentLoginInv == ASSUME IInv, NEW q \in Requests, NEW s \in Subs, AgentLogin(q, s)
                       PROVE  IInv'
<1>1. google[s].email \in Emails
  BY DEF AgentLogin, IInv, Tables, Mails
<1> QED BY <1>1, LoginBegins DEF AgentLogin

LEMMA NextInv == ASSUME IInv, [Next]_vars PROVE IInv'
<1>1. ASSUME NEW q \in Requests, Step(q) PROVE IInv'
  BY <1>1, RequestInv
<1>2. ASSUME NEW q \in Requests, NEW s \in Subs, AgentLogin(q, s) PROVE IInv'
  BY <1>2, AgentLoginInv
<1>3. ASSUME NEW q \in Requests, NEW s \in Subs, NEW e \in Emails, Login(q, s, e) PROVE IInv'
  BY <1>3, LoginBegins DEF Login
<1>4. ASSUME NEW q \in Requests, NEW st \in States, NEW s \in Subs, Callback(q, st, s)
      PROVE  IInv'
  BY <1>4, CallbackInv
<1>5. ASSUME NEW q \in Requests, NEW k \in Requests, NEW c \in Clients, NEW w \in Uris,
             Exchange(q, k, c, w)
      PROVE  IInv'
  BY <1>5, ExchangeInv
<1>6. ASSUME NEW st \in States, NEW c \in Clients, NEW w \in Uris, Authorize(st, c, w)
      PROVE  IInv'
  BY <1>6, AuthorizeInv
<1>7. ASSUME NEW u \in Accounts, Disable(u) PROVE IInv'
  BY <1>7, DisableInv
<1>8. ASSUME NEW u \in Accounts, NEW e \in Emails, CreateStub(u, e) PROVE IInv'
  BY <1>8, CreateStubInv
<1>9. ASSUME NEW c \in Clients, DeactivateClient(c) PROVE IInv'
  BY <1>9, DeactivateClientInv
<1>10. ASSUME NEW s \in Subs, NEW e \in Emails, Rename(s, e) PROVE IInv'
  BY <1>10, RenameInv
<1>11. ASSUME NEW st \in States, ExpirePending(st) PROVE IInv'
  BY <1>11, ExpirePendingInv
<1>12. ASSUME NEW k \in Requests, ExpireCode(k) PROVE IInv'
  BY <1>12, ExpireCodeInv
<1>13. ASSUME Purge PROVE IInv'
  BY <1>13, PurgeInv
<1>14. ASSUME UNCHANGED vars PROVE IInv'
  <2>1. Kept /\ req' = req
    BY <1>14, NothingWritten DEF vars, tables, history
  <2> QED BY <2>1, WorldStep
<1> QED BY <1>1, <1>2, <1>3, <1>4, <1>5, <1>6, <1>7, <1>8, <1>9, <1>10, <1>11, <1>12,
           <1>13, <1>14 DEF Next

LEMMA Inductive == Spec => []IInv
<1>1. Init => IInv
  BY InitInv
<1>2. IInv /\ [Next]_vars => IInv'
  BY NextInv
<1> QED BY <1>1, <1>2, PTL DEF Spec

-----------------------------------------------------------------------------
(* Every row, and every request's place among the statements it runs, is   *)
(* well formed, whatever interleaves (broker.service.ts, user.service.ts). *)
THEOREM TypesHold == Spec => []TypeOK
<1>1. IInv => TypeOK
  BY DEF IInv, Tables, TypeOK
<1> QED BY <1>1, Inductive, PTL

(* A session opens the account bound to the subject that signed in, unless *)
(* two subjects claimed one stub, and goes to the client and redirect URI  *)
(* the authorization was begun with: findOrCreateUser resolves by subject  *)
(* first, and exchangeAuthCode checks the code's client and URI.           *)
THEOREM SessionOfSignerHolds == Spec => []SessionOfSigner
<1>1. IInv => SessionOfSigner
  <2> SUFFICES ASSUME IInv, NEW q \in Requests, req[q].pc = "session"
               PROVE  /\ req[q].uid \in contested \/ users[req[q].uid].sub = Of(req, q)
                      /\ req[q].code # None =>
                           pending[req[req[q].code].state].to = req[q].to
    BY DEF SessionOfSigner, Session, At, Signer, Of
  <2>1. Bound(contested, users, req[q].uid, Of(req, q))
    BY DEF IInv, OpenInv, Resolved
  <2>2. ASSUME req[q].code # None PROVE pending[req[req[q].code].state].to = req[q].to
    <3> DEFINE k == req[q].code
    <3>1. k \in Requests
      BY <2>2, StateTyped DEF IInv
    <3>2. At(k, "code") /\ codes[k].to = req[k].to /\ req[q].to = codes[k].to
      BY <2>2, <3>1 DEF IInv, CodeInv
    <3>3. req[k].state # None
      BY <3>1, <3>2 DEF IInv, Form, At
    <3>4. req[k].to = pending[req[k].state].to
      BY <3>1, <3>3 DEF IInv, AuthInv
    <3> QED BY <3>2, <3>4
  <2> QED BY <2>1, <2>2 DEF Bound
<1> QED BY <1>1, Inductive, PTL

(* One authorization yields one code, however many callbacks come back     *)
(* with it: handleGoogleCallback deletes the row before it asks Google,    *)
(* and the delete of a row that is gone throws.                            *)
THEOREM OneCodeHolds == Spec => []OneCodePerAuthorization
<1>1. IInv => OneCodePerAuthorization
  BY DEF IInv, OneCodePerAuthorization, AuthInv, Past, Form, At
<1> QED BY <1>1, Inductive, PTL

(* A code opens one session, unless two exchanges read it before either    *)
(* marked it: exchangeAuthCode reads usedAt and then updates by id.        *)
THEOREM CodeSpentOnceHolds == Spec => []CodeSpentOnce
<1>1. IInv => CodeSpentOnce
  BY DEF IInv, CodeSpentOnce, CodeInv, Session, At
<1> QED BY <1>1, Inductive, PTL

(* An account disabled before a request began is given no code and no      *)
(* session by it: each way reads isActive of the account after it began,   *)
(* and checks it before it answers.                                        *)
THEOREM DisabledHolds == Spec => []DisabledGetNothing
<1>1. IInv => DisabledGetNothing
  BY DEF IInv, DisabledGetNothing, OffInv, OffRow
<1> QED BY <1>1, Inductive, PTL
-----------------------------------------------------------------------------
(***************************************************************************)
(* What a browser does with the session it was given: the frontend SDK     *)
(* (SdkSession), for any number of tabs, tokens and requests under way.    *)
(*                                                                         *)
(* The two properties excuse a family whose answer was lost, whose         *)
(* requests overlapped or which two tabs hold; so the invariant speaks of  *)
(* the other families, one by one (Fam).  Of such a family one tab, the    *)
(* session store and one request of that tab may have a token, and it is   *)
(* the same token (Alone); it is not rotated, or the answer with its       *)
(* successor is on its way to that tab (Good); and once the family was     *)
(* logged out no token of it is live and nobody has one (Over).  Hence a   *)
(* rotated token that reaches the server is of a family that was excused.  *)
(* Dead, of all families, is why a revoked token's logout is a logout: its *)
(* family has no live token.  Sound says what calls and rows look like.    *)
(***************************************************************************)

Issued(t) == row[t].state # "unissued"
In(x, f) == x \in Tokens /\ row[x].family = f

(* Rows that exist have a family that was opened. *)
RowForm == \A t \in Tokens :
  IF Issued(t) THEN row[t].family \in Tokens /\ Issued(row[t].family)
  ELSE row[t].family = Nothing

(* What a call is made of, at each point. *)
Shape(c) ==
  /\ c.pc = "idle" => c = Idle
  /\ c.pc # "idle" => c.kind # Nothing
  /\ c.pc \in {"script", "waits", "prompt"} => c.kind = "login" /\ c.on \in Pages
  /\ IF c.kind \in {Nothing, "login"} THEN c.sent = Nothing ELSE c.sent \in Tokens
  /\ IF c.pc = "answered" THEN c.answer # Nothing /\ c.on \in Pages ELSE c.answer = Nothing
  /\ c.kind = "logout" => c.answer \in {Nothing, "ok", "rejected", "network"}
  /\ c.kind # "logout" => c.answer # "ok"

CallForm == \A k \in Calls :
  /\ Shape(call[k])
  /\ call[k].sent # Nothing => Issued(call[k].sent)
  /\ call[k].answer \in Tokens =>
       /\ Issued(call[k].answer)
       /\ row[call[k].answer].family = IF call[k].sent = Nothing THEN call[k].answer
                                       ELSE row[call[k].sent].family

(* Whatever anybody refers to was issued. *)
Known ==
  /\ \A p \in Pages : page[p].held # Nothing => Issued(page[p].held)
  /\ saved # Nothing => Issued(saved)
  /\ \A f \in troubled \union reused \union ended : Issued(f)

Sound == SdkTypeOK /\ RowForm /\ CallForm /\ Known

LEMMA FreshIsNew ==
  ASSUME Unissued # {}
  PROVE  Fresh \in Tokens /\ row[Fresh].state = "unissued"
BY DEF Fresh, Unissued

LEMMA SoundInit == SdkInit => Sound
BY SdkAssumption DEF SdkInit, Sound, SdkTypeOK, RowForm, CallForm, Shape, Known, Issued, Row,
   Page, Blank, Call, Kinds, Idle

(* Setting one field of one page. *)
Script == {"absent", "loading", "loaded", "failed"}
LEMMA PageSet ==
  ASSUME NEW g \in [Pages -> Page], NEW p
  PROVE  /\ \A h \in Tokens \union {Nothing} : [g EXCEPT ![p].held = h] \in [Pages -> Page]
         /\ \A b \in {TRUE, FALSE} : [g EXCEPT ![p].timer = b] \in [Pages -> Page]
         /\ \A b \in {TRUE, FALSE} : [g EXCEPT ![p].loading = b] \in [Pages -> Page]
         /\ \A s \in Script : [g EXCEPT ![p].script = s] \in [Pages -> Page]
         /\ \A b \in {TRUE, FALSE} : [g EXCEPT ![p].out = b] \in [Pages -> Page]
<1>1. CASE p \in Pages
  <2>1. /\ \A h \in Tokens \union {Nothing} : [g[p] EXCEPT !.held = h] \in Page
        /\ \A b \in {TRUE, FALSE} : [g[p] EXCEPT !.timer = b] \in Page
        /\ \A b \in {TRUE, FALSE} : [g[p] EXCEPT !.loading = b] \in Page
        /\ \A s \in Script : [g[p] EXCEPT !.script = s] \in Page
        /\ \A b \in {TRUE, FALSE} : [g[p] EXCEPT !.out = b] \in Page
    BY <1>1 DEF Page, Script
  <2> QED BY <2>1, <1>1
<1>2. CASE p \notin Pages
  BY <1>2
<1> QED BY <1>1, <1>2

(* Steps that leave the server's rows. *)
LEMMA SoundSend ==
  ASSUME Sound, NEW k \in Calls, NEW p \in Pages, NEW kind \in {"refresh", "logout"},
         page[p].held # Nothing, Send(k, kind, p, page[p].held),
         \/ page' = page \/ page' = [page EXCEPT ![p].timer = FALSE]
  PROVE  Sound'
<1> USE SdkAssumption
<1>1. page[p].held \in Tokens /\ Issued(page[p].held)
  BY DEF Sound, SdkTypeOK, Page, Known
<1>2. Family(page[p].held) \in Tokens /\ Issued(Family(page[p].held))
  BY <1>1 DEF Sound, RowForm, Family
<1>3. SdkTypeOK'
  <2>1. page' \in [Pages -> Page]
    <3> page \in [Pages -> Page]
      BY DEF Sound, SdkTypeOK
    <3>1. [page EXCEPT ![p].timer = FALSE] \in [Pages -> Page]
      BY PageSet
    <3> QED BY <3>1
  <2>2. [[[[Idle EXCEPT !.kind = kind] EXCEPT !.on = p] EXCEPT !.pc = "sent"] EXCEPT
             !.sent = page[p].held] \in Call
    BY <1>1 DEF Call, Kinds, Idle
  <2>3. call' \in [Calls -> Call]
    BY <2>2 DEF Sound, SdkTypeOK, Send
  <2> QED BY <1>1, <1>2, <2>1, <2>3 DEF Sound, SdkTypeOK, Send
<1>4. RowForm'
  BY DEF Sound, RowForm, Send, Issued
<1>5. CallForm'
  BY <1>1, <1>2 DEF Sound, SdkTypeOK, CallForm, Shape, Send, Idle, Issued
<1>6. Known'
  BY <1>1, <1>2 DEF Sound, SdkTypeOK, Known, Send, Idle, Issued, Page
<1> QED BY <1>3, <1>4, <1>5, <1>6 DEF Sound

LEMMA SoundLoad ==
  ASSUME Sound, NEW k \in Calls, NEW p \in Pages, Load(k, p)
  PROVE  Sound'
<1> USE SdkAssumption
<1>1. saved # Nothing => saved \in Tokens /\ Issued(saved) /\ Family(saved) \in Tokens /\ Issued(Family(saved))
  BY DEF Sound, SdkTypeOK, Known, RowForm, Family
<1>2. \A f \in Unheard(p) : f \in Tokens /\ Issued(f)
  <2> SUFFICES ASSUME NEW j \in On(p), call[j].sent # Nothing
               PROVE  Family(call[j].sent) \in Tokens /\ Issued(Family(call[j].sent))
    BY DEF Unheard
  <2> j \in Calls /\ call[j].sent \in Tokens
    BY DEF On, Sound, SdkTypeOK, Call
  <2> QED BY DEF Sound, CallForm, RowForm, Family
<1>3. SdkTypeOK'
  <2>1. page' \in [Pages -> Page]
    BY DEF Sound, SdkTypeOK, Page, Load, Blank
  <2>2. \A j \in Calls : Forgotten(p)[j] \in Call
    BY DEF Sound, SdkTypeOK, Call, Idle, Forgotten
  <2>3. saved # Nothing => [[[[Idle EXCEPT !.kind = "restore"] EXCEPT !.on = p] EXCEPT
             !.pc = "sent"] EXCEPT !.sent = saved] \in Call
    BY <1>1 DEF Call, Kinds, Idle
  <2>4. call' \in [Calls -> Call]
    BY <2>2, <2>3 DEF Load, Forgotten
  <2> QED BY <1>1, <1>2, <2>1, <2>4 DEF Sound, SdkTypeOK, Load
<1>4. RowForm'
  BY DEF Sound, RowForm, Load, Issued
<1>5. CallForm'
  BY <1>1, <1>2 DEF Sound, SdkTypeOK, CallForm, Shape, Load, Idle, Issued, Forgotten, Call
<1>6. Known'
  BY <1>1, <1>2 DEF Sound, SdkTypeOK, Known, Load, Idle, Issued, Page, Forgotten, Blank, Call
<1> QED BY <1>3, <1>4, <1>5, <1>6 DEF Sound

LEMMA SoundLogin ==
  ASSUME Sound, NEW k \in Calls, NEW p \in Pages, BeginLogin(k, p)
  PROVE  Sound'
<1> DEFINE w == [Idle EXCEPT !.kind = "login", !.on = p,
                  !.pc = CASE page[p].script = "loaded" -> "prompt"
                           [] page[p].script = "absent" -> "script"
                           [] OTHER -> "waits"]
<1>1. /\ w.pc \in {"script", "waits", "prompt"} /\ w.on = p /\ w.kind = "login"
      /\ w.sent = Nothing /\ w.answer = Nothing /\ w \in Call
  BY DEF Call, Kinds, Idle
<1>2. call' = [call EXCEPT ![k] = w]
  BY DEF BeginLogin
<1> HIDE DEF w
<1>3. SdkTypeOK'
  <2>1. page' \in [Pages -> Page]
    <3>0. page \in [Pages -> Page]
      BY DEF Sound, SdkTypeOK
    <3>1. [page EXCEPT ![p].loading = TRUE] \in [Pages -> Page]
      BY <3>0, PageSet
    <3>2. [[page EXCEPT ![p].loading = TRUE] EXCEPT ![p].out = FALSE] \in [Pages -> Page]
      BY <3>1, PageSet DEF Script
    <3>3. page[p].script \in Script
      BY DEF Sound, SdkTypeOK, Page, Script
    <3> QED BY <3>2, <3>3, PageSet DEF BeginLogin, Script
  <2> QED BY <1>1, <1>2, <2>1 DEF Sound, SdkTypeOK, BeginLogin, ghosts
<1>4. CallForm'
  <2>1. UNCHANGED row
    BY DEF BeginLogin
  <2>2. Shape(w)
    BY <1>1, SdkAssumption DEF Shape
  <2> QED BY <1>1, <1>2, <2>1, <2>2, SdkAssumption DEF Sound, SdkTypeOK, CallForm, Issued
<1>5. RowForm'
  BY DEF Sound, RowForm, BeginLogin, Issued
<1>6. Known'
  <2>1. \A q \in Pages : page'[q].held = page[q].held
    BY DEF Sound, SdkTypeOK, Page, BeginLogin
  <2> QED BY <1>1, <1>2, <2>1, SdkAssumption DEF Sound, SdkTypeOK, Known, BeginLogin, Issued,
         ghosts
<1> QED BY <1>3, <1>4, <1>5, <1>6 DEF Sound

LEMMA SoundPage ==
  ASSUME Sound, NEW k, NEW p, ScriptLoads(p) \/ ScriptFails(p) \/ Prompted(k)
  PROVE  Sound'
<1>1. page' \in [Pages -> Page] /\ \A q \in Pages : page'[q].held = page[q].held
  <2> page \in [Pages -> Page]
    BY DEF Sound, SdkTypeOK
  <2>1. CASE ScriptLoads(p)
    <3>1. [page EXCEPT ![p].script = "loaded"] \in [Pages -> Page]
      BY PageSet DEF Script
    <3> QED BY <2>1, <3>1 DEF ScriptLoads, Page
  <2>2. CASE ScriptFails(p)
    <3>1. [page EXCEPT ![p].script = "failed"] \in [Pages -> Page]
      BY PageSet DEF Script
    <3>2. [[page EXCEPT ![p].script = "failed"] EXCEPT ![p].loading = FALSE] \in [Pages -> Page]
      BY <3>1, PageSet DEF Script
    <3> QED BY <2>2, <3>2 DEF ScriptFails, Page
  <2>3. CASE Prompted(k)
    <3>1. PICK b \in {TRUE, FALSE} : page' = [page EXCEPT ![call[k].on].loading = b]
      BY <2>3 DEF Prompted
    <3>2. [page EXCEPT ![call[k].on].loading = b] \in [Pages -> Page]
      BY PageSet
    <3> QED BY <3>1, <3>2 DEF Page
  <2> QED BY <2>1, <2>2, <2>3
<1>2. /\ call' \in [Calls -> Call]
      /\ \A j \in Calls :
           \/ call'[j] = call[j] \/ call'[j] = Idle
           \/ \E l \in {"prompt", "sent"} :
                /\ call[j].pc \in {"script", "waits", "prompt"}
                /\ call'[j] = [call[j] EXCEPT !.pc = l]
  <2> Idle \in Call /\ call \in [Calls -> Call]
    BY DEF Sound, SdkTypeOK, Idle, Call, Kinds
  <2>0. \A c \in Call, l \in {"prompt", "sent"} : [c EXCEPT !.pc = l] \in Call
    BY DEF Call
  <2>1. CASE ScriptLoads(p)
    BY <2>0, <2>1 DEF ScriptLoads, Waiting
  <2>2. CASE ScriptFails(p)
    BY <2>2 DEF ScriptFails
  <2>3. CASE Prompted(k)
    <3>1. k \in Calls => [call[k] EXCEPT !.pc = "sent"] \in Call
      BY <2>0
    <3>2. call' = [call EXCEPT ![k] = Idle] \/ call' = [call EXCEPT ![k] = [@ EXCEPT !.pc = "sent"]]
      BY <2>3 DEF Prompted
    <3> QED BY <2>3, <3>1, <3>2 DEF Prompted
  <2> QED BY <2>1, <2>2, <2>3
<1>3. UNCHANGED <<row, saved, troubled, reused, ended>>
  BY DEF ScriptLoads, ScriptFails, Prompted, ghosts
<1>4. SdkTypeOK' /\ RowForm'
  BY <1>1, <1>2, <1>3 DEF Sound, SdkTypeOK, RowForm, Issued
<1>5. CallForm'
  <2>1. \A j \in Calls : Shape(call'[j])
    BY <1>2, SdkAssumption DEF Sound, SdkTypeOK, CallForm, Shape, Idle, Call
  <2>2. \A j \in Calls : \/ call'[j].sent = Nothing /\ call'[j].answer = Nothing
                         \/ call'[j].sent = call[j].sent /\ call'[j].answer = call[j].answer
    BY <1>2 DEF Sound, SdkTypeOK, Idle, Call
  <2> QED BY <1>3, <2>1, <2>2, SdkAssumption DEF Sound, CallForm, Issued
<1>6. Known'
  <2>1. \A j \in Calls : call'[j].sent \in {call[j].sent, Nothing} /\ call'[j].answer \in {call[j].answer, Nothing}
    BY <1>2 DEF Sound, SdkTypeOK, Idle, Call
  <2> QED BY <1>1, <1>3, <2>1, SdkAssumption DEF Sound, SdkTypeOK, Known, Issued
<1> QED BY <1>4, <1>5, <1>6 DEF Sound
(* A call that was sent is answered a. *)
LEMMA CallAnswered ==
  ASSUME Sound, NEW k \in Calls, call[k].pc = "sent",
         NEW a \in Tokens \union {"ok", "rejected", "network"}, Answered(k, a),
         IF call[k].kind = "logout" THEN a \notin Tokens ELSE a # "ok"
  PROVE  /\ call' \in [Calls -> Call] /\ \A j \in Calls : Shape(call'[j])
         /\ \A j \in Calls \ {k} : call'[j] = call[j]
         /\ \/ call'[k] = Idle /\ call[k].on = Nothing
            \/ /\ call'[k].sent = call[k].sent /\ call'[k].answer = a
               /\ call'[k].on = call[k].on /\ call[k].on \in Pages
<1> DEFINE c == [[call[k] EXCEPT !.pc = "answered"] EXCEPT !.answer = a]
<1>1. c \in Call /\ Idle \in Call
  BY DEF Sound, SdkTypeOK, Call, Idle, Kinds
<1>2. call' = [call EXCEPT ![k] = IF call[k].on = Nothing THEN Idle ELSE c]
  BY DEF Answered
<1>3. /\ c.pc = "answered" /\ c.answer = a /\ c.sent = call[k].sent
      /\ c.on = call[k].on /\ c.kind = call[k].kind
  BY DEF Sound, SdkTypeOK, Call
<1>4. call[k].on \in Pages \union {Nothing} /\ Shape(call[k]) /\ Shape(Idle)
  BY SdkAssumption DEF Sound, SdkTypeOK, Call, CallForm, Shape, Idle
<1>5. call[k].on # Nothing => Shape(c)
  BY <1>3, <1>4, SdkAssumption DEF Shape
<1> HIDE DEF c
<1>6. call' \in [Calls -> Call] /\ \A j \in Calls : Shape(call'[j])
  BY <1>1, <1>2, <1>4, <1>5 DEF Sound, SdkTypeOK, CallForm
<1> QED BY <1>2, <1>3, <1>4, <1>6 DEF Sound, SdkTypeOK

(* What was issued stays so, in its family. *)
Stay == \A t \in Tokens : Issued(t) => Issued(t)' /\ row'[t].family = row[t].family

LEMMA SoundAnswered ==
  ASSUME Sound, NEW k \in Calls, call[k].pc = "sent",
         NEW a \in Tokens \union {"ok", "rejected", "network"}, Answered(k, a),
         IF call[k].kind = "logout" THEN a \notin Tokens ELSE a # "ok",
         row' \in [Tokens -> Row], RowForm', Stay,
         a \in Tokens => /\ row'[a].state # "unissued"
                        /\ row'[a].family = IF call[k].sent = Nothing THEN a
                                            ELSE row'[call[k].sent].family,
         \A f \in (troubled' \ troubled) \union (reused' \ reused) :
            call[k].sent # Nothing /\ f = Family(call[k].sent),
         UNCHANGED <<saved, page, ended>>
  PROVE  Sound'
<1>1. call[k].sent # Nothing => call[k].sent \in Tokens /\ Issued(call[k].sent)
                              /\ Family(call[k].sent) \in Tokens /\ Issued(Family(call[k].sent))
  BY DEF Sound, SdkTypeOK, CallForm, Call, RowForm, Family
<1>2. SdkTypeOK'
  BY <1>1, CallAnswered DEF Sound, SdkTypeOK
<1>3. CallForm'
  <2>1. \A j \in Calls : j # k => call'[j] = call[j]
    BY CallAnswered
  <2>2. \A j \in Calls : Shape(call'[j])
    BY CallAnswered
  <2>3. \/ call'[k] = Idle
        \/ /\ call'[k].sent = call[k].sent /\ call'[k].answer = a
    BY CallAnswered
  <2>4. Idle.sent = Nothing /\ Idle.answer = Nothing
    BY DEF Idle
  <2>5. \A j \in Calls : call[j].sent \in Tokens \union {Nothing}
    BY DEF Sound, SdkTypeOK, Call
  <2> SUFFICES ASSUME NEW j \in Calls
               PROVE  /\ call'[j].sent # Nothing => row'[call'[j].sent].state # "unissued"
                      /\ call'[j].answer \in Tokens =>
                           /\ row'[call'[j].answer].state # "unissued"
                           /\ row'[call'[j].answer].family = IF call'[j].sent = Nothing
                                THEN call'[j].answer ELSE row'[call'[j].sent].family
    BY <2>2 DEF CallForm, Issued
  <2>6. CASE j = k
    BY <1>1, <2>3, <2>4, <2>6, SdkAssumption DEF Stay, Issued
  <2>7. CASE j # k
    BY <2>1, <2>5, <2>7, SdkAssumption DEF Sound, CallForm, Stay, Issued
  <2> QED BY <2>6, <2>7
<1>4. Known'
  <2>1. \A p \in Pages : page[p].held \in Tokens \union {Nothing}
    BY DEF Sound, SdkTypeOK, Page
  <2>2. \A f \in troubled' \union reused' \union ended' : f \in Tokens /\ Issued(f)
    BY <1>1 DEF Sound, SdkTypeOK, Known
  <2> QED BY <2>1, <2>2 DEF Sound, SdkTypeOK, Known, Stay, Issued
<1> QED BY <1>2, <1>3, <1>4 DEF Sound
(* The three things the server does to its rows. *)
Alike(t) == row'[t].state = row[t].state /\ row'[t].family = row[t].family

LEMMA RowsKilled ==
  ASSUME Sound, NEW f \in Tokens, row' = Killed(f)
  PROVE  /\ row' \in [Tokens -> Row] /\ RowForm' /\ Stay
         /\ \A t \in Tokens :
              \/ Alike(t) /\ ~(row[t].family = f /\ row[t].state = "live")
              \/ /\ row[t].family = f /\ row'[t].family = f
                 /\ row[t].state = "live" /\ row'[t].state = "revoked"
<1>1. \A t \in Tokens : row'[t] = IF row[t].family = f /\ row[t].state = "live"
                                   THEN [row[t] EXCEPT !.state = "revoked"] ELSE row[t]
  BY DEF Killed
<1>2. \A t \in Tokens : row[t] \in Row /\ [row[t] EXCEPT !.state = "revoked"] \in Row
  BY DEF Sound, SdkTypeOK, Row
<1>3. row' \in [Tokens -> Row]
  BY <1>1, <1>2 DEF Killed
<1>4. \A t \in Tokens :
              \/ Alike(t) /\ ~(row[t].family = f /\ row[t].state = "live")
              \/ /\ row[t].family = f /\ row'[t].family = f
                 /\ row[t].state = "live" /\ row'[t].state = "revoked"
  BY <1>1, <1>2 DEF Alike, Row
<1>5. RowForm' /\ Stay
  BY <1>4 DEF Sound, RowForm, Stay, Issued, Alike
<1> QED BY <1>3, <1>4, <1>5

LEMMA RowsOpened ==
  ASSUME Sound, Unissued # {}, row' = [row EXCEPT ![Fresh] = [state |-> "live", family |-> Fresh]]
  PROVE  /\ row' \in [Tokens -> Row] /\ RowForm' /\ Stay
         /\ \A t \in Tokens \ {Fresh} : Alike(t)
         /\ row'[Fresh].state = "live" /\ row'[Fresh].family = Fresh
<1>1. Fresh \in Tokens /\ row[Fresh].state = "unissued"
  BY FreshIsNew
<1>2. [state |-> "live", family |-> Fresh] \in Row
  BY <1>1 DEF Row
<1>3. row' \in [Tokens -> Row]
  BY <1>2 DEF Sound, SdkTypeOK
<1>4. \A t \in Tokens \ {Fresh} : Alike(t)
  BY DEF Sound, SdkTypeOK, Alike
<1>5. row'[Fresh].state = "live" /\ row'[Fresh].family = Fresh
  BY <1>1 DEF Sound, SdkTypeOK
<1>6. RowForm' /\ Stay
  BY <1>1, <1>4, <1>5 DEF Sound, RowForm, Stay, Issued, Alike
<1> QED BY <1>3, <1>4, <1>5, <1>6

LEMMA RowsRotated ==
  ASSUME Sound, Unissued # {}, NEW t \in Tokens, row[t].state = "live",
         row' = [row EXCEPT ![t].state = "rotated",
                            ![Fresh] = [state |-> "live", family |-> Family(t)]]
  PROVE  /\ row' \in [Tokens -> Row] /\ RowForm' /\ Stay
         /\ \A u \in Tokens \ {t, Fresh} : Alike(u)
         /\ row'[t].state = "rotated" /\ row'[t].family = row[t].family
         /\ row'[Fresh].state = "live" /\ row'[Fresh].family = row[t].family
<1>1. Fresh \in Tokens /\ row[Fresh].state = "unissued" /\ Fresh # t
  BY FreshIsNew
<1>2. row[t].family \in Tokens /\ row[row[t].family].state # "unissued"
  BY DEF Sound, RowForm, Issued
<1>3. [state |-> "live", family |-> Family(t)] \in Row /\ [row[t] EXCEPT !.state = "rotated"] \in Row
  BY <1>2 DEF Sound, SdkTypeOK, Row, Family
<1>4. row' = [[row EXCEPT ![t] = [row[t] EXCEPT !.state = "rotated"]]
                EXCEPT ![Fresh] = [state |-> "live", family |-> Family(t)]]
  BY DEF Sound, SdkTypeOK
<1>5. row' \in [Tokens -> Row]
  BY <1>3, <1>4 DEF Sound, SdkTypeOK
<1>6. \A u \in Tokens \ {t, Fresh} : Alike(u)
  BY <1>4 DEF Sound, SdkTypeOK, Alike
<1>7. /\ row'[t].state = "rotated" /\ row'[t].family = row[t].family
      /\ row'[Fresh].state = "live" /\ row'[Fresh].family = row[t].family
  BY <1>1, <1>4 DEF Sound, SdkTypeOK, Row, Family
<1>8. Stay
  BY <1>1, <1>6, <1>7 DEF Stay, Issued, Alike
<1>9. RowForm'
  <2>1. \A f \in Tokens : Issued(f) => Issued(f)'
    BY <1>8 DEF Stay
  <2> SUFFICES ASSUME NEW u \in Tokens
               PROVE  IF Issued(u)' THEN row'[u].family \in Tokens /\ Issued(row[u].family)'
                      ELSE row'[u].family = Nothing
    BY DEF RowForm, Issued
  <2>2. CASE u \in {t, Fresh}
    BY <1>2, <1>7, <1>8, <2>2 DEF Stay, Issued
  <2>3. CASE u \notin {t, Fresh}
    BY <1>6, <1>8, <2>3, ZenonT(40) DEF Sound, RowForm, Stay, Issued, Alike
  <2> QED BY <2>2, <2>3
<1> QED BY <1>5, <1>6, <1>7, <1>8, <1>9

LEMMA SoundServe ==
  ASSUME Sound, NEW k \in Calls,
         Serve(k)
  PROVE  Sound'
<1> DEFINE t == call[k].sent
<1>1. call[k].pc = "sent"
  BY DEF Serve, ServeLogin, ServeRefresh, ServeLogout, LoseRequest, Refuse
<1>2. UNCHANGED row => row' \in [Tokens -> Row] /\ RowForm' /\ Stay
  BY DEF Sound, SdkTypeOK, RowForm, Stay, Issued
<1>3. ASSUME NEW a, Replies(k, a)
      PROVE  \E b \in {a, "rejected", "network"} :
               /\ Answered(k, b)
               /\ \A f \in troubled' \ troubled : t # Nothing /\ f = Family(t)
  BY <1>3 DEF Replies
<1>4. CASE ServeLogin(k)
  <2>1. call[k].sent = Nothing /\ call[k].kind = "login"
    BY <1>4 DEF ServeLogin, Sound, CallForm, Shape
  <2>2. Unissued # {} /\ row' = [row EXCEPT ![Fresh] = [state |-> "live", family |-> Fresh]]
        /\ Replies(k, Fresh)
    BY <1>4 DEF ServeLogin
  <2>3. PICK b \in {Fresh, "rejected", "network"} :
             /\ Answered(k, b)
             /\ \A f \in troubled' \ troubled : t # Nothing /\ f = Family(t)
    BY <1>3, <2>2
  <2>4. Fresh \in Tokens
    BY <2>2, FreshIsNew
  <2> QED BY <1>1, <1>4, <2>1, <2>2, <2>3, <2>4, RowsOpened, SoundAnswered, SdkAssumption
         DEF ServeLogin
<1>5. CASE ServeRefresh(k)
  <2>1. /\ t \in Tokens /\ call[k].kind # "logout" /\ t # Nothing
        /\ row[t].state # "unissued" /\ row[t] \in Row /\ row[t].family \in Tokens
    BY <1>5, SdkAssumption DEF ServeRefresh, Sound, CallForm, Shape, Issued, SdkTypeOK, RowForm
  <2>2. CASE row[t].state = "live"
    <3>1. /\ Unissued # {} /\ Replies(k, Fresh) /\ UNCHANGED reused
          /\ row' = [row EXCEPT ![t].state = "rotated",
                                ![Fresh] = [state |-> "live", family |-> Family(t)]]
      BY <1>5, <2>2 DEF ServeRefresh, Rotated
    <3>2. PICK b \in {Fresh, "rejected", "network"} :
               /\ Answered(k, b)
               /\ \A f \in troubled' \ troubled : t # Nothing /\ f = Family(t)
      BY <1>3, <3>1
    <3>3. Fresh \in Tokens
      BY <3>1, FreshIsNew
    <3>4. /\ row' \in [Tokens -> Row] /\ RowForm' /\ Stay
          /\ row'[t].family = row[t].family
          /\ row'[Fresh].state = "live" /\ row'[Fresh].family = row[t].family
      BY <2>1, <2>2, <3>1, RowsRotated
    <3> HIDE DEF t
    <3> QED BY <1>1, <1>5, <2>1, <3>1, <3>2, <3>3, <3>4, SoundAnswered, SdkAssumption
           DEF ServeRefresh, t
  <2>3. CASE row[t].state = "rotated"
    <3>1. /\ Replies(k, "rejected") /\ reused' = reused \union {Family(t)}
          /\ row' = Killed(Family(t))
      BY <1>5, <2>3 DEF ServeRefresh
    <3>2. PICK b \in {"rejected", "network"} :
               /\ Answered(k, b)
               /\ \A f \in troubled' \ troubled : t # Nothing /\ f = Family(t)
      BY <1>3, <3>1
    <3>3. row' \in [Tokens -> Row] /\ RowForm' /\ Stay
      BY <2>1, <3>1, RowsKilled DEF Family
    <3> QED BY <1>1, <1>5, <2>1, <3>1, <3>2, <3>3, SoundAnswered, SdkAssumption DEF ServeRefresh
  <2>4. CASE row[t].state = "revoked"
    <3>1. Replies(k, "rejected") /\ UNCHANGED <<row, reused>>
      BY <1>5, <2>4 DEF ServeRefresh
    <3>2. PICK b \in {"rejected", "network"} :
               /\ Answered(k, b)
               /\ \A f \in troubled' \ troubled : t # Nothing /\ f = Family(t)
      BY <1>3, <3>1
    <3> QED BY <1>1, <1>2, <1>5, <2>1, <3>1, <3>2, SoundAnswered, SdkAssumption DEF ServeRefresh
  <2> QED BY <2>1, <2>2, <2>3, <2>4 DEF Row
<1>6. CASE ServeLogout(k)
  <2>1. /\ t \in Tokens /\ call[k].kind = "logout" /\ row[t].family \in Tokens
    BY <1>6, SdkAssumption DEF ServeLogout, Sound, CallForm, Shape, Issued, RowForm
  <2>2. PICK b \in {"ok", "rejected", "network"} :
               /\ Answered(k, b)
               /\ \A f \in troubled' \ troubled : t # Nothing /\ f = Family(t)
    BY <1>3, <1>6 DEF ServeLogout
  <2>3. row' \in [Tokens -> Row] /\ RowForm' /\ Stay
    BY <1>2, <1>6, <2>1, RowsKilled DEF Family, ServeLogout
  <2> QED BY <1>1, <1>6, <2>1, <2>2, <2>3, SoundAnswered, SdkAssumption DEF ServeLogout
<1>7. CASE LoseRequest(k) \/ Refuse(k)
  BY <1>1, <1>2, <1>7, SoundAnswered, SdkAssumption DEF LoseRequest, Refuse, ghosts
<1> QED BY <1>4, <1>5, <1>6, <1>7 DEF Serve

LEMMA SoundDeliver ==
  ASSUME Sound, NEW k \in Calls, Deliver(k)
  PROVE  Sound'
<1>1. /\ call[k].pc = "answered" /\ call[k].on \in Pages
      /\ call[k].answer \in Tokens => Issued(call[k].answer)
      /\ call' = [call EXCEPT ![k] = Idle]
  BY DEF Deliver, DeliverTokens, DeliverFailure, DeliverLogout, Sound, CallForm, Shape
<1>2. UNCHANGED <<row, reused>>
  BY DEF Deliver, DeliverTokens, DeliverFailure, DeliverLogout, ghosts
<1>3. call' \in [Calls -> Call] /\ CallForm' /\ RowForm'
  BY <1>1, <1>2, SdkAssumption DEF Sound, SdkTypeOK, Idle, Call, Kinds, CallForm, RowForm,
     Shape, Issued
<1>4. page' \in [Pages -> Page]
  <2>0. page \in [Pages -> Page]
    BY DEF Sound, SdkTypeOK
  <2>1. CASE DeliverTokens(k)
    <3> DEFINE p == call[k].on  n == call[k].answer
    <3>1. [page EXCEPT ![p].held = n] \in [Pages -> Page]
      BY <2>0, <2>1, PageSet DEF DeliverTokens
    <3>2. Stored(p, n) \in [Pages -> Page]
      BY <3>1, PageSet DEF Stored
    <3>3. Stored(p, n)[p].loading \in {TRUE, FALSE}
      BY <1>1, <3>2 DEF Page
    <3>4. \A b \in {TRUE, FALSE} : [Stored(p, n) EXCEPT ![p].loading = b] \in [Pages -> Page]
      BY <3>2, PageSet
    <3>5. page' = [Stored(p, n) EXCEPT ![p].loading =
                     IF call[k].kind = "refresh" THEN Stored(p, n)[p].loading ELSE FALSE]
      BY <2>1 DEF DeliverTokens
    <3> QED BY <3>3, <3>4, <3>5
  <2>2. CASE DeliverFailure(k)
    <3> DEFINE p == call[k].on
               h == IF call[k].kind = "refresh" /\ call[k].answer = "rejected" THEN Nothing
                    ELSE page[p].held
               b == IF call[k].kind = "refresh" THEN page[p].loading ELSE FALSE
    <3>1. h \in Tokens \union {Nothing} /\ b \in {TRUE, FALSE}
      BY <1>1, <2>0 DEF Page
    <3>2. [page EXCEPT ![p].held = h] \in [Pages -> Page]
      BY <2>0, <3>1, PageSet
    <3>3. [[page EXCEPT ![p].held = h] EXCEPT ![p].loading = b] \in [Pages -> Page]
      BY <3>1, <3>2, PageSet
    <3>4. page' = [[page EXCEPT ![p].held = h] EXCEPT ![p].loading = b]
      BY <2>0, <2>2 DEF DeliverFailure, Page
    <3> QED BY <3>3, <3>4
  <2>3. CASE DeliverLogout(k)
    <3> DEFINE p == call[k].on
    <3>1. [page EXCEPT ![p].held = Nothing] \in [Pages -> Page]
      BY <2>0, PageSet
    <3>2. [[page EXCEPT ![p].held = Nothing] EXCEPT ![p].timer = FALSE] \in [Pages -> Page]
      BY <3>1, PageSet
    <3>3. (On(p) \ {k} = {}) \in {TRUE, FALSE}
      OBVIOUS
    <3> QED BY <2>3, <3>2, <3>3, PageSet DEF DeliverLogout, SignedOut
  <2> QED BY <2>1, <2>2, <2>3 DEF Deliver
<1>5. /\ \A p \in Pages : page'[p].held \in {page[p].held, Nothing} \union ({call[k].answer} \cap Tokens)
      /\ saved' \in {saved, Nothing} \union ({call[k].answer} \cap Tokens)
  BY DEF Deliver, DeliverTokens, DeliverFailure, DeliverLogout, Sound, SdkTypeOK, Page, Stored,
     SignedOut
<1>6. /\ \A f \in troubled' \ troubled : call[k].answer \in Tokens /\ f = Family(call[k].answer)
      /\ \A f \in ended' \ ended : call[k].sent \in Tokens /\ f = Family(call[k].sent)
  BY SdkAssumption DEF Deliver, DeliverTokens, DeliverFailure, DeliverLogout, ghosts, Sound,
     CallForm, Shape
<1>7. \A f \in troubled' \union reused' \union ended' : f \in Tokens /\ Issued(f)
  BY <1>1, <1>2, <1>6, SdkAssumption DEF Sound, SdkTypeOK, Known, CallForm, RowForm, Family
<1>8. SdkTypeOK'
  BY <1>2, <1>3, <1>4, <1>5, <1>7 DEF Sound, SdkTypeOK
<1>9. Known'
  <2>1. Issued(Nothing)' = Issued(Nothing)'
    OBVIOUS
  <2> QED BY <1>1, <1>2, <1>5, <1>7 DEF Sound, Known, Issued
<1> QED BY <1>3, <1>8, <1>9 DEF Sound

(* A logout without a session stays on the page. *)
LEMMA SoundClear ==
  ASSUME Sound, NEW k \in Calls, NEW p \in Pages, page' = SignedOut(k, p), saved' = Nothing,
         UNCHANGED <<row, call, ghosts>>
  PROVE  Sound'
<1>1. page' \in [Pages -> Page]
  <2>0. page \in [Pages -> Page]
    BY DEF Sound, SdkTypeOK
  <2>1. [page EXCEPT ![p].held = Nothing] \in [Pages -> Page]
    BY <2>0, PageSet
  <2>2. [[page EXCEPT ![p].held = Nothing] EXCEPT ![p].timer = FALSE] \in [Pages -> Page]
    BY <2>1, PageSet
  <2>3. (On(p) \ {k} = {}) \in {TRUE, FALSE}
    OBVIOUS
  <2> QED BY <2>2, <2>3, PageSet DEF SignedOut
<1>2. \A q \in Pages : page'[q].held \in {page[q].held, Nothing}
  BY DEF SignedOut, Sound, SdkTypeOK, Page
<1> QED BY <1>1, <1>2 DEF Sound, SdkTypeOK, RowForm, CallForm, Known, Issued, ghosts

LEMMA SoundStep ==
  ASSUME Sound, [SdkNext]_sdkVars
  PROVE  Sound'
<1>1. CASE UNCHANGED sdkVars
  BY <1>1 DEF sdkVars, Sound, SdkTypeOK, RowForm, CallForm, Known, Issued
<1>2. ASSUME NEW k \in Calls, NEW p \in Pages,
             TimerFires(k, p) \/ Unauthorized(k, p) \/ Logout(k, p)
      PROVE  Sound'
  <2>1. CASE page[p].held # Nothing
    BY <1>2, <2>1, SoundSend DEF TimerFires, Unauthorized, Logout, SilentRefresh
  <2>2. CASE page[p].held = Nothing /\ Logout(k, p)
    BY <2>2, SoundClear DEF Logout
  <2>3. CASE page[p].held = Nothing /\ TimerFires(k, p)
    <3>1. page' = [page EXCEPT ![p].timer = FALSE] /\ UNCHANGED <<row, saved, call, ghosts>>
      BY <2>3 DEF TimerFires
    <3>2. page' \in [Pages -> Page] /\ \A q \in Pages : page'[q].held = page[q].held
      <4>1. page \in [Pages -> Page]
        BY DEF Sound, SdkTypeOK
      <4>2. [page EXCEPT ![p].timer = FALSE] \in [Pages -> Page]
        BY <4>1, PageSet
      <4> QED BY <3>1, <4>1, <4>2 DEF Page
    <3> QED BY <3>1, <3>2 DEF Sound, SdkTypeOK, RowForm, CallForm, Known, Issued, ghosts
  <2> QED BY <1>2, <2>1, <2>2, <2>3 DEF Unauthorized
<1>3. ASSUME NEW k \in Calls, NEW p \in Pages, Load(k, p) \/ BeginLogin(k, p)
      PROVE  Sound'
  BY <1>3, SoundLoad, SoundLogin
<1>4. ASSUME NEW p \in Pages, ScriptLoads(p) \/ ScriptFails(p) PROVE Sound'
  BY <1>4, SoundPage
<1>5. ASSUME NEW k \in Calls, Prompted(k) PROVE Sound'
  BY <1>5, SoundPage
<1>6. ASSUME NEW k \in Calls, Serve(k) \/ Deliver(k) PROVE Sound'
  BY <1>6, SoundServe, SoundDeliver
<1> QED BY <1>1, <1>2, <1>3, <1>4, <1>5, <1>6 DEF SdkNext

-----------------------------------------------------------------------------
(* One family *)

(* Who has a token of family f: of the pages at most one, the session      *)
(* store the same token, of the requests at most one, that this page sent, *)
(* or a login that nobody has heard the answer of.                         *)
Alone(f) ==
  /\ \A p, q \in Pages : In(page[p].held, f) /\ In(page[q].held, f) => p = q
  /\ \A p \in Pages : In(page[p].held, f) /\ In(saved, f) => page[p].held = saved
  /\ \A k \in Calls : In(call[k].sent, f) =>
       /\ call[k].on \in Pages
       /\ \A j \in Calls : In(call[j].sent, f) => j = k
       /\ \A p \in Pages : In(page[p].held, f) => p = call[k].on /\ page[p].held = call[k].sent
       /\ In(saved, f) => saved = call[k].sent
  /\ \A k \in Calls : call[k].sent = Nothing /\ In(call[k].answer, f) =>
       /\ \A j \in Calls : ~In(call[j].sent, f) /\ (In(call[j].answer, f) => j = k)
       /\ \A p \in Pages : ~In(page[p].held, f)
       /\ ~In(saved, f)

(* A token somebody has is not rotated, or its successor is on its way.    *)
Usable(t) == row[t].state # "rotated"
Renewed(t) == \E k \in Calls : call[k].sent = t /\ call[k].answer \in Tokens

Good(f) ==
  /\ \A p \in Pages : In(page[p].held, f) => Usable(page[p].held) \/ Renewed(page[p].held)
  /\ In(saved, f) => Usable(saved) \/ Renewed(saved)
  /\ \A k \in Calls : In(call[k].sent, f) => Usable(call[k].sent) \/ call[k].answer \in Tokens
  /\ \A k \in Calls : In(call[k].answer, f) => Usable(call[k].answer)

(* Of a family that was logged out nobody has anything. *)
NoLive(f) == \A t \in Tokens : row[t].family = f => row[t].state # "live"

Gone(f) ==
  /\ NoLive(f) /\ ~In(saved, f)
  /\ \A p \in Pages : ~In(page[p].held, f)
  /\ \A k \in Calls : ~In(call[k].sent, f) /\ ~In(call[k].answer, f)

Over(f) ==
  /\ \A k \in Calls : In(call[k].sent, f) /\ call[k].answer = "ok" => NoLive(f)
  /\ f \in ended => Gone(f)

Fam(f) == Alone(f) /\ Good(f) /\ Over(f)

(* A step that brings nobody anything of the family, and of it loses no    *)
(* token on its way.                                                       *)
RowsFor(f) == \A t \in Tokens :
  /\ row'[t].family = f <=> row[t].family = f
  /\ row[t].family = f =>
       /\ row'[t].state = "rotated" <=> row[t].state = "rotated"
       /\ row'[t].state = "live" => row[t].state = "live"

HandsFor(f) ==
  /\ \A p \in Pages : page'[p].held = page[p].held \/ ~In(page[p].held, f)'
  /\ saved' = saved \/ ~In(saved, f)'

CallFor(j, f) ==
  \/ /\ call'[j].sent = call[j].sent /\ call'[j].answer = call[j].answer
     /\ call'[j].on = call[j].on \/ ~In(call[j].sent, f)
  \/ /\ ~In(call[j].sent, f)' /\ ~In(call[j].answer, f)'
     /\ ~(In(call[j].sent, f) /\ call[j].answer \in Tokens)
  \/ /\ In(call[j].sent, f) /\ call'[j].sent = call[j].sent /\ call'[j].on = call[j].on
     /\ call[j].answer \notin Tokens /\ call'[j].answer \notin Tokens
     /\ call'[j].answer = "ok" => NoLive(f)'

LEMMA GoneStays ==
  ASSUME NEW f \in Tokens, Gone(f), RowsFor(f), HandsFor(f), \A j \in Calls : CallFor(j, f)
  PROVE  Gone(f)'
<1>1. \A x : In(x, f)' <=> In(x, f)
  BY DEF In, RowsFor
<1>2. NoLive(f)'
  BY DEF RowsFor, NoLive, Gone
<1>3. ~In(saved, f)' /\ \A p \in Pages : ~In(page[p].held, f)'
  BY <1>1 DEF HandsFor, Gone, In
<1>4. \A j \in Calls : ~In(call[j].sent, f)' /\ ~In(call[j].answer, f)'
  BY <1>1 DEF CallFor, Gone, In
<1> QED BY <1>2, <1>3, <1>4 DEF Gone

LEMMA FamStays ==
  ASSUME NEW f \in Tokens, Fam(f), RowsFor(f), HandsFor(f),
         \A j \in Calls : CallFor(j, f), f \in ended' => f \in ended
  PROVE  Fam(f)'
<1>1. \A x : In(x, f)' <=> In(x, f)
  BY DEF In, RowsFor
<1>2. \A x : In(x, f) => (Usable(x)' <=> Usable(x))
  BY DEF In, RowsFor, Usable
<1>3. NoLive(f) => NoLive(f)'
  BY DEF RowsFor, NoLive
<1>4. \A p \in Pages : In(page[p].held, f)' => page'[p].held = page[p].held /\ In(page[p].held, f)
  BY DEF HandsFor, In, RowsFor
<1>5. In(saved, f)' => saved' = saved /\ In(saved, f)
  BY DEF HandsFor, In, RowsFor
<1>6. \A j \in Calls : In(call[j].sent, f)' =>
        In(call[j].sent, f) /\ call'[j].sent = call[j].sent /\ call'[j].on = call[j].on
  BY DEF CallFor, In, RowsFor
<1>7. \A j \in Calls : In(call[j].answer, f)' =>
        In(call[j].answer, f) /\ call'[j].answer = call[j].answer /\ call'[j].sent = call[j].sent
  BY DEF CallFor, In, RowsFor
<1>8. \A t : In(t, f) /\ Renewed(t) => Renewed(t)'
  BY DEF CallFor, Renewed
<1>9. \A j \in Calls : In(call[j].sent, f) /\ call'[j].sent = call[j].sent /\ call[j].answer \in Tokens
        => call'[j].answer \in Tokens
  BY <1>1 DEF CallFor, In
<1>10. \A j \in Calls : In(call[j].sent, f)' /\ call'[j].answer = "ok" => NoLive(f)'
  BY <1>3, <1>6 DEF CallFor, Fam, Over, Gone, In
<1>11. Alone(f)'
  <2> Alone(f)
    BY DEF Fam
  <2> QED BY <1>4, <1>5, <1>6, <1>7 DEF Alone
<1>12. Good(f)'
  <2> Good(f)
    BY DEF Fam
  <2> QED BY <1>1, <1>2, <1>4, <1>5, <1>6, <1>7, <1>8, <1>9 DEF Good
<1>13. Over(f)'
  <2> Over(f)
    BY DEF Fam
  <2> QED BY <1>3, <1>4, <1>5, <1>6, <1>7, <1>10 DEF Over, Gone
<1> QED BY <1>11, <1>12, <1>13 DEF Fam

(* A request starts with the page's token, or with the saved one. *)
LEMMA FamSent ==
  ASSUME Sound, NEW k \in Calls, NEW p \in Pages, NEW t \in Tokens,
         Fam(Family(t)), ~Shares(p, t), UNCHANGED <<row, saved, ended>>,
         page[p].held = t \/ saved = t,
         page'[p].held \in {t, Nothing}, \A q \in Pages \ {p} : page'[q].held = page[q].held,
         page'[p].held = Nothing => saved = t,
         call'[k].sent = t, call'[k].on = p, call'[k].answer = Nothing,
         \A j \in Calls \ {k} : /\ call'[j].sent \in {call[j].sent, Nothing}
                               /\ call'[j].answer \in {call[j].answer, Nothing}
  PROVE  Fam(Family(t))'
<1> DEFINE f == Family(t)
<1>1. In(t, f) /\ f \in Tokens
  <2>1. Issued(t)
    BY SdkAssumption DEF Sound, Known
  <2> QED BY <2>1 DEF In, Family, Sound, RowForm
<1>2. f' = f /\ \A x : In(x, f)' <=> In(x, f)
  BY DEF In, Family
<1>3. \A q \in Pages \ {p} : ~In(page[q].held, f)
  BY SdkAssumption DEF Shares, In, Family
<1>4. \A j \in Calls : ~In(call[j].sent, f)
  BY SdkAssumption DEF Shares, In, Family
<1>5. In(page[p].held, f) \/ In(saved, f)
  BY <1>1
<1>6. \A j \in Calls : ~In(call[j].answer, f)
  <2> SUFFICES ASSUME NEW j \in Calls, In(call[j].answer, f) PROVE FALSE
    OBVIOUS
  <2>1. call[j].sent # Nothing => In(call[j].sent, f)
    BY <1>1 DEF Sound, CallForm, SdkTypeOK, Call, In
  <2> QED BY <1>4, <1>5, <2>1 DEF Fam, Alone
<1> HIDE DEF f
<1>7. \A q \in Pages : In(page[q].held, f)' => q = p /\ page'[q].held = t
  BY <1>2, <1>3, SdkAssumption DEF In
<1>8. In(saved, f)' => saved' = t
  <2>1. page[p].held = t /\ In(saved, f) => saved = t
    BY <1>1 DEF Fam, Alone, f
  <2> QED BY <1>2, <2>1
<1>9. \A j \in Calls : /\ In(call[j].sent, f)' => j = k
                       /\ ~In(call[j].answer, f)'
  BY <1>2, <1>4, <1>6, SdkAssumption DEF In
<1>10. Usable(t)' /\ f \notin ended'
  <2>1. ~Renewed(t)
    BY <1>1, <1>4 DEF Renewed
  <2>2. Usable(t)' <=> Usable(t)
    BY DEF Usable
  <2> QED BY <1>1, <2>1, <2>2 DEF Fam, Good, Over, Gone, f
<1>11. Alone(f)'
  BY <1>7, <1>8, <1>9 DEF Alone
<1>12. Good(f)'
  BY <1>7, <1>8, <1>9, <1>10 DEF Good
<1>13. Over(f)'
  BY <1>2, <1>9, <1>10, SdkAssumption DEF Over, Gone
<1> QED BY <1>2, <1>11, <1>12, <1>13 DEF Fam, f

(* A request is answered with the successor of its token. *)
LEMMA FamRotated ==
  ASSUME Sound, NEW k \in Calls, NEW t \in Tokens, NEW n \in Tokens, Fam(Family(t)),
         t = call[k].sent, call[k].answer = Nothing,
         row[n].state = "unissued", row'[n].state = "live", row'[n].family = Family(t),
         row'[t].family = row[t].family, \A u \in Tokens \ {t, n} : Alike(u),
         UNCHANGED <<page, saved, ended>>,
         call'[k].sent = t, call'[k].answer = n, call'[k].on = call[k].on,
         \A j \in Calls \ {k} : call'[j] = call[j]
  PROVE  Fam(Family(t))'
<1> DEFINE f == Family(t)
<1>1. In(t, f) /\ f \in Tokens /\ ~Issued(n) /\ Issued(t) /\ t # Nothing /\ n # t
  <2>1. Issued(t)
    BY SdkAssumption DEF Sound, CallForm
  <2> QED BY <2>1, SdkAssumption DEF In, Family, Sound, RowForm, Issued
<1>2. f' = f /\ \A x : In(x, f)' <=> In(x, f) \/ x = n
  <2>1. ~In(n, f)
    BY <1>1, SdkAssumption DEF In, Sound, RowForm
  <2> QED BY <1>1, <2>1 DEF In, Family, Alike
<1> HIDE DEF f
<1>3. \A q \in Pages : page[q].held # n
  BY <1>1, SdkAssumption DEF Sound, Known
<1>4. saved # n
  BY <1>1, SdkAssumption DEF Sound, Known
<1>5. \A j \in Calls : call[j].sent # n /\ call[j].answer # n
  BY <1>1, SdkAssumption DEF Sound, CallForm
<1>6. Fam(f)
  BY DEF f
<1>7. \A q \in Pages : In(page[q].held, f)' => q = call[k].on /\ page'[q].held = t /\ In(page[q].held, f)
  BY <1>1, <1>2, <1>3, <1>6 DEF Fam, Alone
<1>8. In(saved, f)' => saved' = t
  BY <1>1, <1>2, <1>4, <1>6 DEF Fam, Alone
<1>9. call[k].on \in Pages /\ \A j \in Calls : In(call[j].sent, f)' => j = k
  BY <1>1, <1>2, <1>5, <1>6 DEF Fam, Alone
<1>10. \A j \in Calls : In(call[j].answer, f)' => j = k
  <2> SUFFICES ASSUME NEW j \in Calls, j # k, In(call[j].answer, f) PROVE FALSE
    BY <1>2, <1>5
  <2>1. call[j].sent # Nothing => In(call[j].sent, f)
    BY <1>1 DEF Sound, CallForm, SdkTypeOK, Call, In
  <2> QED BY <1>1, <1>6, <2>1 DEF Fam, Alone
<1>11. Renewed(t)' /\ Usable(n)' /\ n # "ok"
  BY SdkAssumption DEF Renewed, Usable
<1>12. f \notin ended'
  BY <1>1, <1>6 DEF Fam, Over, Gone
<1>13. Alone(f)'
  BY <1>1, <1>7, <1>8, <1>9, <1>10 DEF Alone
<1>14. Good(f)'
  BY <1>7, <1>8, <1>9, <1>10, <1>11 DEF Good
<1>15. Over(f)'
  BY <1>2, <1>9, <1>11, <1>12 DEF Over, Gone
<1> QED BY <1>2, <1>13, <1>14, <1>15 DEF Fam, f

(* A login is answered with the first token of a new family. *)
LEMMA FamOpened ==
  ASSUME Sound, NEW k \in Calls, NEW n \in Tokens, call[k].sent = Nothing,
         row[n].state = "unissued", row'[n].state = "live", row'[n].family = n,
         \A u \in Tokens \ {n} : Alike(u),
         UNCHANGED <<page, saved, ended>>,
         call'[k].sent = Nothing,
         \A j \in Calls \ {k} : call'[j] = call[j]
  PROVE  Fam(n)'
<1>1. ~Issued(n) /\ n # Nothing
  BY SdkAssumption DEF Issued
<1>2. \A x : In(x, n)' <=> x = n
  BY <1>1 DEF In, Sound, RowForm, Alike
<1>3. saved # n /\ n \notin ended /\ \A q \in Pages : page[q].held # n
  BY <1>1, SdkAssumption DEF Sound, Known
<1>4. \A j \in Calls : call[j].sent # n /\ call[j].answer # n
  BY <1>1, SdkAssumption DEF Sound, CallForm
<1>5. \A j \in Calls : call'[j].sent # n /\ (call'[j].answer = n => j = k)
  BY <1>1, <1>4
<1>6. Alone(n)'
  BY <1>2, <1>3, <1>5 DEF Alone
<1>7. Usable(n)'
  BY DEF Usable
<1>8. Good(n)'
  BY <1>2, <1>3, <1>5, <1>7 DEF Good
<1>9. Over(n)'
  BY <1>2, <1>3, <1>5 DEF Over, Gone
<1> QED BY <1>6, <1>8, <1>9 DEF Fam

(* Tokens reach their page, which no other page shares the family with. *)
LEMMA FamDelivered ==
  ASSUME Sound, NEW k \in Calls, NEW p \in Pages, NEW n \in Tokens, Fam(Family(n)),
         n = call[k].answer, UNCHANGED <<row, ended>>,
         \A q \in Pages \ {p} : page[q].held # Nothing => Family(page[q].held) # Family(n),
         page'[p].held = n, \A q \in Pages \ {p} : page'[q].held = page[q].held,
         saved' = n, call' = [call EXCEPT ![k] = Idle]
  PROVE  Fam(Family(n))'
<1> DEFINE f == Family(n)
<1>1. In(n, f) /\ f \in Tokens /\ n # Nothing
  <2>1. Issued(n)
    BY SdkAssumption DEF Sound, CallForm
  <2> QED BY <2>1, SdkAssumption DEF In, Family, Sound, RowForm
<1>2. f' = f /\ \A x : In(x, f)' <=> In(x, f)
  BY DEF In, Family
<1>3. \A q \in Pages \ {p} : ~In(page[q].held, f)
  BY SdkAssumption DEF In, Family
<1> HIDE DEF f
<1>4. Fam(f)
  BY DEF f
<1>5. call[k].sent # Nothing => In(call[k].sent, f)
  BY <1>1 DEF Sound, CallForm, SdkTypeOK, Call, In, f, Family
<1>6. \A j \in Calls \ {k} : ~In(call[j].sent, f)
  BY <1>1, <1>4, <1>5 DEF Fam, Alone
<1>7. \A j \in Calls \ {k} : ~In(call[j].answer, f)
  <2> SUFFICES ASSUME NEW j \in Calls \ {k}, In(call[j].answer, f) PROVE FALSE
    OBVIOUS
  <2>1. call[j].sent # Nothing => In(call[j].sent, f)
    BY <1>1 DEF Sound, CallForm, SdkTypeOK, Call, In
  <2> QED BY <1>1, <1>4, <1>5, <1>6, <2>1 DEF Fam, Alone
<1>8. \A j \in Calls : ~In(call[j].sent, f)' /\ ~In(call[j].answer, f)'
  <2>1. Idle.sent = Nothing /\ Idle.answer = Nothing /\ ~In(Nothing, f)
    BY SdkAssumption DEF Idle, In
  <2> QED BY <1>2, <1>6, <1>7, <2>1 DEF Sound, SdkTypeOK
<1>9. \A q \in Pages : In(page[q].held, f)' => q = p
  BY <1>2, <1>3
<1>10. Usable(n)' /\ f \notin ended'
  <2>1. Usable(n)' <=> Usable(n)
    BY DEF Usable
  <2> QED BY <1>1, <1>4, <2>1 DEF Fam, Good, Over, Gone
<1>11. Alone(f)'
  BY <1>8, <1>9 DEF Alone
<1>12. Good(f)'
  BY <1>8, <1>9, <1>10 DEF Good
<1>13. Over(f)'
  BY <1>2, <1>8, <1>10 DEF Over, Gone
<1> QED BY <1>2, <1>11, <1>12, <1>13 DEF Fam, f

(* A logout comes to its end. *)
LEMMA FamEnded ==
  ASSUME Sound, NEW k \in Calls, NEW t \in Tokens, Fam(Family(t)),
         t = call[k].sent, call[k].answer = "ok", UNCHANGED row,
         page'[call[k].on].held = Nothing, \A q \in Pages \ {call[k].on} : page'[q].held = page[q].held,
         saved' = Nothing, call' = [call EXCEPT ![k] = Idle]
  PROVE  Fam(Family(t))'
<1> DEFINE f == Family(t)
<1>1. In(t, f) /\ f \in Tokens /\ t # Nothing
  <2>1. Issued(t)
    BY SdkAssumption DEF Sound, CallForm
  <2> QED BY <2>1, SdkAssumption DEF In, Family, Sound, RowForm
<1>2. f' = f /\ \A x : In(x, f)' <=> In(x, f)
  BY DEF In, Family
<1> HIDE DEF f
<1>3. Fam(f) /\ ~In(Nothing, f)
  BY SdkAssumption DEF f, In
<1>4. \A q \in Pages : ~In(page[q].held, f)'
  BY <1>1, <1>2, <1>3 DEF Fam, Alone
<1>5. \A j \in Calls \ {k} : ~In(call[j].sent, f) /\ ~In(call[j].answer, f)
  <2> SUFFICES ASSUME NEW j \in Calls \ {k}, In(call[j].sent, f) \/ In(call[j].answer, f) PROVE FALSE
    OBVIOUS
  <2>1. In(call[j].answer, f) => call[j].sent = Nothing \/ In(call[j].sent, f)
    BY <1>1 DEF Sound, CallForm, SdkTypeOK, Call, In
  <2> QED BY <1>1, <1>3, <2>1 DEF Fam, Alone
<1>6. \A j \in Calls : ~In(call[j].sent, f)' /\ ~In(call[j].answer, f)'
  <2>1. Idle.sent = Nothing /\ Idle.answer = Nothing
    BY DEF Idle
  <2> QED BY <1>2, <1>3, <1>5, <2>1 DEF Sound, SdkTypeOK
<1>7. NoLive(f)' /\ ~In(saved, f)'
  BY <1>1, <1>2, <1>3 DEF Fam, Over, Gone, NoLive
<1> QED BY <1>2, <1>4, <1>6, <1>7 DEF Fam, Alone, Good, Over, Gone, f

-----------------------------------------------------------------------------
(* All families *)

Quiet == \A f \in Tokens \ troubled : Fam(f)

(* A revoked family stays dead. *)
Dead == \A s, t \in Tokens :
  row[s].state = "revoked" /\ row[s].family = row[t].family => row[t].state # "live"

LEMMA QuietSend ==
  ASSUME Sound, Quiet, NEW k \in Calls, NEW p \in Pages, NEW kind \in {"refresh", "logout"},
         page[p].held # Nothing, Send(k, kind, p, page[p].held),
         \/ page' = page \/ page' = [page EXCEPT ![p].timer = FALSE]
  PROVE  Quiet'
<1> DEFINE t == page[p].held
<1>1. t \in Tokens
  BY DEF Sound, SdkTypeOK, Page
<1>2. \A q \in Pages : page'[q].held = page[q].held
  BY DEF Sound, SdkTypeOK, Page
<1>3. UNCHANGED <<row, saved, ended>>
  BY DEF Send
<1>4. /\ call'[k].sent = t /\ call'[k].on = p /\ call'[k].answer = Nothing
      /\ \A j \in Calls \ {k} : call'[j] = call[j]
      /\ call[k].sent = Nothing /\ call[k].answer = Nothing
  BY DEF Send, Sound, SdkTypeOK, CallForm, Shape, Idle
<1>5. troubled \subseteq troubled' /\ (Shares(p, t) => Family(t) \in troubled')
  BY DEF Send
<1> HIDE DEF t
<1> SUFFICES ASSUME NEW f \in Tokens, f \notin troubled' PROVE Fam(f)'
  BY DEF Quiet
<1>6. Fam(f)
  BY <1>5 DEF Quiet
<1>7. CASE f = Family(t)
  <2>1. ~Shares(p, t)
    BY <1>5, <1>7
  <2>2. Fam(Family(t))'
    BY <1>1, <1>2, <1>3, <1>4, <1>6, <1>7, <2>1, FamSent DEF t
  <2>3. Family(t)' = Family(t)
    BY <1>2, <1>3 DEF Family, t
  <2> QED BY <1>7, <2>2, <2>3
<1>8. CASE f # Family(t)
  <2>1. RowsFor(f) /\ HandsFor(f)
    BY <1>2, <1>3 DEF RowsFor, HandsFor
  <2>2. \A j \in Calls : CallFor(j, f)
    BY <1>1, <1>3, <1>4, <1>8, SdkAssumption DEF CallFor, In, Family
  <2> QED BY <1>3, <1>6, <2>1, <2>2, FamStays
<1> QED BY <1>7, <1>8

LEMMA QuietLoad ==
  ASSUME Sound, Quiet, NEW k \in Calls, NEW p \in Pages, Load(k, p)
  PROVE  Quiet'
<1>1. /\ page'[p].held = Nothing /\ \A q \in Pages \ {p} : page'[q].held = page[q].held
  BY DEF Load, Sound, SdkTypeOK, Page, Blank
<1>2. UNCHANGED <<row, saved, ended>>
  BY DEF Load
<1>3. call[k].sent = Nothing /\ call[k].answer = Nothing /\ call[k].on = Nothing
  BY DEF Load, Sound, CallForm, Shape, Idle
<1>4. \A j \in Calls \ {k} :
        \/ call'[j] = call[j]
        \/ call[j].on = p /\ call'[j].sent = Nothing /\ call'[j].answer = Nothing
        \/ call[j].on = p /\ call'[j].sent = call[j].sent /\ call'[j].answer = call[j].answer
  BY DEF Load, Sound, SdkTypeOK, Call, Forgotten, Idle
<1>5. /\ saved # Nothing => call'[k].sent = saved /\ call'[k].on = p /\ call'[k].answer = Nothing
      /\ saved = Nothing => call'[k] = call[k]
  BY <1>3, SdkAssumption DEF Load, Forgotten, Idle
<1>6. /\ troubled \subseteq troubled'
      /\ \A j \in Calls : call[j].on = p /\ call[j].sent # Nothing => Family(call[j].sent) \in troubled'
      /\ saved # Nothing /\ Shares(p, saved) => Family(saved) \in troubled'
  BY DEF Load, Unheard, On
<1> SUFFICES ASSUME NEW f \in Tokens, f \notin troubled' PROVE Fam(f)'
  BY DEF Quiet
<1>7. Fam(f)
  BY <1>6 DEF Quiet
<1>8. CASE saved # Nothing /\ f = Family(saved)
  <2>1. ~Shares(p, saved) /\ saved \in Tokens
    BY <1>6, <1>8 DEF Sound, SdkTypeOK
  <2>2. \A j \in Calls \ {k} : call'[j].sent \in {call[j].sent, Nothing} /\ call'[j].answer \in {call[j].answer, Nothing}
    BY <1>4
  <2>3. Fam(Family(saved))'
    <3> DEFINE t == saved
    <3>1. t \in Tokens /\ ~Shares(p, t) /\ saved = t /\ Fam(Family(t)) /\ call'[k].sent = t
          /\ call'[k].on = p /\ call'[k].answer = Nothing
      BY <1>5, <1>7, <1>8, <2>1
    <3>2. Family(t)' = Family(saved)'
      OBVIOUS
    <3> QED BY <1>1, <1>2, <2>2, <3>1, FamSent
  <2>4. Family(saved)' = Family(saved)
    BY <1>2 DEF Family
  <2> QED BY <1>8, <2>3, <2>4
<1>9. CASE ~(saved # Nothing /\ f = Family(saved))
  <2>1. RowsFor(f) /\ HandsFor(f)
    BY <1>1, <1>2, SdkAssumption DEF RowsFor, HandsFor, In
  <2>2. ASSUME NEW j \in Calls, call[j].on = p PROVE ~In(call[j].sent, f)
    BY <1>6, <2>2, SdkAssumption DEF In, Family
  <2>3. CallFor(k, f)
    BY <1>2, <1>3, <1>5, <1>9, SdkAssumption DEF CallFor, In, Family
  <2>4. \A j \in Calls \ {k} : CallFor(j, f)
    BY <1>2, <1>4, <2>2, SdkAssumption DEF CallFor, In
  <2> QED BY <1>2, <1>7, <2>1, <2>3, <2>4, FamStays
<1> QED BY <1>8, <1>9

(* What happens on a page between requests. *)
LEMMA PageFor ==
  ASSUME Sound, NEW f \in Tokens, NEW k, NEW p,
         \/ BeginLogin(k, p) \/ ScriptLoads(p) \/ ScriptFails(p) \/ Prompted(k)
         \/ page' = [page EXCEPT ![p].timer = FALSE] /\ UNCHANGED <<row, saved, call, ghosts>>
         \/ page' = SignedOut(k, p) /\ saved' = Nothing /\ UNCHANGED <<row, call, ghosts>>
  PROVE  /\ RowsFor(f) /\ HandsFor(f) /\ \A j \in Calls : CallFor(j, f)
         /\ UNCHANGED <<troubled, ended>>
<1>1. UNCHANGED <<row, troubled, ended>> /\ saved' \in {saved, Nothing}
  BY DEF BeginLogin, ScriptLoads, ScriptFails, Prompted, ghosts
<1>2. \A q \in Pages : page'[q].held \in {page[q].held, Nothing}
  <2> \A q \in Pages : page[q] \in Page
    BY DEF Sound, SdkTypeOK
  <2> page = [q \in Pages |-> page[q]]
    BY DEF Sound, SdkTypeOK
  <2>1. CASE BeginLogin(k, p)
    BY <2>1 DEF BeginLogin, Page
  <2>2. CASE ScriptLoads(p)
    BY <2>2 DEF ScriptLoads, Page
  <2>6. CASE ScriptFails(p)
    <3>1. page' = [page EXCEPT ![p].script = "failed", ![p].loading = FALSE]
      BY <2>6 DEF ScriptFails
    <3> QED BY <3>1 DEF Page
  <2>3. CASE Prompted(k)
    BY <2>3 DEF Prompted, Page
  <2>4. CASE page' = [page EXCEPT ![p].timer = FALSE]
    BY <2>4 DEF Page
  <2>5. CASE page' = SignedOut(k, p)
    BY <2>5 DEF SignedOut, Page
  <2> QED BY <2>1, <2>2, <2>3, <2>4, <2>5, <2>6
<1>3. \A j \in Calls : \/ call'[j] = call[j]
                       \/ /\ call[j].sent = Nothing /\ call[j].answer = Nothing
                          /\ call'[j].sent = Nothing /\ call'[j].answer = Nothing
  <2>1. \A j \in Calls : call[j].pc \in {"idle", "script", "waits", "prompt"} =>
          call[j].sent = Nothing /\ call[j].answer = Nothing
    BY SdkAssumption DEF Sound, CallForm, Shape, Idle
  <2>2. CASE BeginLogin(k, p)
    BY <2>1, <2>2 DEF BeginLogin, Sound, SdkTypeOK, Call, Idle
  <2>3. CASE ScriptLoads(p)
    BY <2>1, <2>3 DEF ScriptLoads, Waiting, Sound, SdkTypeOK, Call
  <2>4. CASE ScriptFails(p)
    BY <2>1, <2>4 DEF ScriptFails, Sound, SdkTypeOK, Call, Idle
  <2>5. CASE Prompted(k)
    BY <2>1, <2>5 DEF Prompted, Sound, SdkTypeOK, Call, Idle
  <2> QED BY <2>2, <2>3, <2>4, <2>5
<1>4. RowsFor(f) /\ HandsFor(f) /\ \A j \in Calls : CallFor(j, f)
  BY <1>1, <1>2, <1>3, SdkAssumption DEF RowsFor, HandsFor, CallFor, In
<1> QED BY <1>1, <1>4

LEMMA QuietPage ==
  ASSUME Sound, Quiet, NEW k, NEW p,
         \/ BeginLogin(k, p) \/ ScriptLoads(p) \/ ScriptFails(p) \/ Prompted(k)
         \/ page' = [page EXCEPT ![p].timer = FALSE] /\ UNCHANGED <<row, saved, call, ghosts>>
         \/ page' = SignedOut(k, p) /\ saved' = Nothing /\ UNCHANGED <<row, call, ghosts>>
  PROVE  Quiet'
<1> SUFFICES ASSUME NEW f \in Tokens, f \notin troubled' PROVE Fam(f)'
  BY DEF Quiet
<1>1. /\ RowsFor(f) /\ HandsFor(f) /\ \A j \in Calls : CallFor(j, f)
      /\ UNCHANGED <<troubled, ended>>
  BY PageFor
<1> QED BY <1>1, FamStays DEF Quiet

LEMMA QuietServe ==
  ASSUME Sound, Quiet, Dead, NEW k \in Calls,
         Serve(k)
  PROVE  Quiet' /\ Dead' /\ (NoSelfRevocation => NoSelfRevocation')
<1> DEFINE t == call[k].sent
<1>1. call[k].pc = "sent" /\ call[k].answer = Nothing /\ UNCHANGED <<page, saved, ended>>
  BY DEF Serve, ServeLogin, ServeRefresh, ServeLogout, LoseRequest, Refuse, ghosts, Sound,
     CallForm, Shape
<1>2. t # Nothing => t \in Tokens /\ Issued(t) /\ row[t].family \in Tokens
  BY SdkAssumption DEF Sound, SdkTypeOK, CallForm, Call, RowForm
<1>3. ASSUME NEW a \in Tokens \union {"ok", "rejected"}, Replies(k, a),
             IF call[k].kind = "logout" THEN a \notin Tokens ELSE a # "ok"
      PROVE  /\ troubled \subseteq troubled'
             /\ \A j \in Calls \ {k} : call'[j] = call[j]
             /\ \/ call'[k] = Idle /\ call[k].on = Nothing
                \/ /\ call'[k].sent = t /\ call'[k].on = call[k].on /\ call[k].on \in Pages
                   /\ \/ call'[k].answer = a
                      \/ /\ call'[k].answer \in {"rejected", "network"}
                         /\ t # Nothing => Family(t) \in troubled'
  <2>1. PICK b \in {a, "rejected", "network"} :
          /\ Answered(k, b) /\ troubled \subseteq troubled'
          /\ b = a \/ (t # Nothing => Family(t) \in troubled')
    BY <1>3 DEF Replies
  <2>2. /\ b \in Tokens \union {"ok", "rejected", "network"}
        /\ IF call[k].kind = "logout" THEN b \notin Tokens ELSE b # "ok"
    BY <1>3, SdkAssumption
  <2> HIDE DEF t
  <2>3. /\ \A j \in Calls \ {k} : call'[j] = call[j]
        /\ \/ call'[k] = Idle /\ call[k].on = Nothing
           \/ /\ call'[k].sent = call[k].sent /\ call'[k].answer = b
              /\ call'[k].on = call[k].on /\ call[k].on \in Pages
    BY <1>1, <2>1, <2>2, CallAnswered
  <2> QED BY <2>1, <2>3 DEF t
<1>4. Idle.sent = Nothing /\ Idle.answer = Nothing
  BY DEF Idle
<1> HIDE DEF t
<1>5. ASSUME NEW f \in Tokens, f \notin troubled', f \notin troubled,
             t # Nothing => f # Family(t),
             \A j \in Calls \ {k} : call'[j] = call[j],
             call'[k].sent \in {t, Nothing}, ~In(call[k].answer, f)',
             RowsFor(f)
      PROVE  Fam(f)'
  <2>1. HandsFor(f)
    BY <1>1 DEF HandsFor
  <2>2. \A j \in Calls \ {k} : CallFor(j, f)
    BY <1>5 DEF CallFor
  <2>3. CallFor(k, f)
    BY <1>1, <1>5, SdkAssumption DEF CallFor, In, RowsFor, Family, t
  <2> QED BY <1>1, <1>5, <2>1, <2>2, <2>3, FamStays DEF Quiet
(* ... and the family of the token that was sent, whose rows stay or die. *)
<1>6. ASSUME NEW f \in Tokens, f \notin troubled', f \notin troubled,
             t # Nothing, f = Family(t),
             \A j \in Calls \ {k} : call'[j] = call[j],
             \/ call'[k] = Idle /\ call[k].on = Nothing
             \/ /\ call'[k].sent = t /\ call'[k].on = call[k].on
                /\ call'[k].answer \in {"ok", "rejected", "network"},
             call'[k].answer = "ok" => NoLive(f)',
             RowsFor(f)
      PROVE  Fam(f)'
  <2>1. HandsFor(f)
    BY <1>1 DEF HandsFor
  <2>2. \A j \in Calls \ {k} : CallFor(j, f)
    BY <1>6 DEF CallFor
  <2>3. In(t, f) /\ Fam(f)
    BY <1>2, <1>6 DEF In, Family, Quiet
  <2>4. call[k].on # Nothing
    BY <2>3, SdkAssumption DEF Fam, Alone, t
  <2>5. CallFor(k, f)
    BY <1>1, <1>6, <2>3, <2>4, SdkAssumption DEF CallFor, t
  <2> QED BY <1>1, <1>6, <2>1, <2>2, <2>3, <2>5, FamStays
<1>7. UNCHANGED row => Dead' /\ \A f \in Tokens : RowsFor(f)
  BY DEF Dead, RowsFor
<1>8. CASE ServeLogin(k)
  <2>1. t = Nothing /\ UNCHANGED reused /\ call[k].kind # "logout"
    BY <1>8 DEF ServeLogin, Sound, CallForm, Shape, t
  <2>2. Unissued # {} /\ row' = [row EXCEPT ![Fresh] = [state |-> "live", family |-> Fresh]]
        /\ Replies(k, Fresh)
    BY <1>8 DEF ServeLogin
  <2> DEFINE n == Fresh
  <2>3. n \in Tokens /\ row[n].state = "unissued" /\ row[n].family = Nothing
    BY <2>2, FreshIsNew DEF Sound, RowForm, Issued
  <2>4. (\A u \in Tokens \ {n} : Alike(u)) /\ row'[n].state = "live" /\ row'[n].family = n
    BY <2>2, RowsOpened
  <2>5. /\ troubled \subseteq troubled' /\ \A j \in Calls \ {k} : call'[j] = call[j]
        /\ call'[k].sent = Nothing /\ call'[k].answer \in {n, "rejected", "network", Nothing}
    <3> HIDE DEF n
    <3> QED BY <1>3, <1>4, <2>1, <2>2, <2>3, SdkAssumption DEF n
  <2> HIDE DEF n
  <2>6. ASSUME NEW f \in Tokens, f # n PROVE RowsFor(f)
    BY <2>3, <2>4, <2>6, SdkAssumption DEF RowsFor, Alike
  <2>7. ASSUME NEW f \in Tokens, f \notin troubled', f # n PROVE Fam(f)'
    <3>1. ~In(call[k].answer, f)'
      BY <2>4, <2>5, <2>7, SdkAssumption DEF In
    <3> QED BY <1>5, <2>1, <2>5, <2>6, <2>7, <3>1
  <2>8. ASSUME NEW f \in Tokens, f = n PROVE Fam(f)'
    <3>1. row'[f].state = "live" /\ row'[f].family = f /\ row[f].state = "unissued"
          /\ \A u \in Tokens \ {f} : Alike(u)
      BY <2>3, <2>4, <2>8
    <3> QED BY <1>1, <2>1, <2>5, <3>1, FamOpened DEF t
  <2>9. Quiet'
    BY <2>7, <2>8 DEF Quiet
  <2>10. Dead'
    BY <2>3, <2>4, SdkAssumption DEF Dead, Alike, Sound, RowForm
  <2> QED BY <2>1, <2>5, <2>9, <2>10 DEF NoSelfRevocation
<1>9. CASE ServeRefresh(k)
  <2>1. t # Nothing /\ t \in Tokens /\ call[k].kind # "logout" /\ row[t] \in Row
        /\ row[t].state # "unissued" /\ Family(t) \in Tokens
    BY <1>2, <1>9, SdkAssumption DEF ServeRefresh, Sound, CallForm, Shape, SdkTypeOK, Issued,
       Family, t
  <2>2. CASE row[t].state = "live"
    <3> DEFINE n == Fresh
    <3>1. /\ Unissued # {} /\ Replies(k, n) /\ UNCHANGED reused
          /\ row' = [row EXCEPT ![t].state = "rotated",
                                ![Fresh] = [state |-> "live", family |-> Family(t)]]
      BY <1>9, <2>2 DEF ServeRefresh, Rotated, t
    <3>2. n \in Tokens /\ row[n].state = "unissued" /\ row[n].family = Nothing
      BY <3>1, FreshIsNew DEF Sound, RowForm, Issued
    <3>3. /\ \A u \in Tokens \ {t, n} : Alike(u)
          /\ row'[t].state = "rotated" /\ row'[t].family = row[t].family
          /\ row'[n].state = "live" /\ row'[n].family = row[t].family
      BY <2>1, <2>2, <3>1, RowsRotated
    <3> HIDE DEF n
    <3>4. /\ troubled \subseteq troubled' /\ \A j \in Calls \ {k} : call'[j] = call[j]
          /\ \/ call'[k] = Idle /\ call[k].on = Nothing
             \/ /\ call'[k].sent = t /\ call'[k].on = call[k].on
                /\ \/ call'[k].answer = n
                   \/ call'[k].answer \in {"rejected", "network"} /\ Family(t) \in troubled'
      BY <1>3, <2>1, <3>1, <3>2, SdkAssumption
    <3>5. ASSUME NEW f \in Tokens, f \notin troubled', f # Family(t) PROVE Fam(f)'
      <4>1. RowsFor(f)
        BY <3>2, <3>3, <3>5, SdkAssumption DEF RowsFor, Alike, Family
      <4>2. call'[k].sent \in {t, Nothing} /\ call'[k].answer \in {n, "rejected", "network", Nothing}
        BY <1>4, <3>4
      <4>3. ~In(call[k].answer, f)'
        BY <3>3, <3>5, <4>2, SdkAssumption DEF In, Family
      <4> QED BY <1>5, <3>4, <3>5, <4>1, <4>2, <4>3
    <3>6. ASSUME NEW f \in Tokens, f \notin troubled', f = Family(t) PROVE Fam(f)'
      <4>1. Fam(f) /\ In(t, f)
        BY <2>1, <3>4, <3>6 DEF Quiet, In, Family
      <4>2. call[k].on # Nothing
        BY <4>1, SdkAssumption DEF Fam, Alone, t
      <4>3. call'[k].sent = t /\ call'[k].on = call[k].on /\ call'[k].answer = n
        BY <3>4, <3>6, <4>2
      <4>4. Fam(Family(t))'
        <5> DEFINE u == t
        <5>1. Family(u)' = row'[t'].family /\ t' = t
          BY <4>3 DEF Family, t
        <5>2. \A c \in Tokens : c = t => Fam(Family(c))'
          <6> SUFFICES ASSUME NEW c \in Tokens, c = t PROVE Fam(Family(c))'
            OBVIOUS
          <6>1. c = call[k].sent /\ call'[k].sent = c
            BY <4>3 DEF t
          <6>2. Fam(Family(c)) /\ row'[n].family = Family(c) /\ row'[c].family = row[c].family
                /\ \A v \in Tokens \ {c, n} : Alike(v)
            BY <3>3, <3>6, <4>1 DEF Family
          <6> QED BY <1>1, <3>2, <3>3, <3>4, <4>3, <6>1, <6>2, FamRotated
        <5> QED BY <2>1, <5>1, <5>2
      <4>5. Family(t)' = f
        BY <3>3, <3>6, <4>3 DEF Family, t
      <4> QED BY <4>4, <4>5
    <3>7. Dead'
      <4>1. \A s \in Tokens : row[s].family = row[t].family => row[s].state # "revoked"
        BY <2>1, <2>2 DEF Dead
      <4> QED BY <2>1, <2>2, <3>2, <3>3, <4>1, SdkAssumption DEF Dead, Alike, Sound, RowForm,
             Family
    <3> QED BY <3>1, <3>4, <3>5, <3>6, <3>7 DEF Quiet, NoSelfRevocation

  <2>3. ASSUME row[t].state \in {"rotated", "revoked"}
        PROVE  /\ Replies(k, "rejected")
               /\ troubled \subseteq troubled' /\ \A j \in Calls \ {k} : call'[j] = call[j]
               /\ \/ call'[k] = Idle /\ call[k].on = Nothing
                  \/ /\ call'[k].sent = t /\ call'[k].on = call[k].on
                     /\ call'[k].answer \in {"rejected", "network"}
               /\ call'[k].sent \in {t, Nothing}
               /\ \A f : ~In(call[k].answer, f)'
    <3>1. Replies(k, "rejected")
      BY <1>9, <2>3 DEF ServeRefresh, t
    <3>2. /\ troubled \subseteq troubled' /\ \A j \in Calls \ {k} : call'[j] = call[j]
          /\ \/ call'[k] = Idle /\ call[k].on = Nothing
             \/ /\ call'[k].sent = t /\ call'[k].on = call[k].on
                /\ call'[k].answer \in {"rejected", "network"}
      BY <1>3, <2>1, <3>1
    <3> QED BY <1>4, <3>1, <3>2, SdkAssumption DEF In
  <2>4. CASE row[t].state = "rotated"
    <3>1. row' = Killed(Family(t)) /\ reused' = reused \union {Family(t)}
      BY <1>9, <2>4 DEF ServeRefresh, t
    <3>2. \A u \in Tokens :
            \/ Alike(u) /\ ~(row[u].family = Family(t) /\ row[u].state = "live")
            \/ /\ row[u].family = Family(t) /\ row'[u].family = Family(t)
               /\ row[u].state = "live" /\ row'[u].state = "revoked"
      BY <2>1, <3>1, RowsKilled
    <3>3. \A f \in Tokens : RowsFor(f)
      BY <3>2 DEF RowsFor, Alike
    <3>4. Family(t) \in troubled
      <4> SUFFICES ASSUME Family(t) \notin troubled PROVE FALSE
        OBVIOUS
      <4>1. Good(Family(t)) /\ In(t, Family(t)) /\ ~Usable(t)
        BY <2>1, <2>4 DEF Quiet, Fam, In, Family, Usable
      <4> QED BY <1>1, <4>1, SdkAssumption DEF Good, t
    <3>5. Quiet'
      <4> SUFFICES ASSUME NEW f \in Tokens, f \notin troubled' PROVE Fam(f)'
        BY DEF Quiet
      <4>1. f # Family(t) /\ f \notin troubled
        BY <2>3, <2>4, <3>4
      <4> QED BY <1>5, <2>3, <2>4, <3>3, <4>1
    <3>6. Dead'
      BY <3>2 DEF Dead, Alike
    <3> QED BY <2>3, <2>4, <3>1, <3>4, <3>5, <3>6 DEF NoSelfRevocation
  <2>5. CASE row[t].state = "revoked"
    <3>1. UNCHANGED <<row, reused>>
      BY <1>9, <2>5 DEF ServeRefresh, t
    <3>2. Quiet'
      <4> SUFFICES ASSUME NEW f \in Tokens, f \notin troubled' PROVE Fam(f)'
        BY DEF Quiet
      <4>0. f \notin troubled /\ RowsFor(f)
        BY <1>7, <2>3, <2>5, <3>1
      <4>1. CASE f = Family(t)
        <5>1. call'[k].answer # "ok"
          BY <1>4, <2>3, <2>5, SdkAssumption
        <5>2. \/ call'[k] = Idle /\ call[k].on = Nothing
              \/ /\ call'[k].sent = t /\ call'[k].on = call[k].on
                 /\ call'[k].answer \in {"ok", "rejected", "network"}
          BY <2>3, <2>5
        <5> QED BY <1>6, <2>1, <2>3, <2>5, <4>0, <4>1, <5>1, <5>2
      <4>2. CASE f # Family(t)
        BY <1>5, <2>3, <2>5, <4>0, <4>2
      <4> QED BY <4>1, <4>2
    <3> QED BY <1>7, <2>3, <2>5, <3>1, <3>2 DEF NoSelfRevocation
  <2> QED BY <2>1, <2>2, <2>4, <2>5 DEF Row
<1>10. CASE ServeLogout(k)
  <2>1. t # Nothing /\ t \in Tokens /\ call[k].kind = "logout" /\ row[t] \in Row
        /\ row[t].state # "unissued" /\ Family(t) \in Tokens /\ UNCHANGED reused
    BY <1>2, <1>10, SdkAssumption DEF ServeLogout, Sound, CallForm, Shape, SdkTypeOK, Issued,
       Family, t
  <2>2. /\ troubled \subseteq troubled' /\ \A j \in Calls \ {k} : call'[j] = call[j]
        /\ \/ call'[k] = Idle /\ call[k].on = Nothing
           \/ /\ call'[k].sent = t /\ call'[k].on = call[k].on
              /\ call'[k].answer \in {"ok", "rejected", "network"}
    <3>1. Replies(k, "ok") /\ "ok" \notin Tokens
      BY <1>10, SdkAssumption DEF ServeLogout
    <3> QED BY <1>3, <2>1, <3>1
  <2>3. call'[k].sent \in {t, Nothing} /\ \A f : ~In(call[k].answer, f)'
    BY <1>4, <2>2, SdkAssumption DEF In
  <2>4. /\ \A f \in Tokens : RowsFor(f)
        /\ row[t].state \in {"live", "revoked"} =>
             \A u \in Tokens : row'[u].family = Family(t) => row'[u].state # "live"
        /\ Dead'
    <3>1. CASE row[t].state = "live"
      <4>1. row' = Killed(Family(t))
        BY <1>10, <3>1 DEF ServeLogout, t
      <4>2. \A u \in Tokens :
              \/ Alike(u) /\ ~(row[u].family = Family(t) /\ row[u].state = "live")
              \/ /\ row[u].family = Family(t) /\ row'[u].family = Family(t)
                 /\ row[u].state = "live" /\ row'[u].state = "revoked"
        BY <2>1, <4>1, RowsKilled
      <4>3. \A f \in Tokens : RowsFor(f)
        BY <4>2 DEF RowsFor, Alike
      <4>4. \A u \in Tokens : row'[u].family = Family(t) => row'[u].state # "live"
        BY <4>2 DEF Alike
      <4>5. Dead'
        BY <4>2 DEF Dead, Alike
      <4> QED BY <4>3, <4>4, <4>5
    <3>2. CASE row[t].state # "live"
      <4>1. UNCHANGED row
        BY <1>10, <3>2 DEF ServeLogout, t
      <4>2. row[t].state = "revoked" => \A u \in Tokens : row'[u].family = Family(t) => row'[u].state # "live"
        BY <2>1, <4>1 DEF Dead, Family
      <4> QED BY <1>7, <3>2, <4>1, <4>2
    <3> QED BY <3>1, <3>2
  <2>5. Quiet'
    <3> SUFFICES ASSUME NEW f \in Tokens, f \notin troubled' PROVE Fam(f)'
      BY DEF Quiet
    <3>0. f \notin troubled
      BY <2>2
    <3>1. CASE f = Family(t)
      <4>1. Good(f) /\ In(t, f)
        BY <2>1, <3>0, <3>1 DEF Quiet, Fam, In, Family
      <4>2. row[t].state # "rotated"
        BY <1>1, <4>1, SdkAssumption DEF Good, Usable, t
      <4>3. NoLive(f)'
        <5>1. row[t].state \in {"live", "revoked"}
          BY <2>1, <4>2 DEF Row
        <5> QED BY <2>4, <3>1, <5>1 DEF NoLive
      <4>4. \/ call'[k] = Idle /\ call[k].on = Nothing
            \/ /\ call'[k].sent = t /\ call'[k].on = call[k].on
               /\ call'[k].answer \in {"ok", "rejected", "network"}
        BY <2>2
      <4> QED BY <1>6, <2>1, <2>2, <2>4, <3>0, <3>1, <4>3, <4>4
    <3>2. CASE f # Family(t)
      BY <1>5, <2>2, <2>3, <2>4, <3>0, <3>2
    <3> QED BY <3>1, <3>2
  <2> QED BY <2>1, <2>2, <2>4, <2>5 DEF NoSelfRevocation
<1>11. CASE LoseRequest(k) \/ Refuse(k)
  <2>1. /\ UNCHANGED <<row, troubled, reused>>
        /\ Answered(k, "network") \/ Answered(k, "rejected")
    BY <1>11 DEF LoseRequest, Refuse, ghosts
  <2>2. /\ \A j \in Calls \ {k} : call'[j] = call[j]
        /\ \/ call'[k] = Idle /\ call[k].on = Nothing
           \/ /\ call'[k].sent = t /\ call'[k].on = call[k].on
              /\ call'[k].answer \in {"rejected", "network"}
    BY <1>1, <2>1, CallAnswered, SdkAssumption DEF t
  <2>3. call'[k].sent \in {t, Nothing} /\ (\A f : ~In(call[k].answer, f)') /\ call'[k].answer # "ok"
    BY <1>4, <2>2, SdkAssumption DEF In
  <2>4. Quiet'
    <3> SUFFICES ASSUME NEW f \in Tokens, f \notin troubled' PROVE Fam(f)'
      BY DEF Quiet
    <3>0. f \notin troubled /\ RowsFor(f)
      BY <1>7, <2>1
    <3>1. CASE t # Nothing /\ f = Family(t)
      <4>1. \/ call'[k] = Idle /\ call[k].on = Nothing
            \/ /\ call'[k].sent = t /\ call'[k].on = call[k].on
               /\ call'[k].answer \in {"ok", "rejected", "network"}
        BY <2>2
      <4> QED BY <1>6, <2>2, <2>3, <3>0, <3>1, <4>1
    <3>2. CASE t # Nothing => f # Family(t)
      BY <1>5, <2>2, <2>3, <3>0, <3>2
    <3> QED BY <3>1, <3>2
  <2> QED BY <1>7, <2>1, <2>4 DEF NoSelfRevocation
<1> QED BY <1>8, <1>9, <1>10, <1>11 DEF Serve

LEMMA QuietDeliver ==
  ASSUME Sound, Quiet, NEW k \in Calls, Deliver(k)
  PROVE  Quiet'
<1> DEFINE p == call[k].on
           t == call[k].sent
           n == call[k].answer
<1>1. /\ UNCHANGED row /\ call[k].on \in Pages
      /\ call' = [call EXCEPT ![k] = Idle]
      /\ troubled \subseteq troubled'
  BY DEF Deliver, DeliverTokens, DeliverFailure, DeliverLogout, ghosts, Sound, CallForm, Shape
<1>2. call'[k].sent = Nothing /\ call'[k].answer = Nothing /\ \A j \in Calls \ {k} : call'[j] = call[j]
  BY <1>1 DEF Idle, Sound, SdkTypeOK
<1>3. \A q \in Pages : page[q] \in Page
  BY DEF Sound, SdkTypeOK
<1> SUFFICES ASSUME NEW f \in Tokens, f \notin troubled' PROVE Fam(f)'
  BY DEF Quiet
<1>4. Fam(f) /\ RowsFor(f) /\ \A j \in Calls \ {k} : CallFor(j, f)
  BY <1>1, <1>2 DEF Quiet, RowsFor, CallFor
<1>5. CASE DeliverTokens(k)
  <2>1. /\ n \in Tokens /\ saved' = n /\ UNCHANGED ended
        /\ page'[p].held = n /\ \A q \in Pages \ {p} : page'[q].held = page[q].held
        /\ (\E q \in Pages \ {p} : page[q].held # Nothing /\ Family(page[q].held) = Family(n))
             => Family(n) \in troubled'
    <3>1. \A b : \A g \in [Pages -> Page] : [g EXCEPT ![p].loading = b][p].held = g[p].held
      BY <1>1 DEF Page
    <3>2. Stored(p, n) \in [Pages -> Page] /\ Stored(p, n)[p].held = n
          /\ \A q \in Pages \ {p} : Stored(p, n)[q].held = page[q].held
      <4>1. n \in Tokens /\ page \in [Pages -> Page]
        BY <1>5 DEF DeliverTokens, Sound, SdkTypeOK
      <4>2. [page EXCEPT ![p].held = n] \in [Pages -> Page]
        BY <4>1, PageSet
      <4>3. Stored(p, n) \in [Pages -> Page]
        BY <4>2, PageSet DEF Stored
      <4> QED BY <1>1, <4>1, <4>3 DEF Stored, Page
    <3>3. page' = [Stored(p, n) EXCEPT ![p].loading =
                     IF call[k].kind = "refresh" THEN Stored(p, n)[p].loading ELSE FALSE]
      BY <1>5 DEF DeliverTokens
    <3>4. page'[p].held = n /\ \A q \in Pages \ {p} : page'[q].held = page[q].held
      BY <1>1, <3>1, <3>2, <3>3
    <3>5. n \in Tokens /\ saved' = n /\ UNCHANGED ended
      BY <1>5 DEF DeliverTokens
    <3>6. (\E q \in Pages \ {p} : page[q].held # Nothing /\ Family(page[q].held) = Family(n))
             => Family(n) \in troubled'
      BY <1>5 DEF DeliverTokens
    <3> QED BY <3>4, <3>5, <3>6
  <2>2. CASE f = Family(n)
    <3>1. ASSUME NEW c \in Tokens, c = n PROVE Fam(Family(c))'
      <4>1. /\ Fam(Family(c)) /\ c = call[k].answer
            /\ \A q \in Pages \ {p} : page[q].held # Nothing => Family(page[q].held) # Family(c)
        BY <1>4, <2>1, <2>2, <3>1
      <4> QED BY <1>1, <2>1, <3>1, <4>1, FamDelivered
    <3>2. PICK c \in Tokens : c = n
      BY <2>1
    <3>3. row'[c].family = f
      BY <1>1, <2>2, <3>2 DEF Family
    <3> QED BY <3>1, <3>2, <3>3 DEF Family
  <2>3. CASE f # Family(n)
    <3>1. HandsFor(f)
      BY <1>1, <2>1, <2>3 DEF HandsFor, In, Family
    <3>2. CallFor(k, f)
      <4>1. ~In(call[k].sent, f)
        BY <2>1, <2>3, SdkAssumption DEF In, Family, Sound, CallForm
      <4> QED BY <1>2, <4>1, SdkAssumption DEF CallFor, In
    <3> QED BY <1>4, <2>1, <3>1, <3>2, FamStays
  <2> QED BY <2>2, <2>3
<1>6. ASSUME n \notin Tokens, saved' \in {saved, Nothing},
             \A q \in Pages : page'[q].held \in {page[q].held, Nothing},
             f \in ended' => f \in ended
      PROVE  Fam(f)'
  <2>1. HandsFor(f)
    BY <1>6, SdkAssumption DEF HandsFor, In
  <2>2. CallFor(k, f)
    BY <1>2, <1>6, SdkAssumption DEF CallFor, In
  <2> QED BY <1>4, <1>6, <2>1, <2>2, FamStays
<1>7. CASE DeliverFailure(k)
  <2>1. n \notin Tokens /\ saved' \in {saved, Nothing} /\ UNCHANGED ended
    BY <1>7, SdkAssumption DEF DeliverFailure, ghosts
  <2>2. \A q \in Pages : page'[q].held \in {page[q].held, Nothing}
    BY <1>3, <1>7 DEF DeliverFailure, Sound, SdkTypeOK, Page
  <2> QED BY <1>6, <2>1, <2>2
<1>8. CASE DeliverLogout(k)
  <2>1. /\ t \in Tokens /\ n \in {"ok", "rejected", "network"} /\ n \notin Tokens
        /\ saved' = Nothing /\ ended' \subseteq ended \union (IF n = "ok" THEN {Family(t)} ELSE {})
    BY <1>8, SdkAssumption DEF DeliverLogout, Sound, CallForm, Shape
  <2>2. /\ page'[p].held = Nothing
        /\ \A q \in Pages : q # p => page'[q].held = page[q].held
    BY <1>1, <1>3, <1>8 DEF DeliverLogout, SignedOut, Sound, SdkTypeOK, Page
  <2>3. CASE n = "ok" /\ f = Family(t)
    <3>1. ASSUME NEW c \in Tokens, c = t PROVE Fam(Family(c))'
      <4>1. Fam(Family(c)) /\ c = call[k].sent /\ call[k].answer = "ok"
        BY <1>4, <2>3, <3>1
      <4> QED BY <1>1, <2>1, <2>2, <4>1, FamEnded
    <3>2. PICK c \in Tokens : c = t
      BY <2>1
    <3>3. row'[c].family = f
      BY <1>1, <2>3, <3>2 DEF Family
    <3> QED BY <3>1, <3>2, <3>3 DEF Family
  <2>4. CASE ~(n = "ok" /\ f = Family(t))
    <3>1. f \in ended' => f \in ended
      BY <2>1, <2>4
    <3> QED BY <1>6, <2>1, <2>2, <3>1
  <2> QED BY <2>3, <2>4
<1> QED BY <1>5, <1>7, <1>8 DEF Deliver

LEMMA QuietNext ==
  ASSUME Sound, Quiet, Dead, NoSelfRevocation, [SdkNext]_sdkVars
  PROVE  Quiet' /\ Dead' /\ NoSelfRevocation'
<1>1. ASSUME UNCHANGED row PROVE Dead'
  BY <1>1 DEF Dead
<1>2. ASSUME UNCHANGED reused, troubled \subseteq troubled' PROVE NoSelfRevocation'
  BY <1>2 DEF NoSelfRevocation
<1>3. CASE UNCHANGED sdkVars
  <2>1. ASSUME NEW f \in Tokens, Fam(f) PROVE Fam(f)'
    BY <1>3, <2>1 DEF sdkVars, Fam, Alone, Good, Over, Gone, In, Usable, Renewed, NoLive
  <2> QED BY <1>3, <2>1 DEF sdkVars, Quiet, Dead, NoSelfRevocation
<1>4. ASSUME NEW k \in Calls, NEW p \in Pages,
             TimerFires(k, p) \/ Unauthorized(k, p) \/ Logout(k, p)
      PROVE  Quiet' /\ Dead' /\ NoSelfRevocation'
  <2>1. UNCHANGED <<row, reused>> /\ troubled \subseteq troubled'
    BY <1>4 DEF TimerFires, Unauthorized, Logout, SilentRefresh, Send, ghosts
  <2>2. CASE page[p].held # Nothing
    BY <1>1, <1>2, <1>4, <2>1, <2>2, QuietSend DEF TimerFires, Unauthorized, Logout,
       SilentRefresh
  <2>3. CASE page[p].held = Nothing
    BY <1>1, <1>2, <1>4, <2>1, <2>3, QuietPage DEF TimerFires, Unauthorized, Logout
  <2> QED BY <2>2, <2>3
<1>5. ASSUME NEW k \in Calls, NEW p \in Pages, Load(k, p) \/ BeginLogin(k, p)
      PROVE  Quiet' /\ Dead' /\ NoSelfRevocation'
  <2>1. UNCHANGED <<row, reused>> /\ troubled \subseteq troubled'
    BY <1>5 DEF Load, BeginLogin, ghosts
  <2> QED BY <1>1, <1>2, <1>5, <2>1, QuietLoad, QuietPage
<1>6. ASSUME NEW k, NEW p, ScriptLoads(p) \/ ScriptFails(p) \/ Prompted(k)
      PROVE  Quiet' /\ Dead' /\ NoSelfRevocation'
  <2>1. UNCHANGED <<row, reused>> /\ troubled \subseteq troubled'
    BY <1>6 DEF ScriptLoads, ScriptFails, Prompted, ghosts
  <2> QED BY <1>1, <1>2, <1>6, <2>1, QuietPage
<1>7. ASSUME NEW k \in Calls, Serve(k) PROVE Quiet' /\ Dead' /\ NoSelfRevocation'
  BY <1>7, QuietServe
<1>8. ASSUME NEW k \in Calls, Deliver(k) PROVE Quiet' /\ Dead' /\ NoSelfRevocation'
  <2>1. UNCHANGED <<row, reused>> /\ troubled \subseteq troubled'
    BY <1>8 DEF Deliver, DeliverTokens, DeliverFailure, DeliverLogout, ghosts
  <2> QED BY <1>1, <1>2, <1>8, <2>1, QuietDeliver
<1> QED BY <1>3, <1>4, <1>5, <1>6, <1>7, <1>8 DEF SdkNext

-----------------------------------------------------------------------------
(* Families that were logged out *)

(* Nobody has anything of a family whose logout was acknowledged in time,  *)
(* whatever trouble it is in since.                                        *)
Ended == \A f \in ended : Gone(f)

LEMMA GoneServe ==
  ASSUME Sound, NEW f \in Tokens, Issued(f), Gone(f), NEW k \in Calls, Serve(k)
  PROVE  Gone(f)'
<1> DEFINE t == call[k].sent
<1>1. call[k].pc = "sent" /\ call[k].answer = Nothing /\ UNCHANGED <<page, saved>>
  BY DEF Serve, ServeLogin, ServeRefresh, ServeLogout, LoseRequest, Refuse, Sound, CallForm, Shape
<1>2. /\ t # Nothing => t \in Tokens /\ Issued(t) /\ row[t].family \in Tokens /\ row[t] \in Row
      /\ t \in Tokens => row[t].family # f
      /\ call[k].kind \in {"refresh", "restore", "logout"} => t \in Tokens
  BY SdkAssumption DEF Sound, SdkTypeOK, CallForm, Shape, Call, RowForm, Gone, In
<1>3. \A u \in Tokens : u = f => row[u].state # "unissued" /\ row[u].family # Nothing
  BY SdkAssumption DEF Issued, Sound, RowForm
<1>4. ASSUME NEW a, Answered(k, a), RowsFor(f), ~In(a, f)'
      PROVE  Gone(f)'
  <2>1. HandsFor(f) /\ \A j \in Calls \ {k} : CallFor(j, f)
    BY <1>1, <1>4 DEF HandsFor, Answered, CallFor, Sound, SdkTypeOK
  <2>2. \/ call'[k].sent = Nothing /\ call'[k].answer = Nothing
        \/ call'[k].sent = t /\ call'[k].answer = a
    BY <1>4 DEF Answered, Sound, SdkTypeOK, Call, Idle
  <2>3. ~In(call[k].sent, f)' /\ ~In(call[k].answer, f)'
    <3>1. ~In(t, f)
      BY DEF Gone, t
    <3>2. \A x : In(x, f)' <=> In(x, f)
      BY <1>4 DEF In, RowsFor
    <3>3. ~In(Nothing, f)
      BY SdkAssumption DEF In
    <3>4. call'[k].sent \in {t, Nothing} /\ call'[k].answer \in {a, Nothing}
      BY <2>2
    <3>5. ~In(a, f)
      BY <1>4, <3>2
    <3> QED BY <3>1, <3>2, <3>3, <3>4, <3>5
  <2>4. CallFor(k, f)
    BY <1>1, <2>3, SdkAssumption DEF CallFor
  <2> QED BY <1>4, <2>1, <2>4, GoneStays
<1>5. \A a \in {"ok", "rejected", "network"} : ~In(a, f)'
  BY SdkAssumption DEF In
<1>6. UNCHANGED row => RowsFor(f)
  BY DEF RowsFor
<1>7. ASSUME NEW a, Replies(k, a)
      PROVE  \E b \in {a, "rejected", "network"} : Answered(k, b)
  BY <1>7 DEF Replies
<1>8. ASSUME t \in Tokens, row' = Killed(Family(t)) PROVE RowsFor(f)
  <2>1. \A u \in Tokens :
          \/ Alike(u) /\ ~(row[u].family = Family(t) /\ row[u].state = "live")
          \/ /\ row[u].family = Family(t) /\ row'[u].family = Family(t)
             /\ row[u].state = "live" /\ row'[u].state = "revoked"
    <3>1. Family(t) \in Tokens
      BY <1>2, <1>8, SdkAssumption DEF Family
    <3> QED BY <1>8, <3>1, RowsKilled
  <2> QED BY <2>1 DEF RowsFor, Alike
<1> HIDE DEF t
<1>9. CASE ServeLogin(k)
  <2>1. Fresh \in Tokens /\ row[Fresh].state = "unissued" /\ row[Fresh].family = Nothing
    BY <1>9, FreshIsNew DEF ServeLogin, Sound, RowForm, Issued
  <2>2. (\A u \in Tokens \ {Fresh} : Alike(u)) /\ row'[Fresh].state = "live" /\ row'[Fresh].family = Fresh
    BY <1>9, RowsOpened DEF ServeLogin
  <2>3. Fresh # f
    BY <1>3, <2>1
  <2> DEFINE n == Fresh
  <2>4. n \in Tokens /\ row[n].family = Nothing /\ n # f /\ row'[n].family = n
        /\ \A u \in Tokens \ {n} : Alike(u)
    BY <2>1, <2>2, <2>3
  <2>5. PICK b \in {n, "rejected", "network"} : Answered(k, b)
    BY <1>7, <1>9 DEF ServeLogin
  <2> HIDE DEF n
  <2>6. RowsFor(f)
    BY <2>4, SdkAssumption DEF RowsFor, Alike
  <2>7. ~In(b, f)'
    BY <1>5, <2>4, <2>5 DEF In
  <2> QED BY <1>4, <2>5, <2>6, <2>7
<1>10. CASE ServeRefresh(k)
  <2>1. t \in Tokens /\ row[t].state \in {"live", "rotated", "revoked"} /\ row[t].family # f
        /\ row[t].family \in Tokens /\ t # Nothing
    BY <1>2, <1>10, SdkAssumption DEF ServeRefresh, Issued, Row
  <2>2. CASE row[t].state = "live"
    <3> DEFINE n == Fresh
    <3>1. /\ Unissued # {} /\ Replies(k, n)
          /\ row' = [row EXCEPT ![t].state = "rotated",
                                ![Fresh] = [state |-> "live", family |-> Family(t)]]
      BY <1>10, <2>2 DEF ServeRefresh, Rotated, t
    <3>2. n \in Tokens /\ row[n].state = "unissued" /\ row[n].family = Nothing
      BY <3>1, FreshIsNew DEF Sound, RowForm, Issued
    <3>3. /\ \A u \in Tokens \ {t, n} : Alike(u)
          /\ row'[t].state = "rotated" /\ row'[t].family = row[t].family
          /\ row'[n].state = "live" /\ row'[n].family = row[t].family
      BY <2>1, <2>2, <3>1, RowsRotated
    <3>4. PICK b \in {n, "rejected", "network"} : Answered(k, b)
      BY <1>7, <3>1
    <3> HIDE DEF n
    <3>5. ~In(b, f)'
      BY <1>5, <2>1, <3>3, <3>4 DEF In
    <3>6. RowsFor(f)
      BY <2>1, <3>2, <3>3, SdkAssumption DEF RowsFor, Alike
    <3> QED BY <1>4, <3>4, <3>5, <3>6
  <2>3. CASE row[t].state # "live"
    <3>1. Replies(k, "rejected") /\ (row' = Killed(Family(t)) \/ UNCHANGED row)
      BY <1>10, <2>1, <2>3 DEF ServeRefresh, t
    <3> QED BY <1>4, <1>5, <1>6, <1>7, <1>8, <2>1, <3>1
  <2> QED BY <2>2, <2>3
<1>11. CASE ServeLogout(k)
  <2>1. t \in Tokens /\ Replies(k, "ok") /\ (row' = Killed(Family(t)) \/ UNCHANGED row)
    BY <1>2, <1>11 DEF ServeLogout, t
  <2> QED BY <1>4, <1>5, <1>6, <1>7, <1>8, <2>1
<1>12. CASE LoseRequest(k) \/ Refuse(k)
  BY <1>4, <1>5, <1>6, <1>12 DEF LoseRequest, Refuse
<1> QED BY <1>9, <1>10, <1>11, <1>12 DEF Serve

LEMMA GoneDeliver ==
  ASSUME Sound, NEW f \in Tokens, Gone(f), NEW k \in Calls, Deliver(k)
  PROVE  Gone(f)'
<1>1. /\ UNCHANGED row /\ call[k].on \in Pages
      /\ call' = [call EXCEPT ![k] = Idle]
  BY DEF Deliver, DeliverTokens, DeliverFailure, DeliverLogout, ghosts, Sound, CallForm, Shape
<1>2. call'[k].sent = Nothing /\ call'[k].answer = Nothing /\ \A j \in Calls \ {k} : call'[j] = call[j]
  BY <1>1 DEF Idle, Sound, SdkTypeOK
<1>3. /\ \A p \in Pages : page'[p].held \in {page[p].held, Nothing} \union ({call[k].answer} \cap Tokens)
      /\ saved' \in {saved, Nothing} \union ({call[k].answer} \cap Tokens)
  BY <1>1 DEF Deliver, DeliverTokens, DeliverFailure, DeliverLogout, Sound, SdkTypeOK, Page, Stored,
     SignedOut
<1>4. ~In(call[k].answer, f) /\ ~In(call[k].sent, f) /\ ~In(Nothing, f)
  BY SdkAssumption DEF Gone, In
<1>5. RowsFor(f) /\ \A x : In(x, f)' <=> In(x, f)
  BY <1>1 DEF RowsFor, In
<1>6. HandsFor(f)
  BY <1>3, <1>4, <1>5 DEF HandsFor
<1>7. \A j \in Calls : CallFor(j, f)
  BY <1>2, <1>4, <1>5 DEF CallFor
<1> QED BY <1>5, <1>6, <1>7, GoneStays

LEMMA GoneStep ==
  ASSUME Sound, NEW f \in Tokens, Issued(f), Gone(f), [SdkNext]_sdkVars
  PROVE  Gone(f)'
<1>1. CASE UNCHANGED sdkVars
  BY <1>1 DEF sdkVars, Gone, NoLive, In
(* A request carries a token that was held or saved. *)
<1>2. ASSUME NEW k \in Calls, NEW p \in Pages, UNCHANGED <<row, saved>>, call[k].pc = "idle",
             \A q \in Pages : page'[q].held \in {page[q].held, Nothing},
             call'[k].sent \in {page[p].held, saved, Nothing}, call'[k].answer = Nothing,
             \A j \in Calls \ {k} : \/ call'[j] = call[j]
                                   \/ /\ call'[j].sent \in {call[j].sent, Nothing}
                                      /\ call'[j].answer \in {call[j].answer, Nothing}
      PROVE  Gone(f)'
  <2>1. RowsFor(f) /\ ~In(Nothing, f) /\ \A x : In(x, f)' <=> In(x, f)
    BY <1>2, SdkAssumption DEF RowsFor, In
  <2>2. HandsFor(f)
    BY <1>2, <2>1 DEF HandsFor
  <2>3. \A j \in Calls : CallFor(j, f)
    BY <1>2, <2>1 DEF CallFor, Gone
  <2> QED BY <2>1, <2>2, <2>3, GoneStays
<1>3. ASSUME NEW k \in Calls, NEW p \in Pages,
             TimerFires(k, p) \/ Unauthorized(k, p) \/ Logout(k, p)
      PROVE  Gone(f)'
  <2>1. CASE page[p].held # Nothing
    <3>1. PICK kind : /\ Send(k, kind, p, page[p].held)
                      /\ page' = page \/ page' = [page EXCEPT ![p].timer = FALSE]
      BY <1>3, <2>1 DEF TimerFires, Unauthorized, Logout, SilentRefresh
    <3>2. /\ call'[k].sent = page[p].held /\ call'[k].answer = Nothing
          /\ \A j \in Calls \ {k} : call'[j] = call[j]
          /\ call[k].pc = "idle" /\ UNCHANGED <<row, saved>>
      BY <3>1 DEF Send, Sound, SdkTypeOK, Idle
    <3>3. \A q \in Pages : page'[q].held = page[q].held
      BY <3>1 DEF Sound, SdkTypeOK, Page
    <3> QED BY <1>2, <3>2, <3>3
  <2>2. CASE page[p].held = Nothing
    <3>1. \/ page' = [page EXCEPT ![p].timer = FALSE] /\ UNCHANGED <<row, saved, call, ghosts>>
          \/ page' = SignedOut(k, p) /\ saved' = Nothing /\ UNCHANGED <<row, call, ghosts>>
      BY <1>3, <2>2 DEF TimerFires, Unauthorized, Logout
    <3> QED BY <3>1, PageFor, GoneStays
  <2> QED BY <2>1, <2>2
<1>4. ASSUME NEW k \in Calls, NEW p \in Pages, Load(k, p) PROVE Gone(f)'
  <2>1. page'[p].held = Nothing /\ \A q \in Pages \ {p} : page'[q].held = page[q].held
    BY <1>4 DEF Load, Sound, SdkTypeOK, Page, Blank
  <2>2. UNCHANGED <<row, saved>> /\ call[k].pc = "idle"
    BY <1>4 DEF Load
  <2>3. \A j \in Calls \ {k} : /\ call'[j].sent \in {call[j].sent, Nothing}
                               /\ call'[j].answer \in {call[j].answer, Nothing}
    BY <1>4 DEF Load, Sound, SdkTypeOK, Call, Forgotten, Idle
  <2>4. call'[k].sent \in {saved, Nothing} /\ call'[k].answer = Nothing
    <3>1. call[k].sent = Nothing /\ call[k].answer = Nothing /\ call[k].on = Nothing
      BY <2>2 DEF Sound, CallForm, Shape, Idle
    <3> QED BY <1>4, <3>1, SdkAssumption DEF Load, Forgotten, Idle
  <2> QED BY <1>2, <2>1, <2>2, <2>3, <2>4
<1>5. ASSUME NEW k, NEW p, BeginLogin(k, p) \/ ScriptLoads(p) \/ ScriptFails(p) \/ Prompted(k)
      PROVE  Gone(f)'
  BY <1>5, PageFor, GoneStays
<1> QED BY <1>1, <1>3, <1>4, <1>5, GoneServe, GoneDeliver DEF SdkNext

LEMMA EndedStep ==
  ASSUME Sound, Quiet', Ended, [SdkNext]_sdkVars
  PROVE  Ended'
<1>1. ended \subseteq Tokens /\ \A f \in ended : Issued(f)
  BY DEF Sound, SdkTypeOK, Known
<1>2. ASSUME NEW f \in ended' \ ended PROVE f \in Tokens \ troubled'
  <2>1. PICK k \in Calls : DeliverLogout(k)
    BY <1>2 DEF SdkNext, sdkVars, ghosts, TimerFires, Unauthorized, Logout, SilentRefresh, Send,
       Load, BeginLogin, ScriptLoads, ScriptFails, Prompted, Serve, ServeLogin, ServeRefresh,
       ServeLogout, LoseRequest, Refuse, Deliver, DeliverTokens, DeliverFailure
  <2>2. call[k].sent \in Tokens /\ Issued(call[k].sent)
    BY <2>1, SdkAssumption DEF DeliverLogout, Sound, CallForm, Shape
  <2> QED BY <1>2, <2>1, <2>2 DEF DeliverLogout, Sound, RowForm, Family
<1>3. \A f \in ended : Gone(f)'
  BY <1>1, GoneStep DEF Ended
<1>4. \A f \in ended' \ ended : Gone(f)'
  <2> SUFFICES ASSUME NEW f \in ended' \ ended PROVE Gone(f)'
    OBVIOUS
  <2>1. Fam(f)'
    BY <1>2 DEF Quiet
  <2> QED BY <2>1 DEF Fam, Over
<1> QED BY <1>3, <1>4 DEF Ended

-----------------------------------------------------------------------------
(* Pages that were logged out *)

(* Nothing is under way on a page that stays signed out. *)
StaysOut == \A p \in Pages : page[p].out => page[p].held = Nothing /\ On(p) = {}

LEMMA OutKept ==
  ASSUME StaysOut, \A j \in Calls : call'[j].on \in {call[j].on, Nothing},
         \A p \in Pages : page'[p].out => page[p].out /\ page'[p].held \in {page[p].held, Nothing}
  PROVE  StaysOut'
BY SdkAssumption DEF StaysOut, On

LEMMA OutStep ==
  ASSUME Sound, StaysOut, [SdkNext]_sdkVars
  PROVE  StaysOut'
<1>0. /\ Idle.on = Nothing /\ Nothing \notin Pages
      /\ \A j \in Calls : call[j] \in Call /\ (call[j].pc = "idle" => call[j].on = Nothing)
      /\ \A p \in Pages : page[p] \in Page
  BY SdkAssumption DEF Idle, Sound, SdkTypeOK, CallForm, Shape
<1>1. CASE UNCHANGED sdkVars
  BY <1>1 DEF sdkVars, StaysOut, On
<1>2. ASSUME NEW k \in Calls, NEW p \in Pages, NEW kind, page[p].held # Nothing,
             Send(k, kind, p, page[p].held),
             page' = page \/ page' = [page EXCEPT ![p].timer = FALSE]
      PROVE  StaysOut'
  <2>1. \A j \in Calls \ {k} : call'[j] = call[j]
    BY <1>2 DEF Send, Sound, SdkTypeOK
  <2>2. call'[k].on = p
    BY <1>2 DEF Send, Sound, SdkTypeOK, Idle
  <2>3. \A q \in Pages : page'[q].out = page[q].out /\ page'[q].held = page[q].held
    BY <1>0, <1>2 DEF Sound, SdkTypeOK, Page
  <2> QED BY <1>2, <2>1, <2>2, <2>3 DEF StaysOut, On
<1>3. ASSUME NEW k \in Calls, NEW p \in Pages, page' = SignedOut(k, p), call[k].pc = "idle",
             UNCHANGED call
      PROVE  StaysOut'
  <2>1. page'[p].held = Nothing /\ (page'[p].out <=> On(p) \ {k} = {})
    BY <1>0, <1>3 DEF SignedOut, Sound, SdkTypeOK, Page
  <2>2. \A q \in Pages \ {p} : page'[q] = page[q]
    BY <1>3 DEF SignedOut, Sound, SdkTypeOK
  <2>3. k \notin On(p)
    BY <1>0, <1>3 DEF On
  <2> QED BY <1>3, <2>1, <2>2, <2>3 DEF StaysOut, On
<1>4. ASSUME NEW k \in Calls, NEW p \in Pages,
             TimerFires(k, p) \/ Unauthorized(k, p) \/ Logout(k, p)
      PROVE  StaysOut'
  <2>1. CASE page[p].held # Nothing
    BY <1>2, <1>4, <2>1 DEF TimerFires, Unauthorized, Logout, SilentRefresh
  <2>2. CASE page[p].held = Nothing /\ Logout(k, p)
    BY <1>3, <2>2 DEF Logout
  <2>3. CASE page[p].held = Nothing /\ TimerFires(k, p)
    <3>1. \A q \in Pages : page'[q].out = page[q].out /\ page'[q].held = page[q].held
      BY <1>0, <2>3 DEF TimerFires, Sound, SdkTypeOK, Page
    <3> QED BY <2>3, <3>1, OutKept DEF TimerFires
  <2> QED BY <1>4, <2>1, <2>2, <2>3 DEF Unauthorized
<1>5. ASSUME NEW k \in Calls, NEW p \in Pages, Load(k, p) \/ BeginLogin(k, p)
      PROVE  StaysOut'
  <2>1. ~page'[p].out /\ \A q \in Pages \ {p} : page'[q].out = page[q].out /\ page'[q].held = page[q].held
    BY <1>0, <1>5 DEF Load, BeginLogin, Blank, Sound, SdkTypeOK, Page
  <2>2. \A j \in Calls : call'[j].on \in {call[j].on, Nothing, p}
    <3>1. CASE Load(k, p)
      <4>1. \A j \in Calls : Forgotten(p)[j].on \in {call[j].on, Nothing}
        BY <1>0 DEF Forgotten, Call
      <4>2. [[[[Idle EXCEPT !.kind = "restore"] EXCEPT !.on = p] EXCEPT !.pc = "sent"]
               EXCEPT !.sent = saved].on = p
        BY DEF Idle
      <4>3. \A j \in Calls : \/ call'[j] = Forgotten(p)[j]
                            \/ call'[j] = [[[[Idle EXCEPT !.kind = "restore"] EXCEPT !.on = p]
                                            EXCEPT !.pc = "sent"] EXCEPT !.sent = saved]
        BY <3>1 DEF Load, Forgotten
      <4> QED BY <4>1, <4>2, <4>3
    <3>2. CASE BeginLogin(k, p)
      <4>1. \A j \in Calls \ {k} : call'[j] = call[j]
        BY <3>2 DEF BeginLogin, Sound, SdkTypeOK
      <4>2. call'[k].on = p
        BY <3>2 DEF BeginLogin, Sound, SdkTypeOK, Idle
      <4> QED BY <4>1, <4>2
    <3> QED BY <1>5, <3>1, <3>2
  <2> QED BY <1>0, <2>1, <2>2 DEF StaysOut, On
<1>6. ASSUME NEW p \in Pages, ScriptLoads(p) \/ ScriptFails(p) PROVE StaysOut'
  <2>1. \A q \in Pages : page'[q].out = page[q].out /\ page'[q].held = page[q].held
    BY <1>0, <1>6 DEF ScriptLoads, ScriptFails, Sound, SdkTypeOK, Page
  <2>2. \A j \in Calls : call'[j].on \in {call[j].on, Nothing}
    BY <1>0, <1>6 DEF ScriptLoads, ScriptFails, Sound, SdkTypeOK, Call, Idle
  <2> QED BY <2>1, <2>2, OutKept
<1>7. ASSUME NEW k \in Calls, Prompted(k) PROVE StaysOut'
  <2>1. \A q \in Pages : page'[q].out = page[q].out /\ page'[q].held = page[q].held
    BY <1>0, <1>7 DEF Prompted, Sound, SdkTypeOK, Page
  <2>2. \A j \in Calls : call'[j].on \in {call[j].on, Nothing}
    BY <1>0, <1>7 DEF Prompted, Sound, SdkTypeOK, Call, Idle
  <2> QED BY <2>1, <2>2, OutKept
<1>8. ASSUME NEW k \in Calls, Serve(k) PROVE StaysOut'
  <2>1. PICK a : Answered(k, a)
    <3>1. CASE ServeRefresh(k)
      <4>1. call[k].sent \in Tokens /\ row[call[k].sent].state \in {"live", "rotated", "revoked"}
        BY <3>1, SdkAssumption DEF ServeRefresh, Sound, SdkTypeOK, Row, CallForm, Shape, Issued
      <4> QED BY <3>1, <4>1 DEF ServeRefresh, Replies
    <3>2. CASE ServeLogin(k) \/ ServeLogout(k) \/ LoseRequest(k) \/ Refuse(k)
      BY <3>2 DEF ServeLogin, ServeLogout, LoseRequest, Refuse, Replies
    <3> QED BY <1>8, <3>1, <3>2 DEF Serve
  <2>2. \A j \in Calls : call'[j].on \in {call[j].on, Nothing}
    BY <1>0, <2>1 DEF Answered, Sound, SdkTypeOK, Call, Idle
  <2>3. UNCHANGED page
    BY <1>8 DEF Serve, ServeLogin, ServeRefresh, ServeLogout, LoseRequest, Refuse
  <2> QED BY <2>2, <2>3, OutKept
<1>9. ASSUME NEW k \in Calls, Deliver(k) PROVE StaysOut'
  <2>1. /\ call' = [call EXCEPT ![k] = Idle] /\ call[k].on \in Pages /\ k \in On(call[k].on)
        /\ ~page[call[k].on].out
    BY <1>9 DEF Deliver, DeliverTokens, DeliverFailure, DeliverLogout, Sound, CallForm, Shape,
       StaysOut, On
  <2>2. \A j \in Calls : call'[j].on = IF j = k THEN Nothing ELSE call[j].on
    BY <1>0, <2>1 DEF Sound, SdkTypeOK
  <2>3. \A q \in Pages \ {call[k].on} : page'[q].out = page[q].out /\ page'[q].held = page[q].held
    BY <1>0, <1>9 DEF Deliver, DeliverTokens, Stored, DeliverFailure, DeliverLogout, SignedOut,
       Sound, SdkTypeOK, Page
  <2>4. \/ ~page'[call[k].on].out
        \/ page'[call[k].on].held = Nothing /\ On(call[k].on) \ {k} = {}
    BY <1>0, <1>9, <2>1 DEF Deliver, DeliverTokens, Stored, DeliverFailure, DeliverLogout,
       SignedOut, Sound, SdkTypeOK, Page
  <2> QED BY <1>0, <2>1, <2>2, <2>3, <2>4 DEF StaysOut, On
<1> QED BY <1>1, <1>4, <1>5, <1>6, <1>7, <1>8, <1>9 DEF SdkNext

-----------------------------------------------------------------------------
SessionInv == Sound /\ Quiet /\ Dead /\ Ended /\ StaysOut /\ NoSelfRevocation

LEMMA SessionInit == SdkInit => SessionInv
<1> SUFFICES ASSUME SdkInit PROVE SessionInv
  OBVIOUS
<1>1. Sound
  BY SoundInit
<1>2. /\ \A p \in Pages : page[p].held = Nothing /\ ~page[p].out
      /\ \A k \in Calls : call[k].sent = Nothing /\ call[k].answer = Nothing
      /\ saved = Nothing /\ ended = {} /\ reused = {}
      /\ \A t \in Tokens : row[t].state = "unissued"
  BY DEF SdkInit, Blank, Idle
<1>3. Quiet
  BY <1>2, SdkAssumption DEF Quiet, Fam, Alone, Good, Over, In
<1> QED BY <1>1, <1>2, <1>3 DEF SessionInv, Dead, Ended, StaysOut, NoSelfRevocation

LEMMA SessionStep == SessionInv /\ [SdkNext]_sdkVars => SessionInv'
BY SoundStep, QuietNext, EndedStep, OutStep DEF SessionInv

LEMMA SessionLogout == SessionInv => LogoutSticks
<1> SUFFICES ASSUME SessionInv, NEW t \in Live \union ({saved} \ {Nothing}), Family(t) \in ended
             PROVE  FALSE
  BY DEF SessionInv, StaysOut, LogoutSticks
<1>1. t \in Tokens
  BY DEF SessionInv, Sound, SdkTypeOK, Live
<1>2. NoLive(Family(t)) /\ ~In(saved, Family(t))
  BY DEF SessionInv, Ended, Gone
<1> QED BY <1>1, <1>2 DEF Live, NoLive, In, Family

(* Every token, page and call of the frontend SDK is well formed.          *)
THEOREM BrowserTypesHold == SdkSpec => []SdkTypeOK
<1>1. SessionInv => SdkTypeOK
  BY DEF SessionInv, Sound
<1> QED BY SessionInit, SessionStep, <1>1, PTL DEF SdkSpec

(* The SDK does not trip reuse detection by itself: refreshTokens revokes  *)
(* a family for a reused token only after an answer of it was lost or      *)
(* replaced by an error, two requests of it overlapped, or two tabs held   *)
(* it.                                                                     *)
THEOREM NoSelfRevocationHolds == SdkSpec => []NoSelfRevocation
<1>1. SessionInv => NoSelfRevocation
  BY DEF SessionInv
<1> QED BY SessionInit, SessionStep, <1>1, PTL DEF SdkSpec

(* A page stays signed out after logout with nothing else under way, and   *)
(* of a session whose logout was acknowledged no token is ever usable or   *)
(* saved again, unless its family was in trouble before.                   *)
THEOREM LogoutSticksHolds == SdkSpec => []LogoutSticks
BY SessionInit, SessionStep, SessionLogout, PTL DEF SdkSpec

=============================================================================
