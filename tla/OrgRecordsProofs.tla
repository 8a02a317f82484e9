------------------------- MODULE OrgRecordsProofs -------------------------
(***************************************************************************)
(* For any number of users, resources, staff and overlapping calls: what   *)
(* the grants promise, what the reads show, and which rows may be doubled. *)
(*                                                                         *)
(* The invariant has two parts, which share nothing but `call`.  GrantInv  *)
(* follows a grant or a revocation from its first read to its last write:  *)
(* as long as it is not raced, what it read is still so.  RecordInv says   *)
(* the same of a search for a pending request and of the directory sync's  *)
(* search for what it owns.                                                *)
(***************************************************************************)
EXTENDS OrgRecords, SequenceTheorems, TLAPS

GrantOps == Granting \cup Revoking

Found == UNION {[K -> Nat] : K \in SUBSET Key}

GrantCall == [op : GrantOps, user : Users, account : Accounts \cup {None},
              keys : SUBSET Key, found : Found,
              ends : BOOLEAN, revives : BOOLEAN, raced : BOOLEAN]

RequestCall == [op : {"request"}, user : Users, wish : Wishes, raced : BOOLEAN]

MetadataCall == [op : {"update", "delete", "import", "sync"}, staff : Staff,
                 label : Labels \cup {None}, value : Values \cup {None},
                 seen : SUBSET Note, entries : SUBSET (Labels \X Slots \X Values),
                 raced : BOOLEAN]

Call == {Unused, Done} \cup GrantCall \cup RequestCall \cup MetadataCall

CallForm ==
  /\ call \in [Calls -> Call]
  /\ \A c \in Calls : call[c].op = "import" => call[c].label \in Labels /\ call[c].value \in Values

-----------------------------------------------------------------------------
(* Grants.                                                                 *)

\* What a revocation is after.
Target(k) == k.keys \cup (IF k.account = None THEN {} ELSE {<<"func:temporal", k.account>>})

\* No campaign is granted that does not exist.
Exists(ks) == \A k \in ks : k[1] = "campaign" => k[2] \in there

RowsInv == \A u \in Users :
  /\ \A k \in opened[u] : Usable(u, k)
  /\ Exists({k \in Key : Held(u, k)})
  /\ \A k \in Key : AccountOfKey(k) \in closed[u] => ~Held(u, k)

RaceInv == \A c, d \in Calls :
  call[c].op \in Granting /\ call[d].op \in Revoking /\ call[c].user = call[d].user
    => call[c].raced /\ call[d].raced

GrantingInv == \A c \in Calls : call[c].op \in Granting =>
  /\ Exists(call[c].keys)
  /\ \A k \in call[c].keys : AccountOfKey(k) \notin closed[call[c].user]
  /\ call[c].op = "commit" =>
       /\ DOMAIN call[c].found = call[c].keys
       /\ ~call[c].raced => \A k \in call[c].keys : call[c].found[k] # 0 =>
            /\ Held(call[c].user, k)
            /\ grants[call[c].user][k].row = call[c].found[k]

\* What an unraced removal has still to find, or has found.
Covers(k, x) == IF k.op = "collect" THEN x \in Target(k)
                ELSE x \in DOMAIN k.found /\ k.found[x] = grants[k.user][x].row

RevokingInv == \A c \in Calls : call[c].op \in Revoking =>
  /\ Target(call[c]) \cap opened[call[c].user] = {}
  /\ call[c].op # "revoke" => call[c].account # None
  /\ call[c].op # "collect" => DOMAIN call[c].found \subseteq Target(call[c])
  /\ call[c].account # None /\ ~call[c].raced =>
       \A x \in Key : AccountOfKey(x) = call[c].account /\ Held(call[c].user, x)
                        => Covers(call[c], x)

GrantInv == RowsInv /\ RaceInv /\ GrantingInv /\ RevokingInv

-----------------------------------------------------------------------------
(* Records.                                                                *)

\* Two rows that one search should have kept from being two.
RequestsOnce == \A r, q \in requests :
  r # q /\ r.user = q.user /\ r.wish = q.wish /\ r.status = "pending" /\ q.status = "pending"
    => r.raced /\ q.raced

NotesOnce == \A n, m \in notes :
  n.by # m.by /\ n.staff = m.staff
    /\ n.owner = "directory" /\ m.owner = "directory" => n.raced /\ m.raced

RequestInv ==
  /\ RequestsOnce
  /\ \A c \in Calls, r \in requests :
       call[c].op = "request" /\ r \in Pending(call[c].user, call[c].wish)
         => r.raced /\ call[c].raced
  /\ \A c, d \in Calls :
       c # d /\ call[c].op = "request" /\ call[d].op = "request"
         /\ call[c].user = call[d].user /\ call[c].wish = call[d].wish
         => call[c].raced

SyncInv ==
  /\ NotesOnce
  /\ \A c \in Calls : call[c].op = "sync" =>
       \A m \in Owned(call[c].staff) :
         (\E n \in call[c].seen : Same(n, m)) \/ (m.raced /\ call[c].raced)
  /\ \A c, d \in Calls :
       c # d /\ call[c].op = "sync" /\ call[d].op = "sync" /\ call[c].staff = call[d].staff
         => call[c].raced

RecordInv == RequestInv /\ SyncInv

IInv == TypeOK /\ CallForm /\ GrantInv /\ RecordInv

-----------------------------------------------------------------------------
(* Calls: what a call is tells how it is written.                          *)

LEMMA CallKinds ==
  ASSUME NEW k \in Call
  PROVE  /\ k.op \in {"unused", "done", "request", "update", "delete", "import", "sync"}
                      \cup GrantOps
         /\ k.op \in GrantOps => k \in GrantCall
         /\ k.op = "request" => k \in RequestCall
         /\ k.op \in {"update", "delete", "import", "sync"} => k \in MetadataCall
         /\ k = Unused <=> k.op = "unused"
BY DEF Call, Unused, Done, GrantCall, RequestCall, MetadataCall, GrantOps, Granting, Revoking

LEMMA CallTyped ==
  ASSUME IInv, NEW c \in Calls
  PROVE  /\ call[c] \in Call
         /\ call[c].op \in {"unused", "done", "request", "update", "delete", "import", "sync"}
                             \cup GrantOps
         /\ call[c].op \in GrantOps => call[c] \in GrantCall
         /\ call[c].op = "request" => call[c] \in RequestCall
         /\ call[c].op \in {"update", "delete", "import", "sync"} => call[c] \in MetadataCall
         /\ call[c] = Unused <=> call[c].op = "unused"
<1>1. call[c] \in Call
  BY DEF IInv, CallForm
<1> QED BY <1>1, CallKinds

LEMMA NothingFound == <<>> \in Found
<1>1. <<>> \in [{} -> Nat]
  OBVIOUS
<1> QED BY <1>1 DEF Found

LEMMA FoundTyped ==
  ASSUME IInv, NEW u \in Users, NEW ks \in SUBSET Key
  PROVE  /\ FoundHeld(u, ks) \in Found
         /\ DOMAIN FoundHeld(u, ks) = {x \in ks : Held(u, x)}
         /\ \A x \in ks : Held(u, x) => FoundHeld(u, ks)[x] = grants[u][x].row
<1>1. \A x \in Key : grants[u][x].row \in Nat
  BY DEF IInv, TypeOK, Grant
<1>2. FoundHeld(u, ks) \in [{x \in ks : Held(u, x)} -> Nat]
  BY <1>1 DEF FoundHeld
<1>3. {x \in ks : Held(u, x)} \in SUBSET Key
  OBVIOUS
<1> QED BY <1>2, <1>3 DEF Found, FoundHeld

-----------------------------------------------------------------------------
(* What begins a call, and what leaves one half of the system alone.       *)

\* l is k, but that it may have been marked as raced.
Marked(k, l) == l = k \/ l = [k EXCEPT !.raced = TRUE]

LEMMA MarkedGrant ==
  ASSUME NEW k \in GrantCall, NEW l, Marked(k, l)
  PROVE  /\ l \in GrantCall
         /\ l.op = k.op /\ l.user = k.user /\ l.account = k.account
         /\ l.keys = k.keys /\ l.found = k.found
         /\ k.raced => l.raced
         /\ l = [k EXCEPT !.raced = TRUE] => l.raced
         /\ Target(l) = Target(k)
BY DEF Marked, GrantCall, Target

LEMMA BeginStep ==
  ASSUME IInv, NEW c \in Calls, NEW rivals, NEW request, Begin(c, rivals, request),
         c \notin rivals
  PROVE  /\ call[c] = Unused
         /\ call' = [d \in Calls |-> call'[d]]
         /\ call'[c] = [request EXCEPT !.raced = rivals # {}]
         /\ \A d \in Calls \ {c} :
              call'[d] = IF d \in rivals THEN [call[d] EXCEPT !.raced = TRUE] ELSE call[d]
BY DEF Begin

\* Its subject is a grant or a revocation.
LEMMA GrantBegin ==
  ASSUME IInv, NEW c \in Calls, NEW u \in Users, NEW ops \in SUBSET GrantOps,
         NEW request \in GrantCall, Begin(c, InFlight(u, ops), request)
  PROVE  /\ call[c] = Unused
         /\ call' \in [Calls -> Call]
         /\ call'[c] = [request EXCEPT !.raced = InFlight(u, ops) # {}]
         /\ call'[c] \in GrantCall
         /\ \A d \in Calls \ {c} : /\ Marked(call[d], call'[d])
                                   /\ call'[d].op = call[d].op
                                   /\ call[d].op \notin GrantOps => call'[d] = call[d]
                                   /\ d \in InFlight(u, ops) => call'[d].raced
<1>1. call[c] = Unused
  BY DEF Begin
<1>2. c \notin InFlight(u, ops)
  BY <1>1 DEF InFlight, Unused, GrantOps, Granting, Revoking
<1>3. /\ call' = [d \in Calls |-> call'[d]]
      /\ call'[c] = [request EXCEPT !.raced = InFlight(u, ops) # {}]
      /\ \A d \in Calls \ {c} :
           call'[d] = IF d \in InFlight(u, ops) THEN [call[d] EXCEPT !.raced = TRUE] ELSE call[d]
  BY <1>2, BeginStep
<1>4. [request EXCEPT !.raced = InFlight(u, ops) # {}] \in GrantCall
  BY DEF GrantCall
<1>5. ASSUME NEW d \in Calls \ {c}
      PROVE  /\ Marked(call[d], call'[d])
             /\ call'[d].op = call[d].op
             /\ call'[d] \in Call
             /\ call[d].op \notin GrantOps => call'[d] = call[d]
             /\ d \in InFlight(u, ops) => call'[d].raced
  <2>1. CASE d \in InFlight(u, ops)
    <3>1. call[d].op \in GrantOps
      BY <2>1 DEF InFlight
    <3>2. call[d] \in GrantCall
      BY <3>1, CallTyped
    <3>3. call'[d] = [call[d] EXCEPT !.raced = TRUE]
      BY <1>3, <2>1
    <3>4. Marked(call[d], call'[d])
      BY <3>3 DEF Marked
    <3>5. call'[d] \in GrantCall /\ call'[d].op = call[d].op /\ call'[d].raced
      BY <3>2, <3>3, <3>4, MarkedGrant
    <3> QED BY <3>1, <3>4, <3>5 DEF Call
  <2>2. CASE d \notin InFlight(u, ops)
    BY <1>3, <2>2, CallTyped DEF Marked
  <2> QED BY <2>1, <2>2
<1>6. \A d \in Calls : call'[d] \in Call
  BY <1>3, <1>4, <1>5 DEF Call
<1> QED BY <1>1, <1>3, <1>4, <1>5, <1>6

GrantSame == \A d \in Calls : call'[d] = call[d] \/ call'[d].op \notin GrantOps

LEMMA GrantFrame ==
  ASSUME IInv, UNCHANGED grantVars, GrantSame
  PROVE  GrantInv'
<1> USE DEF GrantSame, GrantOps
<1>1. RowsInv'
  BY DEF IInv, GrantInv, RowsInv, grantVars, Usable, Held, Exists
<1>2. RaceInv'
  BY DEF IInv, GrantInv, RaceInv
<1>3. GrantingInv'
  BY DEF IInv, GrantInv, GrantingInv, grantVars, Held, Exists
<1>4. RevokingInv'
  <2> SUFFICES ASSUME NEW c \in Calls, call'[c] = call[c], call[c].op \in Revoking
               PROVE  /\ Target(call[c]) \cap opened[call[c].user] = {}
                      /\ call[c].op # "revoke" => call[c].account # None
                      /\ call[c].op # "collect" => DOMAIN call[c].found \subseteq Target(call[c])
                      /\ call[c].account # None /\ ~call[c].raced =>
                           \A x \in Key : AccountOfKey(x) = call[c].account /\ Held(call[c].user, x)'
                                            => Covers(call[c], x)'
    BY DEF RevokingInv, grantVars, Target
  <2> QED BY DEF IInv, GrantInv, RevokingInv, grantVars, Held, Covers, Target
<1> QED BY <1>1, <1>2, <1>3, <1>4 DEF GrantInv

RecordSame == \A d \in Calls :
  call'[d] = call[d] \/ call'[d].op \notin {"request", "sync"}

LEMMA RequestFrame ==
  ASSUME IInv, UNCHANGED requests, RecordSame
  PROVE  RequestInv'
BY DEF IInv, RecordInv, RequestInv, RequestsOnce, RecordSame, Pending

LEMMA SyncFrame ==
  ASSUME IInv, UNCHANGED notes, RecordSame
  PROVE  SyncInv'
BY DEF IInv, RecordInv, SyncInv, NotesOnce, RecordSame, Owned

LEMMA RecordFrame ==
  ASSUME IInv, UNCHANGED recordVars, RecordSame
  PROVE  RecordInv'
BY RequestFrame, SyncFrame DEF RecordInv, recordVars

-----------------------------------------------------------------------------
(* Grants and revocations begin.                                           *)

\* The other calls are as they were, but that some are marked as raced.
OthersMarked(c) == \A d \in Calls \ {c} :
  /\ Marked(call[d], call'[d])
  /\ call'[d].op = call[d].op
  /\ call[d].op \notin GrantOps => call'[d] = call[d]

LEMMA GrantCallsFrame ==
  ASSUME IInv, NEW c \in Calls, call' \in [Calls -> Call],
         call'[c].op \in GrantOps \cup {"done"}, OthersMarked(c),
         UNCHANGED recordVars
  PROVE  CallForm' /\ RecordInv'
<1>1. call'[c].op \notin {"request", "sync", "import"}
  BY DEF GrantOps, Granting, Revoking
<1>2. RecordSame
  BY <1>1 DEF RecordSame, OthersMarked, GrantOps, Granting, Revoking
<1>3. RecordInv'
  BY <1>2, RecordFrame
<1>4. CallForm'
  BY <1>1 DEF OthersMarked, CallForm, IInv, GrantOps, Granting, Revoking
<1> QED BY <1>3, <1>4

\* What the other calls tell of themselves they still tell.
LEMMA OthersSame ==
  ASSUME IInv, NEW c \in Calls, OthersMarked(c), NEW d \in Calls \ {c},
         call'[d].op \in GrantOps
  PROVE  /\ call[d].op \in GrantOps /\ call[d] \in GrantCall
         /\ call'[d].op = call[d].op /\ call'[d].user = call[d].user
         /\ call'[d].account = call[d].account /\ call'[d].keys = call[d].keys
         /\ call'[d].found = call[d].found
         /\ call[d].raced => call'[d].raced
         /\ Target(call'[d]) = Target(call[d])
BY CallTyped, MarkedGrant DEF OthersMarked

LEMMA BeginGrantInv ==
  ASSUME IInv, NEW c \in Calls, NEW u \in Users, NEW ks \in SUBSET Key, Exists(ks),
         NEW ends \in BOOLEAN, NEW revives \in BOOLEAN,
         BeginGrant(c, u, ks, ends, revives), UNCHANGED <<worldVars, recordVars>>
  PROVE  IInv'
<1> DEFINE request == [Request("upsert", u, None, ks) EXCEPT !.ends = ends, !.revives = revives]
<1>1. /\ Begin(c, InFlight(u, Revoking), request)
      /\ closed' = [closed EXCEPT ![u] = closed[u] \ {AccountOfKey(k) : k \in ks}]
      /\ UNCHANGED <<there, grants, opened>>
  BY DEF BeginGrant
<1>2. /\ request \in GrantCall
      /\ request.op = "upsert" /\ request.user = u /\ request.keys = ks
  BY NothingFound DEF Request, GrantCall, GrantOps, Granting
<1>3. Revoking \in SUBSET GrantOps
  BY DEF GrantOps
<1> HIDE DEF request
<1>4. /\ call[c] = Unused
      /\ call' \in [Calls -> Call]
      /\ call'[c] = [request EXCEPT !.raced = InFlight(u, Revoking) # {}]
      /\ OthersMarked(c)
      /\ \A d \in Calls \ {c} : d \in InFlight(u, Revoking) => call'[d].raced
  BY <1>1, <1>2, <1>3, GrantBegin DEF OthersMarked
<1>5. /\ call'[c].op = "upsert" /\ call'[c].user = u /\ call'[c].keys = ks
      /\ InFlight(u, Revoking) # {} => call'[c].raced
  BY <1>2, <1>4 DEF GrantCall
<1>6. CallForm' /\ RecordInv'
  BY <1>4, <1>5, GrantCallsFrame DEF GrantOps, Granting
<1>7. /\ closed \in [Users -> SUBSET Accounts] /\ closed' \in [Users -> SUBSET Accounts]
      /\ \A v \in Users : closed'[v] \subseteq closed[v]
      /\ \A k \in ks : AccountOfKey(k) \notin closed'[u]
  BY <1>1 DEF IInv, TypeOK
<1>8. TypeOK'
  BY <1>1, <1>7 DEF IInv, TypeOK, worldVars, recordVars
<1>9. RowsInv'
  BY <1>1, <1>7 DEF IInv, GrantInv, RowsInv, Usable, Held, Exists
<1>10. RaceInv'
  <2> SUFFICES ASSUME NEW a \in Calls, NEW b \in Calls,
                      call'[a].op \in Granting, call'[b].op \in Revoking,
                      call'[a].user = call'[b].user
               PROVE  call'[a].raced /\ call'[b].raced
    BY DEF RaceInv
  <2>1. b # c
    BY <1>5 DEF Revoking
  <2>2. call[b].op \in Revoking /\ call[b].user = call'[b].user
    BY <1>4, <2>1, OthersSame DEF GrantOps
  <2>3. CASE a = c
    BY <1>4, <1>5, <2>1, <2>2, <2>3 DEF InFlight
  <2>4. CASE a # c
    BY <1>4, <2>1, <2>2, <2>4, OthersSame DEF GrantOps, IInv, GrantInv, RaceInv
  <2> QED BY <2>3, <2>4
<1>11. GrantingInv'
  <2> SUFFICES ASSUME NEW d \in Calls, call'[d].op \in Granting
               PROVE  /\ Exists(call'[d].keys)
                      /\ \A k \in call'[d].keys : AccountOfKey(k) \notin closed'[call'[d].user]
                      /\ call'[d].op = "commit" =>
                           /\ DOMAIN call'[d].found = call'[d].keys
                           /\ ~call'[d].raced => \A k \in call'[d].keys : call'[d].found[k] # 0 =>
                                /\ Held(call'[d].user, k)
                                /\ grants[call'[d].user][k].row = call'[d].found[k]
    BY <1>1 DEF GrantingInv, Exists, Held
  <2>1. CASE d = c
    BY <1>5, <1>7, <2>1
  <2>2. CASE d # c
    <3>1. /\ call[d].op \in Granting /\ call[d].user \in Users
          /\ call'[d].op = call[d].op /\ call'[d].user = call[d].user
          /\ call'[d].keys = call[d].keys /\ call'[d].found = call[d].found
          /\ call[d].raced => call'[d].raced
      BY <1>4, <2>2, OthersSame DEF GrantOps, GrantCall
    <3> QED BY <1>7, <3>1 DEF IInv, GrantInv, GrantingInv
  <2> QED BY <2>1, <2>2
<1>12. RevokingInv'
  <2> SUFFICES ASSUME NEW d \in Calls, call'[d].op \in Revoking
               PROVE  /\ Target(call'[d]) \cap opened[call'[d].user] = {}
                      /\ call'[d].op # "revoke" => call'[d].account # None
                      /\ call'[d].op # "collect" => DOMAIN call'[d].found \subseteq Target(call'[d])
                      /\ call'[d].account # None /\ ~call'[d].raced =>
                           \A x \in Key : AccountOfKey(x) = call'[d].account
                                          /\ Held(call'[d].user, x) => Covers(call'[d], x)
    BY <1>1 DEF RevokingInv, Held, Covers, Target
  <2>1. d # c
    BY <1>5 DEF Revoking
  <2>2. /\ call[d].op \in Revoking
        /\ call'[d].op = call[d].op /\ call'[d].user = call[d].user
        /\ call'[d].account = call[d].account /\ call'[d].found = call[d].found
        /\ Target(call'[d]) = Target(call[d])
        /\ call[d].raced => call'[d].raced
    BY <1>4, <2>1, OthersSame DEF GrantOps
  <2> QED BY <2>2 DEF IInv, GrantInv, RevokingInv, Covers
<1> QED BY <1>6, <1>8, <1>9, <1>10, <1>11, <1>12 DEF IInv, GrantInv

LEMMA BeginRevokeInv ==
  ASSUME IInv, NEW c \in Calls, NEW u \in Users, NEW request \in GrantCall,
         NEW kept \in SUBSET opened[u],
         request.op \in Revoking, request.user = u, Target(request) \cap kept = {},
         request.op # "revoke" => request.account # None,
         request.op # "collect" => DOMAIN request.found \subseteq Target(request),
         request.account # None =>
           /\ request.op = "collect"
           /\ \A x \in Key : AccountOfKey(x) = request.account /\ Held(u, x) => x \in Target(request),
         Begin(c, InFlight(u, Granting), request),
         opened' = [opened EXCEPT ![u] = kept],
         UNCHANGED <<there, grants, closed, worldVars, recordVars>>
  PROVE  IInv'
<1>1. Granting \in SUBSET GrantOps
  BY DEF GrantOps
<1>2. /\ call[c] = Unused
      /\ call' \in [Calls -> Call]
      /\ call'[c] = [request EXCEPT !.raced = InFlight(u, Granting) # {}]
      /\ OthersMarked(c)
      /\ \A d \in Calls \ {c} : d \in InFlight(u, Granting) => call'[d].raced
  BY <1>1, GrantBegin DEF OthersMarked
<1>3. /\ call'[c].op = request.op /\ call'[c].user = u /\ call'[c].account = request.account
      /\ call'[c].found = request.found /\ Target(call'[c]) = Target(request)
      /\ InFlight(u, Granting) # {} => call'[c].raced
  BY <1>2 DEF GrantCall, Target
<1>4. CallForm' /\ RecordInv'
  BY <1>2, <1>3, GrantCallsFrame DEF GrantOps
<1>5. /\ opened \in [Users -> SUBSET Key] /\ opened' \in [Users -> SUBSET Key]
      /\ \A v \in Users : opened'[v] \subseteq opened[v]
      /\ opened'[u] = kept
  BY DEF IInv, TypeOK
<1>6. TypeOK'
  BY <1>5 DEF IInv, TypeOK, worldVars, recordVars
<1>7. RowsInv'
  BY <1>5 DEF IInv, GrantInv, RowsInv, Usable, Held, Exists
<1>8. RaceInv'
  <2> SUFFICES ASSUME NEW a \in Calls, NEW b \in Calls,
                      call'[a].op \in Granting, call'[b].op \in Revoking,
                      call'[a].user = call'[b].user
               PROVE  call'[a].raced /\ call'[b].raced
    BY DEF RaceInv
  <2>1. a # c
    BY <1>3 DEF Granting, Revoking
  <2>2. call[a].op \in Granting /\ call[a].user = call'[a].user
    BY <1>2, <2>1, OthersSame DEF GrantOps
  <2>3. CASE b = c
    BY <1>2, <1>3, <2>1, <2>2, <2>3 DEF InFlight
  <2>4. CASE b # c
    BY <1>2, <2>1, <2>2, <2>4, OthersSame DEF GrantOps, IInv, GrantInv, RaceInv
  <2> QED BY <2>3, <2>4
<1>9. GrantingInv'
  <2> SUFFICES ASSUME NEW d \in Calls, call'[d].op \in Granting
               PROVE  /\ Exists(call'[d].keys)
                      /\ \A k \in call'[d].keys : AccountOfKey(k) \notin closed[call'[d].user]
                      /\ call'[d].op = "commit" =>
                           /\ DOMAIN call'[d].found = call'[d].keys
                           /\ ~call'[d].raced => \A k \in call'[d].keys : call'[d].found[k] # 0 =>
                                /\ Held(call'[d].user, k)
                                /\ grants[call'[d].user][k].row = call'[d].found[k]
    BY DEF GrantingInv, Exists, Held
  <2>1. d # c
    BY <1>3 DEF Granting, Revoking
  <2>2. /\ call[d].op \in Granting
        /\ call'[d].op = call[d].op /\ call'[d].user = call[d].user
        /\ call'[d].keys = call[d].keys /\ call'[d].found = call[d].found
        /\ call[d].raced => call'[d].raced
    BY <1>2, <2>1, OthersSame DEF GrantOps
  <2> QED BY <2>2 DEF IInv, GrantInv, GrantingInv
<1>10. RevokingInv'
  <2> SUFFICES ASSUME NEW d \in Calls, call'[d].op \in Revoking
               PROVE  /\ Target(call'[d]) \cap opened'[call'[d].user] = {}
                      /\ call'[d].op # "revoke" => call'[d].account # None
                      /\ call'[d].op # "collect" => DOMAIN call'[d].found \subseteq Target(call'[d])
                      /\ call'[d].account # None /\ ~call'[d].raced =>
                           \A x \in Key : AccountOfKey(x) = call'[d].account
                                          /\ Held(call'[d].user, x) => Covers(call'[d], x)
    BY DEF RevokingInv, Held, Covers, Target
  <2>1. CASE d = c
    BY <1>3, <1>5, <2>1 DEF Covers
  <2>2. CASE d # c
    <3>1. /\ call[d].op \in Revoking /\ call[d].user \in Users
          /\ call'[d].op = call[d].op /\ call'[d].user = call[d].user
          /\ call'[d].account = call[d].account /\ call'[d].found = call[d].found
          /\ Target(call'[d]) = Target(call[d])
          /\ call[d].raced => call'[d].raced
      BY <1>2, <2>2, OthersSame DEF GrantOps, GrantCall
    <3> QED BY <1>5, <3>1 DEF IInv, GrantInv, RevokingInv, Covers
  <2> QED BY <2>1, <2>2
<1> QED BY <1>4, <1>6, <1>7, <1>8, <1>9, <1>10 DEF IInv, GrantInv

-----------------------------------------------------------------------------
(* The requests that begin.                                                *)

LEMMA FamilyTyped ==
  ASSUME IInv, NEW a \in Accounts, NEW ks \in SUBSET there
  PROVE  Family(a, ks) \in SUBSET Key /\ Exists(Family(a, ks))
BY DEF Family, Key, Exists, IInv, TypeOK

LEMMA GrantFullAccountAccessInv ==
  ASSUME IInv, NEW c \in Calls, NEW u \in Users, NEW a \in Accounts, NEW ends \in BOOLEAN,
         GrantFullAccountAccess(c, u, a, ends), UNCHANGED <<worldVars, recordVars>>
  PROVE  IInv'
<1> DEFINE ks == Family(a, CampaignsOf(a)) \cup {<<"func:temporal", a>>}
<1>1. Family(a, CampaignsOf(a)) \in SUBSET Key /\ Exists(Family(a, CampaignsOf(a)))
  BY FamilyTyped DEF CampaignsOf
<1>2. ks \in SUBSET Key /\ Exists(ks)
  BY <1>1 DEF Key, Exists
<1>3. BeginGrant(c, u, ks, ends, FALSE)
  BY DEF GrantFullAccountAccess
<1> HIDE DEF ks
<1> QED BY <1>2, <1>3, BeginGrantInv

LEMMA GrantAccountAccessInv ==
  ASSUME IInv, NEW c \in Calls, NEW u \in Users, NEW a \in Accounts, NEW ks \in SUBSET there,
         NEW ends \in BOOLEAN, GrantAccountAccess(c, u, a, ks, ends),
         UNCHANGED <<worldVars, recordVars>>
  PROVE  IInv'
<1>1. Family(a, ks) \in SUBSET Key /\ Exists(Family(a, ks))
  BY FamilyTyped
<1>2. BeginGrant(c, u, Family(a, ks), ends, TRUE)
  BY DEF GrantAccountAccess
<1> QED BY <1>1, <1>2, BeginGrantInv

LEMMA RevokeAccessInv ==
  ASSUME IInv, NEW c \in Calls, NEW u \in Users, NEW k \in Key,
         RevokeAccess(c, u, k), UNCHANGED <<worldVars, recordVars>>
  PROVE  IInv'
<1> DEFINE ks == IF Held(u, k) THEN {k} ELSE {}
           request == [Request("revoke", u, None, ks) EXCEPT !.found = FoundHeld(u, ks)]
           kept == opened[u] \ {k}
<1>1. /\ Begin(c, InFlight(u, Granting), request)
      /\ opened' = [opened EXCEPT ![u] = kept]
      /\ UNCHANGED <<there, grants, closed>>
  BY DEF RevokeAccess
<1>2. ks \in SUBSET Key /\ k \notin kept /\ ks \subseteq {k} /\ kept \in SUBSET opened[u]
  OBVIOUS
<1> HIDE DEF ks, kept
<1>3. FoundHeld(u, ks) \in Found /\ DOMAIN FoundHeld(u, ks) \subseteq ks
  BY <1>2, FoundTyped
<1>4. /\ request \in GrantCall
      /\ request.op = "revoke" /\ request.user = u /\ request.account = None
      /\ Target(request) = ks /\ request.found = FoundHeld(u, ks)
  BY <1>2, <1>3 DEF Request, GrantCall, GrantOps, Revoking, Target
<1> HIDE DEF request
<1>5. request.op \in Revoking /\ Target(request) \cap kept = {}
  BY <1>2, <1>4 DEF Revoking
<1> QED BY <1>1, <1>2, <1>3, <1>4, <1>5, BeginRevokeInv

LEMMA RevokeFullAccountAccessInv ==
  ASSUME IInv, NEW c \in Calls, NEW u \in Users, NEW a \in Accounts,
         RevokeFullAccountAccess(c, u, a), UNCHANGED <<worldVars, recordVars>>
  PROVE  IInv'
<1> DEFINE ks == Family(a, CampaignsOf(a))
           request == Request("collect", u, a, ks)
           kept == {k \in opened[u] : AccountOfKey(k) # a}
<1>1. /\ Begin(c, InFlight(u, Granting), request)
      /\ opened' = [opened EXCEPT ![u] = kept]
      /\ UNCHANGED <<there, grants, closed>>
  BY DEF RevokeFullAccountAccess
<1>2. ks \in SUBSET Key
  BY FamilyTyped DEF CampaignsOf
<1>3. \A k \in ks \cup {<<"func:temporal", a>>} : AccountOfKey(k) = a
  BY DEF Family, CampaignsOf, AccountOfKey
<1>4. \A x \in Key : AccountOfKey(x) = a /\ Held(u, x) => x \in ks \cup {<<"func:temporal", a>>}
  <2> SUFFICES ASSUME NEW x \in Key, AccountOfKey(x) = a, Held(u, x)
               PROVE  x \in ks \cup {<<"func:temporal", a>>}
    OBVIOUS
  <2>1. x[1] = "campaign" => x[2] \in there
    BY DEF IInv, GrantInv, RowsInv, Exists
  <2>2. x = <<x[1], x[2]>> /\ x[1] \in {"account", "func:temporal", "campaign"}
    BY DEF Key
  <2> QED BY <2>1, <2>2 DEF AccountOfKey, Family, CampaignsOf
<1>5. kept \in SUBSET opened[u] /\ (ks \cup {<<"func:temporal", a>>}) \cap kept = {}
  BY <1>3
<1> HIDE DEF ks, kept
<1>6. a # None
  BY GrantAssumption
<1>7. /\ request \in GrantCall
      /\ request.op = "collect" /\ request.user = u /\ request.account = a
      /\ Target(request) = ks \cup {<<"func:temporal", a>>}
  BY <1>2, <1>6, NothingFound DEF Request, GrantCall, GrantOps, Revoking, Target
<1> HIDE DEF request
<1>8. request.op \in Revoking
  BY <1>7 DEF Revoking
<1> QED BY <1>1, <1>4, <1>5, <1>6, <1>7, <1>8, BeginRevokeInv

-----------------------------------------------------------------------------
(* The reads of a grant and of a removal.                                  *)

\* A call of a grant or a revocation takes its next step; the others stand still.
NextOf(c) ==
  /\ call[c] \in GrantCall /\ call'[c] \in GrantCall
  /\ call'[c].user = call[c].user /\ call'[c].account = call[c].account
  /\ call'[c].keys = call[c].keys /\ call'[c].raced = call[c].raced
  /\ call'[c].op \in Granting <=> call[c].op \in Granting
  /\ Target(call'[c]) = Target(call[c])
  /\ call' \in [Calls -> Call]
  /\ \A d \in Calls \ {c} : call'[d] = call[d]

LEMMA NextOfStep ==
  ASSUME IInv, NEW c \in Calls, call[c].op \in GrantOps,
         NEW op \in GrantOps, NEW found \in Found,
         call' = [call EXCEPT ![c].op = op, ![c].found = found],
         op \in Granting <=> call[c].op \in Granting
  PROVE  NextOf(c) /\ call'[c].op = op /\ call'[c].found = found
<1>1. call[c] \in GrantCall /\ call \in [Calls -> Call]
  BY CallTyped DEF IInv, CallForm
<1>2. /\ call'[c] \in GrantCall
      /\ call'[c].op = op /\ call'[c].found = found
      /\ call'[c].user = call[c].user /\ call'[c].account = call[c].account
      /\ call'[c].keys = call[c].keys /\ call'[c].raced = call[c].raced
      /\ \A d \in Calls \ {c} : call'[d] = call[d]
  BY <1>1 DEF GrantCall
<1>3. call' \in [Calls -> Call] /\ Target(call'[c]) = Target(call[c])
  BY <1>1, <1>2 DEF Call, Target
<1> QED BY <1>1, <1>2, <1>3 DEF NextOf

\* It has read, and nothing else has changed.
LEMMA ReadInv ==
  ASSUME IInv, NEW c \in Calls, NextOf(c),
         call'[c].op = "commit" =>
           /\ DOMAIN call'[c].found = call[c].keys
           /\ \A k \in call[c].keys : call'[c].found[k] # 0 =>
                /\ Held(call[c].user, k)
                /\ grants[call[c].user][k].row = call'[c].found[k],
         call'[c].op \in Revoking =>
           /\ call[c].op # "revoke" /\ call'[c].op # "collect"
           /\ DOMAIN call'[c].found \subseteq Target(call[c])
           /\ ~call[c].raced =>
                \A x \in Key : AccountOfKey(x) = call[c].account /\ Held(call[c].user, x)
                  => /\ x \in DOMAIN call'[c].found
                     /\ call'[c].found[x] = grants[call[c].user][x].row,
         UNCHANGED <<grantVars, worldVars, recordVars>>
  PROVE  IInv'
<1>1. /\ UNCHANGED there /\ UNCHANGED grants /\ UNCHANGED opened /\ UNCHANGED closed
      /\ UNCHANGED recordVars
  BY DEF grantVars
<1>2. OthersMarked(c) /\ call'[c].op \in GrantOps /\ call' \in [Calls -> Call]
  BY DEF OthersMarked, Marked, NextOf, GrantCall
<1>3. CallForm' /\ RecordInv'
  BY <1>1, <1>2, GrantCallsFrame
<1>4. TypeOK' /\ RowsInv'
  BY <1>1 DEF IInv, GrantInv, TypeOK, RowsInv, worldVars, recordVars, Usable, Held, Exists
<1>5. \A d \in Calls : call'[d].op \in GrantOps =>
        /\ call[d].op \in GrantOps
        /\ call'[d].user = call[d].user /\ call'[d].account = call[d].account
        /\ call'[d].keys = call[d].keys /\ call'[d].raced = call[d].raced
        /\ Target(call'[d]) = Target(call[d])
        /\ call'[d].op \in Granting <=> call[d].op \in Granting
        /\ d # c => call'[d] = call[d]
  BY DEF NextOf, GrantCall
<1>6. RaceInv'
  <2> SUFFICES ASSUME NEW a \in Calls, NEW b \in Calls,
                      call'[a].op \in Granting, call'[b].op \in Revoking,
                      call'[a].user = call'[b].user
               PROVE  call'[a].raced /\ call'[b].raced
    BY DEF RaceInv
  <2>1. call[a].op \in Granting /\ call[b].op \in Revoking
    BY <1>5 DEF GrantOps, Granting, Revoking
  <2> QED BY <1>5, <2>1 DEF GrantOps, IInv, GrantInv, RaceInv
<1>7. GrantingInv'
  <2> SUFFICES ASSUME NEW d \in Calls, call'[d].op \in Granting
               PROVE  /\ Exists(call'[d].keys)
                      /\ \A k \in call'[d].keys : AccountOfKey(k) \notin closed[call'[d].user]
                      /\ call'[d].op = "commit" =>
                           /\ DOMAIN call'[d].found = call'[d].keys
                           /\ ~call'[d].raced => \A k \in call'[d].keys : call'[d].found[k] # 0 =>
                                /\ Held(call'[d].user, k)
                                /\ grants[call'[d].user][k].row = call'[d].found[k]
    BY <1>1 DEF GrantingInv, Exists, Held
  <2>1. call[d].op \in Granting
    BY <1>5 DEF GrantOps
  <2>2. /\ Exists(call[d].keys)
        /\ \A k \in call[d].keys : AccountOfKey(k) \notin closed[call[d].user]
    BY <2>1 DEF IInv, GrantInv, GrantingInv
  <2>3. CASE d = c
    BY <1>5, <2>2, <2>3 DEF GrantOps
  <2>4. CASE d # c
    BY <1>5, <2>1, <2>4 DEF GrantOps, IInv, GrantInv, GrantingInv
  <2> QED BY <2>3, <2>4
<1>8. RevokingInv'
  <2> SUFFICES ASSUME NEW d \in Calls, call'[d].op \in Revoking
               PROVE  /\ Target(call'[d]) \cap opened[call'[d].user] = {}
                      /\ call'[d].op # "revoke" => call'[d].account # None
                      /\ call'[d].op # "collect" => DOMAIN call'[d].found \subseteq Target(call'[d])
                      /\ call'[d].account # None /\ ~call'[d].raced =>
                           \A x \in Key : AccountOfKey(x) = call'[d].account
                                          /\ Held(call'[d].user, x) => Covers(call'[d], x)
    BY <1>1 DEF RevokingInv, Held, Covers, Target
  <2>1. call[d].op \in Revoking
    BY <1>5 DEF GrantOps, Granting, Revoking
  <2>2. CASE d = c
    <3>1. Target(call[c]) \cap opened[call[c].user] = {} /\ (call[c].op # "revoke" => call[c].account # None)
      BY <2>1, <2>2 DEF IInv, GrantInv, RevokingInv
    <3> QED BY <1>5, <2>2, <3>1 DEF GrantOps, Covers
  <2>3. CASE d # c
    BY <1>5, <2>1, <2>3 DEF GrantOps, IInv, GrantInv, RevokingInv
  <2> QED BY <2>2, <2>3
<1> QED BY <1>3, <1>4, <1>6, <1>7, <1>8 DEF IInv, GrantInv

LEMMA FindGrantsInv ==
  ASSUME IInv, NEW c \in Calls, FindGrants(c), UNCHANGED <<worldVars, recordVars>>
  PROVE  IInv'
<1> DEFINE u == call[c].user
           ks == call[c].keys
           found == [k \in ks |-> IF Held(u, k) THEN grants[u][k].row ELSE 0]
<1>1. /\ call[c].op = "upsert" /\ UNCHANGED grantVars
      /\ call' = [call EXCEPT ![c].op = "commit", ![c].found = found]
  BY DEF FindGrants
<1>2. u \in Users /\ ks \in SUBSET Key
  BY <1>1, CallTyped DEF GrantCall, GrantOps, Granting
<1>3. \A k \in Key : grants[u][k].row \in Nat
  BY <1>2 DEF IInv, TypeOK, Grant
<1>4. found \in [ks -> Nat]
  BY <1>2, <1>3
<1>5. /\ found \in Found /\ DOMAIN found = ks
      /\ \A k \in ks : found[k] # 0 => Held(u, k) /\ grants[u][k].row = found[k]
  BY <1>2, <1>4 DEF Found
<1> HIDE DEF found
<1>6. NextOf(c) /\ call'[c].op = "commit" /\ call'[c].found = found
  BY <1>1, <1>5, NextOfStep DEF GrantOps, Granting
<1> QED BY <1>1, <1>5, <1>6, ReadInv DEF Revoking

LEMMA CollectGrantsInv ==
  ASSUME IInv, NEW c \in Calls, CollectGrants(c), UNCHANGED <<worldVars, recordVars>>
  PROVE  IInv'
<1> DEFINE u == call[c].user
           ks == call[c].keys \cup {<<"func:temporal", call[c].account>>}
           found == FoundHeld(u, ks)
<1>1. /\ call[c].op = "collect" /\ UNCHANGED grantVars
      /\ call' = [call EXCEPT ![c].op = "collect_func", ![c].found = found]
  BY DEF CollectGrants
<1>2. call[c].op \in GrantOps /\ call[c].op \in Revoking
  BY <1>1 DEF GrantOps, Revoking
<1>3. call[c].account # None
  BY <1>1, <1>2 DEF IInv, GrantInv, RevokingInv
<1>4. call[c] \in GrantCall
  BY <1>2, CallTyped
<1>5. u \in Users /\ ks \in SUBSET Key /\ ks = Target(call[c])
  BY <1>3, <1>4 DEF GrantCall, Key, Target
<1>6. ~call[c].raced =>
        \A x \in Key : AccountOfKey(x) = call[c].account /\ Held(u, x) => x \in ks
  BY <1>1, <1>2, <1>3, <1>5 DEF IInv, GrantInv, RevokingInv, Covers
<1> HIDE DEF ks
<1>7. /\ found \in Found /\ DOMAIN found \subseteq Target(call[c])
      /\ \A x \in ks : Held(u, x) => x \in DOMAIN found /\ found[x] = grants[u][x].row
  <2>1. /\ found \in Found
        /\ DOMAIN found = {x \in ks : Held(u, x)}
        /\ \A x \in ks : Held(u, x) => found[x] = grants[u][x].row
    BY <1>5, FoundTyped
  <2> QED BY <1>5, <2>1
<1> HIDE DEF found
<1>8. NextOf(c) /\ call'[c].op = "collect_func" /\ call'[c].found = found
  <2>1. /\ "collect_func" \in GrantOps /\ "collect_func" \notin Granting
        /\ call[c].op \in GrantOps /\ call[c].op \notin Granting
    BY <1>1 DEF GrantOps, Granting, Revoking
  <2>2. found \in Found
    BY <1>7
  <2>3. call' = [call EXCEPT ![c].op = "collect_func", ![c].found = found]
    BY <1>1
  <2> QED BY <2>1, <2>2, <2>3, NextOfStep
<1>9. ~call[c].raced =>
       \A x \in Key : AccountOfKey(x) = call[c].account /\ Held(call[c].user, x)
         => /\ x \in DOMAIN call'[c].found
            /\ call'[c].found[x] = grants[call[c].user][x].row
  BY <1>5, <1>6, <1>7, <1>8
<1>10. /\ call'[c].op # "commit" /\ call[c].op # "revoke" /\ call'[c].op # "collect"
      /\ DOMAIN call'[c].found \subseteq Target(call[c])
  BY <1>1, <1>7, <1>8
<1>11. UNCHANGED <<grantVars, worldVars, recordVars>>
  BY <1>1
<1> QED BY <1>8, <1>9, <1>10, <1>11, ReadInv

LEMMA CollectFunctionalInv ==
  ASSUME IInv, NEW c \in Calls, CollectFunctional(c), UNCHANGED <<worldVars, recordVars>>
  PROVE  IInv'
<1> DEFINE u == call[c].user
           ks == {<<"func:temporal", call[c].account>>}
           func == FoundHeld(u, ks)
           both == call[c].found
           found == [k \in DOMAIN both \cup DOMAIN func |->
                       IF k \in DOMAIN func THEN func[k] ELSE both[k]]
<1>1. /\ call[c].op = "collect_func" /\ UNCHANGED grantVars
      /\ call' = [call EXCEPT ![c].op = "revoke", ![c].found = found]
  BY DEF CollectFunctional
<1>2. call[c].op \in GrantOps /\ call[c].op \in Revoking
  BY <1>1 DEF GrantOps, Revoking
<1>3. call[c].account # None /\ DOMAIN both \subseteq Target(call[c])
  BY <1>1, <1>2 DEF IInv, GrantInv, RevokingInv
<1>4. call[c] \in GrantCall
  BY <1>2, CallTyped
<1>5. u \in Users /\ ks \in SUBSET Key /\ ks \subseteq Target(call[c]) /\ both \in Found
  BY <1>3, <1>4 DEF GrantCall, Key, Target
<1>6. ~call[c].raced =>
        \A x \in Key : AccountOfKey(x) = call[c].account /\ Held(u, x)
                         => x \in DOMAIN both /\ both[x] = grants[u][x].row
  BY <1>1, <1>2, <1>3 DEF IInv, GrantInv, RevokingInv, Covers
<1> HIDE DEF ks
<1>7. /\ func \in Found /\ DOMAIN func \subseteq ks
      /\ \A x \in DOMAIN func : func[x] = grants[u][x].row
  <2>1. /\ func \in Found
        /\ DOMAIN func = {x \in ks : Held(u, x)}
        /\ \A x \in ks : Held(u, x) => func[x] = grants[u][x].row
    BY <1>5, FoundTyped
  <2> QED BY <2>1
<1> HIDE DEF func, both
<1>8. found \in [DOMAIN both \cup DOMAIN func -> Nat] /\ DOMAIN both \cup DOMAIN func \in SUBSET Key
  BY <1>5, <1>7 DEF Found
<1>9. found \in Found /\ DOMAIN found \subseteq Target(call[c])
  BY <1>3, <1>5, <1>7, <1>8 DEF Found
<1>10. ~call[c].raced =>
         \A x \in Key : AccountOfKey(x) = call[c].account /\ Held(u, x)
                          => x \in DOMAIN found /\ found[x] = grants[u][x].row
  BY <1>6, <1>7
<1> HIDE DEF found
<1>11. NextOf(c) /\ call'[c].op = "revoke" /\ call'[c].found = found
  <2>1. /\ "revoke" \in GrantOps /\ "revoke" \notin Granting
        /\ call[c].op \in GrantOps /\ call[c].op \notin Granting
    BY <1>1 DEF GrantOps, Granting, Revoking
  <2>2. found \in Found
    BY <1>9
  <2>3. call' = [call EXCEPT ![c].op = "revoke", ![c].found = found]
    BY <1>1
  <2> QED BY <2>1, <2>2, <2>3, NextOfStep
<1>12. ~call[c].raced =>
       \A x \in Key : AccountOfKey(x) = call[c].account /\ Held(call[c].user, x)
         => /\ x \in DOMAIN call'[c].found
            /\ call'[c].found[x] = grants[call[c].user][x].row
  BY <1>10, <1>11
<1>13. /\ call'[c].op # "commit" /\ call[c].op # "revoke" /\ call'[c].op # "collect"
      /\ DOMAIN call'[c].found \subseteq Target(call[c])
  BY <1>1, <1>9, <1>11
<1>14. UNCHANGED <<grantVars, worldVars, recordVars>>
  BY <1>1
<1> QED BY <1>11, <1>12, <1>13, <1>14, ReadInv

-----------------------------------------------------------------------------
(* The writes, and the world.                                              *)

\* A grant that does not collide keeps what is held, and opens what was found.
LEMMA UpsertedFacts ==
  ASSUME NEW g \in Grant, NEW row \in Nat, NEW ends \in BOOLEAN, NEW revives \in BOOLEAN,
         ~Collides(g, row, revives)
  PROVE  LET n == Upserted(g, row, ends, revives) IN
         /\ n \in Grant
         /\ g.state # "none" => n.state # "none" /\ n.row = g.row
         /\ g.state \in {"live", "ending"} => n.state \in {"live", "ending"}
         /\ (row # 0 => g.state # "none" /\ g.row = row) => n.state \in {"live", "ending"}
<1> DEFINE state == IF ends THEN "ending" ELSE "live"
           n == Upserted(g, row, ends, revives)
<1>1. state \in {"live", "ending"}
  OBVIOUS
<1> HIDE DEF state
<1>2. CASE row = 0
  <2>1. n = [state |-> state, row |-> g.made + 1, made |-> g.made + 1] /\ g.state = "none"
    BY <1>2 DEF Upserted, Collides, state
  <2> QED BY <1>1, <1>2, <2>1 DEF Grant
<1>3. CASE row # 0 /\ g.state # "none" /\ g.row = row
  <2>1. n = [g EXCEPT !.state = state]
    BY <1>3 DEF Upserted, state
  <2> QED BY <1>1, <1>3, <2>1 DEF Grant
<1>4. CASE row # 0 /\ g.state = "none" /\ revives
  <2>1. n = [g EXCEPT !.state = state, !.row = row]
    BY <1>4 DEF Upserted, state
  <2> QED BY <1>1, <1>4, <2>1 DEF Grant
<1>5. CASE row # 0 /\ ~(g.state # "none" /\ g.row = row) /\ ~(g.state = "none" /\ revives)
  <2>1. n = g
    BY <1>5 DEF Upserted
  <2> QED BY <1>5, <2>1
<1> QED BY <1>2, <1>3, <1>4, <1>5

\* The call is over, and what it wrote concerns one user.
LEMMA DoneCalls ==
  ASSUME IInv, NEW c \in Calls, call[c].op \in GrantOps, call' = [call EXCEPT ![c] = Done],
         UNCHANGED recordVars
  PROVE  /\ CallForm' /\ RecordInv' /\ RaceInv' /\ GrantSame
         /\ call'[c].op = "done" /\ call'[c].op \notin GrantOps
         /\ \A d \in Calls \ {c} : call'[d] = call[d]
<1>1. /\ call \in [Calls -> Call]
      /\ Done \in Call /\ Done.op = "done" /\ Done.op \notin GrantOps
  BY DEF IInv, CallForm, Call, Done, GrantOps, Granting, Revoking
<1>2. /\ call' \in [Calls -> Call] /\ call'[c] = Done
      /\ \A d \in Calls \ {c} : call'[d] = call[d]
  BY <1>1
<1>3. OthersMarked(c)
  BY <1>2 DEF OthersMarked, Marked
<1>4. CallForm' /\ RecordInv'
  BY <1>1, <1>2, <1>3, GrantCallsFrame
<1>5. RaceInv'
  BY <1>1, <1>2 DEF IInv, GrantInv, RaceInv, GrantOps
<1>6. GrantSame
  BY <1>1, <1>2 DEF GrantSame
<1> QED BY <1>1, <1>2, <1>4, <1>5, <1>6

LEMMA CommitGrantsInv ==
  ASSUME IInv, NEW c \in Calls, CommitGrants(c), UNCHANGED <<worldVars, recordVars>>
  PROVE  IInv'
<1> DEFINE u == call[c].user
           ks == call[c].keys
           found == call[c].found
           new(k) == Upserted(grants[u][k], found[k], call[c].ends, call[c].revives)
           collides == \E k \in ks : Collides(grants[u][k], found[k], call[c].revives)
<1>1. call[c].op = "commit" /\ call' = [call EXCEPT ![c] = Done] /\ UNCHANGED <<there, closed>>
  BY DEF CommitGrants
<1>2. call[c].op \in GrantOps /\ call[c].op \in Granting
  BY <1>1 DEF GrantOps, Granting
<1>3. /\ CallForm' /\ RecordInv' /\ RaceInv' /\ GrantSame
      /\ call'[c].op \notin GrantOps
      /\ \A d \in Calls \ {c} : call'[d] = call[d]
  BY <1>1, <1>2, DoneCalls
<1>4. CASE collides
  <2>1. UNCHANGED <<grants, opened>>
    BY <1>4 DEF CommitGrants
  <2>2. GrantInv'
    BY <1>1, <1>3, <2>1, GrantFrame DEF grantVars
  <2>3. TypeOK'
    BY <1>1, <2>1 DEF IInv, TypeOK, worldVars, recordVars
  <2> QED BY <1>3, <2>2, <2>3 DEF IInv
<1>5. CASE ~collides
  <2>1. /\ grants' = [grants EXCEPT ![u] =
                        [k \in Key |-> IF k \in ks THEN new(k) ELSE grants[u][k]]]
        /\ opened' = [opened EXCEPT ![u] = IF call[c].raced THEN opened[u] ELSE opened[u] \cup ks]
    BY <1>5 DEF CommitGrants
  <2>2. call[c] \in GrantCall
    BY <1>2, CallTyped
  <2>3. /\ u \in Users /\ ks \in SUBSET Key /\ found \in Found
        /\ call[c].ends \in BOOLEAN /\ call[c].revives \in BOOLEAN
    BY <2>2 DEF GrantCall
  <2>4. /\ grants \in [Users -> [Key -> Grant]] /\ opened \in [Users -> SUBSET Key]
        /\ DOMAIN found = ks
        /\ Exists(ks)
        /\ \A k \in ks : AccountOfKey(k) \notin closed[u]
        /\ ~call[c].raced => \A k \in ks : found[k] # 0 => Held(u, k) /\ grants[u][k].row = found[k]
    BY <1>1, <1>2 DEF IInv, TypeOK, GrantInv, GrantingInv
  <2>5. ASSUME NEW k \in ks
        PROVE  /\ new(k) \in Grant
               /\ grants[u][k].state # "none" => new(k).state # "none" /\ new(k).row = grants[u][k].row
               /\ grants[u][k].state \in {"live", "ending"} => new(k).state \in {"live", "ending"}
               /\ ~call[c].raced => new(k).state \in {"live", "ending"}
    <3>1. grants[u][k] \in Grant /\ found[k] \in Nat
      BY <2>3, <2>4 DEF Found
    <3>2. ~Collides(grants[u][k], found[k], call[c].revives)
      BY <1>5
    <3> HIDE DEF found
    <3>3. ~call[c].raced => (found[k] # 0 => grants[u][k].state # "none" /\ grants[u][k].row = found[k])
      BY <2>4 DEF Held
    <3> QED BY <2>3, <3>1, <3>2, <3>3, UpsertedFacts
  <2> HIDE DEF new, collides, found
  <2>6. /\ grants' \in [Users -> [Key -> Grant]]
        /\ \A v \in Users, k \in Key : grants'[v][k] = IF v = u /\ k \in ks THEN new(k) ELSE grants[v][k]
        /\ opened' \in [Users -> SUBSET Key]
        /\ \A v \in Users : \A k \in opened'[v] :
             k \in opened[v] \/ (v = u /\ k \in ks /\ ~call[c].raced)
    BY <2>1, <2>3, <2>4, <2>5
  <2>7. \A v \in Users, k \in Key :
          /\ Held(v, k) => Held(v, k)' /\ grants'[v][k].row = grants[v][k].row
          /\ Usable(v, k) => Usable(v, k)'
          /\ Held(v, k)' => Held(v, k) \/ (v = u /\ k \in ks)
          /\ v # u => grants'[v][k] = grants[v][k]
    BY <2>5, <2>6 DEF Held, Usable
  <2>8. \A v \in Users : \A k \in Key : v = u /\ k \in ks /\ ~call[c].raced => Usable(v, k)'
    BY <2>3, <2>5, <2>6 DEF Usable
  <2>9. TypeOK'
    BY <1>1, <2>6 DEF IInv, TypeOK, worldVars, recordVars
  <2>10. RowsInv'
    <3>1. \A v \in Users : \A k \in opened'[v] : Usable(v, k)'
      BY <2>4, <2>6, <2>7, <2>8 DEF IInv, GrantInv, RowsInv
    <3>2. \A v \in Users : \A k \in Key : Held(v, k)' /\ k[1] = "campaign" => k[2] \in there
      BY <2>4, <2>7 DEF IInv, GrantInv, RowsInv, Exists
    <3>3. \A v \in Users : \A k \in Key : AccountOfKey(k) \in closed[v] => ~Held(v, k)'
      BY <2>4, <2>7 DEF IInv, GrantInv, RowsInv
    <3> QED BY <1>1, <3>1, <3>2, <3>3 DEF RowsInv, Exists
  <2>11. GrantingInv'
    <3> SUFFICES ASSUME NEW d \in Calls, d # c, call'[d] = call[d], call[d].op \in Granting
                 PROVE  /\ Exists(call[d].keys)
                        /\ \A k \in call[d].keys : AccountOfKey(k) \notin closed[call[d].user]
                        /\ call[d].op = "commit" =>
                             /\ DOMAIN call[d].found = call[d].keys
                             /\ ~call[d].raced => \A k \in call[d].keys : call[d].found[k] # 0 =>
                                  /\ Held(call[d].user, k)'
                                  /\ grants'[call[d].user][k].row = call[d].found[k]
      BY <1>1, <1>3 DEF GrantingInv, Exists, GrantOps, Held
    <3>1. call[d] \in GrantCall
      BY CallTyped DEF GrantOps
    <3>2. call[d].user \in Users /\ call[d].keys \in SUBSET Key
      BY <3>1 DEF GrantCall
    <3> QED BY <2>7, <3>2 DEF IInv, GrantInv, GrantingInv
  <2>12. RevokingInv'
    <3> SUFFICES ASSUME NEW d \in Calls, d # c, call'[d] = call[d], call[d].op \in Revoking
                 PROVE  /\ Target(call[d]) \cap opened'[call[d].user] = {}
                        /\ call[d].op # "revoke" => call[d].account # None
                        /\ call[d].op # "collect" => DOMAIN call[d].found \subseteq Target(call[d])
                        /\ call[d].account # None /\ ~call[d].raced =>
                             \A x \in Key : AccountOfKey(x) = call[d].account
                                            /\ Held(call[d].user, x)' => Covers(call[d], x)'
      BY <1>3 DEF RevokingInv, GrantOps, Held, Covers, Target
    <3>1. call[d] \in GrantCall
      BY CallTyped DEF GrantOps
    <3>2. call[d].user \in Users
      BY <3>1 DEF GrantCall
    <3>3. call[d].user = u => call[c].raced /\ call[d].raced
      BY <1>2 DEF IInv, GrantInv, RaceInv
    <3>4. Target(call[d]) \cap opened'[call[d].user] = {}
      BY <2>6, <3>2, <3>3 DEF IInv, GrantInv, RevokingInv
    <3>5. ASSUME call[d].user # u, NEW x \in Key
          PROVE  Held(call[d].user, x)' = Held(call[d].user, x) /\ Covers(call[d], x)' = Covers(call[d], x)
      BY <2>7, <3>2, <3>5 DEF Held, Covers, Target
    <3> QED BY <3>3, <3>4, <3>5 DEF IInv, GrantInv, RevokingInv
  <2> QED BY <1>3, <2>9, <2>10, <2>11, <2>12 DEF IInv, GrantInv
<1> QED BY <1>4, <1>5

LEMMA RevokeRowsInv ==
  ASSUME IInv, NEW c \in Calls, RevokeRows(c), UNCHANGED <<worldVars, recordVars>>
  PROVE  IInv'
<1> DEFINE u == call[c].user
           found == call[c].found
           a == call[c].account
           gone(k) == k \in DOMAIN found /\ grants[u][k].row = found[k]
<1>1. /\ call[c].op = "revoke" /\ call' = [call EXCEPT ![c] = Done] /\ UNCHANGED <<there, opened>>
      /\ grants' = [grants EXCEPT ![u] = [k \in Key |->
           IF gone(k) THEN [grants[u][k] EXCEPT !.state = "none"] ELSE grants[u][k]]]
      /\ closed' = [closed EXCEPT ![u] =
           IF a # None /\ ~call[c].raced THEN closed[u] \cup {a} ELSE closed[u]]
  BY DEF RevokeRows
<1>2. call[c].op \in GrantOps /\ call[c].op \in Revoking
  BY <1>1 DEF GrantOps, Revoking
<1>3. /\ CallForm' /\ RecordInv' /\ RaceInv'
      /\ call'[c].op \notin GrantOps
      /\ \A d \in Calls \ {c} : call'[d] = call[d]
  BY <1>1, <1>2, DoneCalls
<1>4. call[c] \in GrantCall
  BY <1>2, CallTyped
<1>5. u \in Users /\ a \in Accounts \cup {None}
  BY <1>4 DEF GrantCall
<1>6. /\ grants \in [Users -> [Key -> Grant]] /\ opened \in [Users -> SUBSET Key]
      /\ closed \in [Users -> SUBSET Accounts]
      /\ Target(call[c]) \cap opened[u] = {}
      /\ DOMAIN found \subseteq Target(call[c])
      /\ a # None /\ ~call[c].raced =>
           \A x \in Key : AccountOfKey(x) = a /\ Held(u, x) => gone(x)
  BY <1>1, <1>2 DEF IInv, TypeOK, GrantInv, RevokingInv, Covers
<1>7. /\ \A k \in opened[u] : ~gone(k)
      /\ \A k \in Key : /\ grants[u][k] \in Grant
                        /\ [grants[u][k] EXCEPT !.state = "none"] \in Grant
                        /\ [grants[u][k] EXCEPT !.state = "none"].state = "none"
                        /\ [grants[u][k] EXCEPT !.state = "none"].row = grants[u][k].row
  BY <1>5, <1>6 DEF Grant
<1> HIDE DEF gone
<1>8. /\ grants' \in [Users -> [Key -> Grant]]
      /\ \A v \in Users : \A k \in Key :
           IF v = u /\ gone(k) THEN grants'[v][k].state = "none" /\ grants'[v][k].row = grants[v][k].row
                               ELSE grants'[v][k] = grants[v][k]
      /\ closed' \in [Users -> SUBSET Accounts]
      /\ \A v \in Users : \A x \in closed'[v] :
           x \in closed[v] \/ (v = u /\ x = a /\ a # None /\ ~call[c].raced)
  BY <1>1, <1>5, <1>6, <1>7
<1>9. \A v \in Users, k \in Key :
        /\ Held(v, k)' => Held(v, k) /\ grants'[v][k] = grants[v][k]
        /\ v = u /\ gone(k) => ~Held(v, k)'
        /\ v # u => grants'[v][k] = grants[v][k]
  BY <1>8 DEF Held
<1>10. TypeOK'
  BY <1>1, <1>8 DEF IInv, TypeOK, worldVars, recordVars
<1>14. UNCHANGED there /\ UNCHANGED opened
  BY <1>1
<1>11. RowsInv'
  <2>1. ASSUME NEW v \in Users, NEW k \in opened[v] PROVE Usable(v, k)'
    <3>1. grants'[v][k] = grants[v][k]
      BY <1>6, <1>7, <1>8
    <3>2. Usable(v, k)
      BY DEF IInv, GrantInv, RowsInv
    <3> QED BY <3>1, <3>2 DEF Usable
  <2>2. \A v \in Users : \A k \in Key : Held(v, k)' /\ k[1] = "campaign" => k[2] \in there
    BY <1>9 DEF IInv, GrantInv, RowsInv, Exists
  <2>3. ASSUME NEW v \in Users, NEW k \in Key, AccountOfKey(k) \in closed'[v], Held(v, k)'
        PROVE  FALSE
    <3>1. Held(v, k) /\ ~(v = u /\ gone(k))
      BY <1>9, <2>3
    <3>2. AccountOfKey(k) \notin closed[v]
      BY <3>1 DEF IInv, GrantInv, RowsInv
    <3>3. v = u /\ AccountOfKey(k) = a /\ a # None /\ ~call[c].raced
      BY <1>8, <2>3, <3>2
    <3> QED BY <1>6, <3>1, <3>3
  <2> QED BY <1>14, <2>1, <2>2, <2>3 DEF RowsInv, Exists
<1>12. GrantingInv'
  <2> SUFFICES ASSUME NEW d \in Calls, d # c, call'[d] = call[d], call[d].op \in Granting
               PROVE  /\ Exists(call[d].keys)
                      /\ \A k \in call[d].keys : AccountOfKey(k) \notin closed'[call[d].user]
                      /\ call[d].op = "commit" =>
                           /\ DOMAIN call[d].found = call[d].keys
                           /\ ~call[d].raced => \A k \in call[d].keys : call[d].found[k] # 0 =>
                                /\ Held(call[d].user, k)'
                                /\ grants'[call[d].user][k].row = call[d].found[k]
    BY <1>3, <1>14 DEF GrantingInv, Exists, GrantOps, Held
  <2>1. call[d] \in GrantCall
    BY CallTyped DEF GrantOps
  <2>2. call[d].user \in Users /\ call[d].keys \in SUBSET Key
    BY <2>1 DEF GrantCall
  <2>3. call[d].user = u => call[c].raced /\ call[d].raced
    BY <1>2 DEF IInv, GrantInv, RaceInv
  <2>4. \A k \in call[d].keys : AccountOfKey(k) \notin closed'[call[d].user]
    BY <1>8, <2>2, <2>3 DEF IInv, GrantInv, GrantingInv
  <2>5. ASSUME call[d].user # u, NEW x \in Key
        PROVE  /\ Held(call[d].user, x)' = Held(call[d].user, x)
               /\ grants'[call[d].user][x] = grants[call[d].user][x]
    BY <1>9, <2>2, <2>5 DEF Held
  <2> QED BY <2>2, <2>3, <2>4, <2>5 DEF IInv, GrantInv, GrantingInv
<1>13. RevokingInv'
  <2> SUFFICES ASSUME NEW d \in Calls, d # c, call'[d] = call[d], call[d].op \in Revoking
               PROVE  /\ Target(call[d]) \cap opened[call[d].user] = {}
                      /\ call[d].op # "revoke" => call[d].account # None
                      /\ call[d].op # "collect" => DOMAIN call[d].found \subseteq Target(call[d])
                      /\ call[d].account # None /\ ~call[d].raced =>
                           \A x \in Key : AccountOfKey(x) = call[d].account
                                          /\ Held(call[d].user, x)' => Covers(call[d], x)'
    BY <1>3, <1>14 DEF RevokingInv, GrantOps, Held, Covers, Target
  <2>1. call[d] \in GrantCall
    BY CallTyped DEF GrantOps
  <2>2. call[d].user \in Users
    BY <2>1 DEF GrantCall
  <2>3. ASSUME NEW x \in Key, Held(call[d].user, x)'
        PROVE  Held(call[d].user, x) /\ (Covers(call[d], x) => Covers(call[d], x)')
    BY <1>9, <2>2, <2>3 DEF Held, Covers, Target
  <2> QED BY <2>3 DEF IInv, GrantInv, RevokingInv
<1> QED BY <1>3, <1>10, <1>11, <1>12, <1>13 DEF IInv, GrantInv

LEMMA CreateCampaignInv ==
  ASSUME IInv, NEW k \in Campaigns, CreateCampaign(k), UNCHANGED <<worldVars, recordVars>>
  PROVE  IInv'
<1>1. /\ there' = there \cup {k}
      /\ UNCHANGED grants /\ UNCHANGED call /\ UNCHANGED opened /\ UNCHANGED closed
  BY DEF CreateCampaign
<1>2. TypeOK' /\ CallForm'
  BY <1>1 DEF IInv, TypeOK, CallForm, worldVars, recordVars
<1>3. RecordInv'
  BY <1>1, RecordFrame DEF RecordSame
<1>4. RowsInv' /\ GrantingInv'
  BY <1>1 DEF IInv, GrantInv, RowsInv, GrantingInv, Exists, Held, Usable
<1>5. RaceInv' /\ RevokingInv'
  BY <1>1 DEF IInv, GrantInv, RaceInv, RevokingInv, Covers, Target, Held
<1> QED BY <1>2, <1>3, <1>4, <1>5 DEF IInv, GrantInv

LEMMA ExpireInv ==
  ASSUME IInv, NEW u \in Users, NEW k \in Key, Expire(u, k), UNCHANGED <<worldVars, recordVars>>
  PROVE  IInv'
<1>1. /\ grants[u][k].state = "ending"
      /\ grants' = [grants EXCEPT ![u][k].state = "expired"]
      /\ opened' = [opened EXCEPT ![u] = opened[u] \ {k}]
      /\ UNCHANGED there /\ UNCHANGED call /\ UNCHANGED closed
  BY DEF Expire
<1>2. grants \in [Users -> [Key -> Grant]] /\ opened \in [Users -> SUBSET Key]
  BY DEF IInv, TypeOK
<1>3. /\ grants' \in [Users -> [Key -> Grant]] /\ opened' \in [Users -> SUBSET Key]
      /\ \A v \in Users : opened'[v] \subseteq opened[v]
      /\ k \notin opened'[u]
      /\ \A v \in Users, x \in Key :
           /\ grants'[v][x].row = grants[v][x].row
           /\ v # u \/ x # k => grants'[v][x] = grants[v][x]
           /\ Held(v, x)' = Held(v, x)
  <2> DEFINE new == [grants[u][k] EXCEPT !.state = "expired"]
  <2>1. grants[u][k] \in Grant /\ grants[u] \in [Key -> Grant]
    BY <1>2
  <2>2. new \in Grant /\ new.row = grants[u][k].row /\ new.state = "expired"
    BY <2>1 DEF Grant
  <2>3. grants' = [grants EXCEPT ![u] = [grants[u] EXCEPT ![k] = new]]
    BY <1>1
  <2> HIDE DEF new
  <2>4. /\ grants' \in [Users -> [Key -> Grant]]
        /\ \A v \in Users, x \in Key :
             grants'[v][x] = IF v = u /\ x = k THEN new ELSE grants[v][x]
    BY <1>2, <2>1, <2>2, <2>3
  <2>5. \A v \in Users, x \in Key : Held(v, x)' = Held(v, x)
    BY <1>1, <2>2, <2>4 DEF Held
  <2>6. /\ opened' \in [Users -> SUBSET Key]
        /\ \A v \in Users : opened'[v] \subseteq opened[v]
        /\ k \notin opened'[u]
    BY <1>1, <1>2
  <2> QED BY <2>2, <2>4, <2>5, <2>6
<1>4. TypeOK' /\ CallForm'
  BY <1>1, <1>3 DEF IInv, TypeOK, CallForm, worldVars, recordVars
<1>5. RecordInv'
  BY <1>1, RecordFrame DEF RecordSame
<1>6. RowsInv'
  <2>1. ASSUME NEW v \in Users, NEW x \in opened'[v] PROVE Usable(v, x)'
    <3>1. x \in opened[v] /\ x \in Key /\ grants'[v][x] = grants[v][x]
      BY <1>2, <1>3
    <3>2. Usable(v, x)
      BY <3>1 DEF IInv, GrantInv, RowsInv
    <3> QED BY <3>1, <3>2 DEF Usable
  <2>2. \A v \in Users : \A x \in Key : Held(v, x)' /\ x[1] = "campaign" => x[2] \in there
    BY <1>3 DEF IInv, GrantInv, RowsInv, Exists
  <2>3. \A v \in Users : \A x \in Key : AccountOfKey(x) \in closed[v] => ~Held(v, x)'
    BY <1>3 DEF IInv, GrantInv, RowsInv
  <2> QED BY <1>1, <2>1, <2>2, <2>3 DEF RowsInv, Exists
<1>7. RaceInv'
  BY <1>1 DEF IInv, GrantInv, RaceInv
<1>8. ASSUME NEW d \in Calls, call[d].op \in GrantOps
      PROVE  /\ call[d].user \in Users /\ call[d].keys \in SUBSET Key
             /\ \A x \in Key : /\ Held(call[d].user, x)' = Held(call[d].user, x)
                               /\ grants'[call[d].user][x].row = grants[call[d].user][x].row
  BY <1>1, <1>3, <1>8, CallTyped DEF GrantCall, Held
<1>9. GrantingInv'
  <2> SUFFICES ASSUME NEW d \in Calls, call[d].op \in Granting
               PROVE  /\ Exists(call[d].keys)
                      /\ \A x \in call[d].keys : AccountOfKey(x) \notin closed[call[d].user]
                      /\ call[d].op = "commit" =>
                           /\ DOMAIN call[d].found = call[d].keys
                           /\ ~call[d].raced => \A x \in call[d].keys : call[d].found[x] # 0 =>
                                /\ Held(call[d].user, x)'
                                /\ grants'[call[d].user][x].row = call[d].found[x]
    BY <1>1 DEF GrantingInv, Exists, Held
  <2> QED BY <1>8 DEF GrantOps, IInv, GrantInv, GrantingInv
<1>10. RevokingInv'
  <2> SUFFICES ASSUME NEW d \in Calls, call[d].op \in Revoking
               PROVE  /\ Target(call[d]) \cap opened'[call[d].user] = {}
                      /\ call[d].op # "revoke" => call[d].account # None
                      /\ call[d].op # "collect" => DOMAIN call[d].found \subseteq Target(call[d])
                      /\ call[d].account # None /\ ~call[d].raced =>
                           \A x \in Key : AccountOfKey(x) = call[d].account
                                          /\ Held(call[d].user, x)' => Covers(call[d], x)'
    BY <1>1 DEF RevokingInv, Held, Covers, Target
  <2>1. ASSUME NEW x \in Key PROVE Covers(call[d], x)' <=> Covers(call[d], x)
    <3>1. UNCHANGED call /\ grants'[call[d].user][x].row = grants[call[d].user][x].row
      BY <1>1, <1>8 DEF GrantOps
    <3> QED BY <3>1 DEF Covers, Target
  <2> QED BY <1>3, <1>8, <2>1 DEF GrantOps, IInv, GrantInv, RevokingInv
<1> QED BY <1>4, <1>5, <1>6, <1>7, <1>9, <1>10 DEF IInv, GrantInv

-----------------------------------------------------------------------------
(* Access requests.                                                        *)

LEMMA MarkedRecord ==
  ASSUME NEW k \in RequestCall \cup MetadataCall, NEW l,
         l = [k EXCEPT !.raced = TRUE] \/ l = [k EXCEPT !.raced = FALSE]
  PROVE  /\ k \in RequestCall => l \in RequestCall /\ l.user = k.user /\ l.wish = k.wish
         /\ k \in MetadataCall =>
              /\ l \in MetadataCall
              /\ l.staff = k.staff /\ l.label = k.label /\ l.value = k.value
              /\ l.seen = k.seen /\ l.entries = k.entries
         /\ l.op = k.op
         /\ l = [k EXCEPT !.raced = TRUE] => l.raced
BY DEF RequestCall, MetadataCall

\* A call that is not about grants begins.
LEMMA RecordBegin ==
  ASSUME IInv, NEW c \in Calls, NEW rivals \in SUBSET Calls,
         NEW request \in RequestCall \cup MetadataCall,
         \A d \in rivals : call[d] \in RequestCall \cup MetadataCall,
         request.op = "import" => request.label \in Labels /\ request.value \in Values,
         Begin(c, rivals, request)
  PROVE  /\ CallForm' /\ GrantSame
         /\ call'[c] = IF rivals = {} THEN [request EXCEPT !.raced = FALSE]
                                     ELSE [request EXCEPT !.raced = TRUE]
         /\ \A d \in Calls \ {c} :
              call'[d] = IF d \in rivals THEN [call[d] EXCEPT !.raced = TRUE] ELSE call[d]
<1>1. call[c] = Unused
  BY DEF Begin
<1>2. c \notin rivals
  BY <1>1 DEF RequestCall, MetadataCall, Unused
<1>3. /\ call' = [d \in Calls |-> call'[d]]
      /\ call'[c] = [request EXCEPT !.raced = rivals # {}]
      /\ \A d \in Calls \ {c} :
           call'[d] = IF d \in rivals THEN [call[d] EXCEPT !.raced = TRUE] ELSE call[d]
  BY <1>2, BeginStep
<1>4. call'[c] = IF rivals = {} THEN [request EXCEPT !.raced = FALSE]
                              ELSE [request EXCEPT !.raced = TRUE]
  BY <1>3
<1>5. /\ call'[c] \in Call /\ call'[c].op \notin GrantOps
      /\ call'[c].op = "import" => call'[c].label \in Labels /\ call'[c].value \in Values
  <2>1. /\ call'[c] \in RequestCall \cup MetadataCall /\ call'[c].op = request.op
        /\ request \in MetadataCall => call'[c].label = request.label /\ call'[c].value = request.value
    BY <1>4, MarkedRecord
  <2> QED BY <2>1 DEF Call, RequestCall, MetadataCall, GrantOps, Granting, Revoking
<1>6. ASSUME NEW d \in Calls \ {c}
      PROVE  /\ call'[d] \in Call /\ (call'[d] = call[d] \/ call'[d].op \notin GrantOps)
             /\ call'[d].op = "import" => call'[d].label \in Labels /\ call'[d].value \in Values
  <2>1. CASE d \in rivals
    <3>1. /\ call'[d] \in RequestCall \cup MetadataCall /\ call'[d].op = call[d].op
          /\ call[d] \in MetadataCall => call'[d].label = call[d].label /\ call'[d].value = call[d].value
      BY <1>3, <2>1, MarkedRecord
    <3>2. call[d].op = "import" => call[d].label \in Labels /\ call[d].value \in Values
      BY DEF IInv, CallForm
    <3> QED BY <2>1, <3>1, <3>2 DEF Call, RequestCall, MetadataCall, GrantOps, Granting, Revoking
  <2>2. CASE d \notin rivals
    BY <1>3, <2>2 DEF IInv, CallForm
  <2> QED BY <2>1, <2>2
<1>7. CallForm'
  BY <1>3, <1>5, <1>6 DEF CallForm
<1>8. GrantSame
  BY <1>5, <1>6 DEF GrantSame
<1> QED BY <1>3, <1>4, <1>7, <1>8

\* A call is over.
LEMMA DoneStep ==
  ASSUME IInv, NEW c \in Calls, call' = [call EXCEPT ![c] = Done]
  PROVE  /\ CallForm' /\ GrantSame /\ RecordSame
         /\ call'[c].op = "done"
         /\ \A d \in Calls \ {c} : call'[d] = call[d]
<1>1. /\ call \in [Calls -> Call]
      /\ Done \in Call /\ Done.op = "done" /\ Done.op \notin GrantOps
  BY DEF IInv, CallForm, Call, Done, GrantOps, Granting, Revoking
<1>2. /\ call' \in [Calls -> Call] /\ call'[c] = Done
      /\ \A d \in Calls \ {c} : call'[d] = call[d]
  BY <1>1
<1>3. CallForm'
  BY <1>1, <1>2 DEF CallForm, IInv
<1> QED BY <1>1, <1>2, <1>3 DEF GrantSame, RecordSame

LEMMA CreateAccessRequestInv ==
  ASSUME IInv, NEW c \in Calls, NEW u \in Users, NEW w \in Wishes, CreateAccessRequest(c, u, w)
  PROVE  IInv'
<1> DEFINE rivals == {d \in InFlight(u, {"request"}) : call[d].wish = w}
           request == [op |-> "request", user |-> u, wish |-> w, raced |-> FALSE]
<1>1. /\ UNCHANGED grantVars /\ UNCHANGED worldVars /\ UNCHANGED recordVars
      /\ UNCHANGED requests /\ UNCHANGED notes
  BY DEF CreateAccessRequest, recordVars
<1>2. TypeOK'
  BY <1>1 DEF IInv, TypeOK, grantVars, worldVars
<1>3. CASE Pending(u, w) # {}
  <2>1. call' = [call EXCEPT ![c] = Done]
    BY <1>3 DEF CreateAccessRequest
  <2> QED BY <1>1, <1>2, <2>1, DoneStep, GrantFrame, RecordFrame DEF IInv
<1>4. CASE Pending(u, w) = {}
  <2>1. Begin(c, rivals, request)
    BY <1>4 DEF CreateAccessRequest
  <2>2. request \in RequestCall /\ request.op = "request" /\ request.user = u /\ request.wish = w
    BY DEF RequestCall
  <2> HIDE DEF request
  <2>3. rivals \in SUBSET Calls /\ \A d \in rivals : call[d] \in RequestCall
    BY CallTyped DEF InFlight
  <2>4. /\ CallForm' /\ GrantSame
        /\ call'[c] = IF rivals = {} THEN [request EXCEPT !.raced = FALSE]
                                    ELSE [request EXCEPT !.raced = TRUE]
        /\ \A d \in Calls \ {c} :
             call'[d] = IF d \in rivals THEN [call[d] EXCEPT !.raced = TRUE] ELSE call[d]
    BY <2>1, <2>2, <2>3, RecordBegin
  <2>5. GrantInv'
    BY <1>1, <2>4, GrantFrame
  <2>6. /\ call'[c].op = "request" /\ call'[c].user = u /\ call'[c].wish = w
        /\ rivals # {} => call'[c].raced
    BY <2>2, <2>4, MarkedRecord
  <2>7. ASSUME NEW d \in Calls \ {c}
        PROVE  /\ call'[d].op = call[d].op
               /\ call[d].op = "request" =>
                    /\ call'[d].user = call[d].user /\ call'[d].wish = call[d].wish
                    /\ call[d].raced => call'[d].raced
                    /\ call[d].user = u /\ call[d].wish = w => d \in rivals /\ call'[d].raced
               /\ call[d].op # "request" => call'[d] = call[d]
    <3>1. CASE d \in rivals
      <4>1. call[d] \in RequestCall /\ call'[d] = [call[d] EXCEPT !.raced = TRUE]
        BY <2>3, <2>4, <3>1
      <4> QED BY <3>1, <4>1, MarkedRecord DEF InFlight
    <3>2. CASE d \notin rivals
      BY <2>4, <3>2 DEF InFlight
    <3> QED BY <3>1, <3>2
  <2> HIDE DEF rivals
  <2>8. SyncInv'
    <3>1. \A d \in Calls : call'[d].op = "sync" => call'[d] = call[d]
      BY <2>6, <2>7
    <3> QED BY <1>1, <3>1 DEF IInv, RecordInv, SyncInv, NotesOnce, Owned
  <2>9. RequestInv'
    <3>1. RequestsOnce'
      BY <1>1 DEF IInv, RecordInv, RequestInv, RequestsOnce
    <3>2. ASSUME NEW d \in Calls, NEW r \in requests,
                 call'[d].op = "request", r \in Pending(call'[d].user, call'[d].wish)
          PROVE  r.raced /\ call'[d].raced
      <4>1. d # c
        BY <1>4, <2>6, <3>2
      <4> QED BY <2>7, <3>2, <4>1 DEF IInv, RecordInv, RequestInv
    <3>3. ASSUME NEW d \in Calls, NEW e \in Calls, d # e,
                 call'[d].op = "request", call'[e].op = "request",
                 call'[d].user = call'[e].user, call'[d].wish = call'[e].wish
          PROVE  call'[d].raced
      <4>1. CASE d = c
        BY <2>6, <2>7, <3>3, <4>1
      <4>2. CASE e = c
        BY <2>6, <2>7, <3>3, <4>2
      <4>3. CASE d # c /\ e # c
        BY <2>7, <3>3, <4>3 DEF IInv, RecordInv, RequestInv
      <4> QED BY <4>1, <4>2, <4>3
    <3> QED BY <1>1, <3>1, <3>2, <3>3 DEF RequestInv, Pending
  <2> QED BY <1>2, <2>4, <2>5, <2>8, <2>9 DEF IInv, RecordInv
<1> QED BY <1>3, <1>4

LEMMA InsertRequestInv == ASSUME IInv, NEW c \in Calls, InsertRequest(c) PROVE IInv'
<1> DEFINE new == [user |-> call[c].user, wish |-> call[c].wish, status |-> "pending",
                   by |-> c, raced |-> call[c].raced]
<1>1. /\ call[c].op = "request" /\ call' = [call EXCEPT ![c] = Done]
      /\ requests' = requests \cup {new}
      /\ UNCHANGED grantVars /\ UNCHANGED worldVars /\ UNCHANGED notes
  BY DEF InsertRequest
<1>2. /\ CallForm' /\ GrantSame /\ RecordSame
      /\ call'[c].op = "done"
      /\ \A d \in Calls \ {c} : call'[d] = call[d]
  BY <1>1, DoneStep
<1>3. call[c] \in RequestCall
  BY <1>1, CallTyped
<1>4. new \in AccessRequest
  BY <1>3 DEF RequestCall, AccessRequest
<1>5. new.user = call[c].user /\ new.wish = call[c].wish /\ new.raced = call[c].raced
  OBVIOUS
<1> HIDE DEF new
<1>6. TypeOK'
  BY <1>1, <1>4 DEF IInv, TypeOK, grantVars, worldVars
<1>7. RequestsOnce'
  <2>1. \A r \in Pending(call[c].user, call[c].wish) : r.raced /\ call[c].raced
    BY <1>1 DEF IInv, RecordInv, RequestInv, Pending
  <2> QED BY <1>1, <1>5, <2>1 DEF IInv, RecordInv, RequestInv, RequestsOnce, Pending
<1>8. ASSUME NEW d \in Calls, NEW r \in requests',
             call'[d].op = "request", r \in Pending(call[d].user, call[d].wish)'
      PROVE  r.raced /\ call'[d].raced
  <2>1. d # c /\ call'[d] = call[d]
    BY <1>2, <1>8
  <2>2. CASE r \in requests
    BY <1>8, <2>1, <2>2 DEF IInv, RecordInv, RequestInv, Pending
  <2>3. CASE r = new
    BY <1>1, <1>5, <1>8, <2>1, <2>3 DEF IInv, RecordInv, RequestInv, Pending
  <2> QED BY <1>1, <2>2, <2>3
<1>9. RequestInv'
  <2>1. \A d, e \in Calls :
          d # e /\ call'[d].op = "request" /\ call'[e].op = "request"
            /\ call'[d].user = call'[e].user /\ call'[d].wish = call'[e].wish
            => call'[d].raced
    BY <1>2 DEF IInv, RecordInv, RequestInv
  <2> QED BY <1>7, <1>8, <2>1 DEF RequestInv
<1> QED BY <1>1, <1>2, <1>6, <1>9, GrantFrame, SyncFrame DEF IInv, RecordInv

LEMMA ReviewRequestInv == ASSUME IInv, NEW r \in requests, ReviewRequest(r) PROVE IInv'
<1>1. PICK verdict \in {"approved", "denied"} :
        requests' = (requests \ {r}) \cup {[r EXCEPT !.status = verdict]}
  BY DEF ReviewRequest
<1>2. /\ UNCHANGED call /\ UNCHANGED grantVars /\ UNCHANGED worldVars /\ UNCHANGED notes
  BY DEF ReviewRequest
<1> DEFINE new == [r EXCEPT !.status = verdict]
<1>3. r \in AccessRequest
  BY DEF IInv, TypeOK
<1>4. new \in AccessRequest /\ new.status # "pending"
  BY <1>3 DEF AccessRequest
<1> HIDE DEF new
<1>5. TypeOK'
  BY <1>1, <1>2, <1>4 DEF IInv, TypeOK, grantVars, worldVars, new
<1>6. \A q \in requests' : q.status = "pending" => q \in requests
  BY <1>1, <1>4 DEF new
<1>7. CallForm' /\ GrantSame /\ RecordSame
  BY <1>2 DEF IInv, CallForm, GrantSame, RecordSame
<1>8. RequestInv'
  BY <1>2, <1>6 DEF IInv, RecordInv, RequestInv, RequestsOnce, Pending
<1> QED BY <1>2, <1>5, <1>7, <1>8, GrantFrame, SyncFrame DEF IInv, RecordInv

-----------------------------------------------------------------------------
(* Staff metadata.                                                         *)

\* Whatever the directory owns it owned before, as the same entry.
Kept(n, m) == n.owner = "directory" /\ Same(n, m) /\ n.raced = m.raced

OwnedKept == \A m \in notes' : m.owner = "directory" => \E n \in notes : Kept(n, m)

LEMMA OwnedKeptInv ==
  ASSUME IInv, RecordSame, OwnedKept
  PROVE  SyncInv'
<1>1. NotesOnce'
  BY DEF IInv, RecordInv, SyncInv, NotesOnce, OwnedKept, Kept, Same
<1>2. ASSUME NEW c \in Calls, call'[c].op = "sync",
             NEW m \in notes', m.staff = call'[c].staff, m.owner = "directory"
      PROVE  (\E n \in call'[c].seen : Same(n, m)) \/ (m.raced /\ call'[c].raced)
  <2>1. call'[c] = call[c]
    BY <1>2 DEF RecordSame
  <2>2. PICK n \in notes : Kept(n, m)
    BY <1>2 DEF OwnedKept
  <2>3. n \in Owned(call[c].staff)
    BY <1>2, <2>1, <2>2 DEF Kept, Same, Owned
  <2>4. (\E h \in call[c].seen : Same(h, n)) \/ (n.raced /\ call[c].raced)
    BY <1>2, <2>1, <2>3 DEF IInv, RecordInv, SyncInv
  <2> QED BY <2>1, <2>2, <2>4 DEF Kept, Same
<1>3. \A c, d \in Calls :
        c # d /\ call'[c].op = "sync" /\ call'[d].op = "sync" /\ call'[c].staff = call'[d].staff
          => call'[c].raced
  BY DEF RecordSame, IInv, RecordInv, SyncInv
<1>4. \A c \in Calls : \A m : m \in Owned(call[c].staff)' /\ call'[c] = call[c]
        => m \in notes' /\ m.staff = call'[c].staff /\ m.owner = "directory"
  BY DEF Owned
<1>5. \A c \in Calls : call'[c].op = "sync" => call'[c] = call[c]
  BY DEF RecordSame
<1> QED BY <1>1, <1>2, <1>3, <1>4, <1>5 DEF SyncInv

\* A call that writes entries is over.
LEMMA WriteInv ==
  ASSUME IInv, NEW c \in Calls, call' = [call EXCEPT ![c] = Done],
         notes' \in SUBSET Note, OwnedKept,
         UNCHANGED <<grantVars, worldVars, requests>>
  PROVE  IInv'
<1>1. UNCHANGED grantVars /\ UNCHANGED worldVars /\ UNCHANGED requests
  OBVIOUS
<1>2. CallForm' /\ GrantSame /\ RecordSame
  BY DoneStep
<1>3. GrantInv' /\ RequestInv' /\ SyncInv'
  BY <1>1, <1>2, GrantFrame, RequestFrame, OwnedKeptInv
<1>4. TypeOK'
  BY <1>1 DEF IInv, TypeOK, grantVars, worldVars
<1> QED BY <1>2, <1>3, <1>4 DEF IInv, RecordInv

LEMMA StillOwned ==
  ASSUME \A m \in notes' : m.owner = "directory" => m \in notes
  PROVE  OwnedKept
BY DEF OwnedKept, Kept, Same

LEMMA CreateStaffMetadataInv ==
  ASSUME IInv, NEW c \in Calls, NEW s \in Staff, NEW l \in Labels, NEW v \in Values,
         CreateStaffMetadata(c, s, l, v)
  PROVE  IInv'
<1> DEFINE new == [staff |-> s, label |-> l, nth |-> None, value |-> v, owner |-> "manual",
                   by |-> c, raced |-> FALSE]
<1>1. /\ call' = [call EXCEPT ![c] = Done] /\ notes' = notes \cup {new}
      /\ UNCHANGED <<grantVars, worldVars, requests>>
  BY DEF CreateStaffMetadata
<1>2. new \in Note /\ new.owner # "directory"
  BY DEF Note
<1> HIDE DEF new
<1>3. notes' \in SUBSET Note
  BY <1>1, <1>2 DEF IInv, TypeOK
<1>4. OwnedKept
  BY <1>1, <1>2, StillOwned
<1> QED BY <1>1, <1>3, <1>4, WriteInv

LEMMA DeleteStaffMetadataInv ==
  ASSUME IInv, NEW c \in Calls, DeleteStaffMetadata(c)
  PROVE  IInv'
<1>1. /\ call' = [call EXCEPT ![c] = Done]
      /\ notes' = notes \ UNION {Now(n) : n \in call[c].seen}
      /\ UNCHANGED <<grantVars, worldVars, requests>>
  BY DEF DeleteStaffMetadata
<1>2. notes' \in SUBSET Note
  BY <1>1 DEF IInv, TypeOK
<1>3. OwnedKept
  BY <1>1, StillOwned
<1> QED BY <1>1, <1>2, <1>3, WriteInv

LEMMA UpdateStaffMetadataInv ==
  ASSUME IInv, NEW c \in Calls, UpdateStaffMetadata(c)
  PROVE  IInv'
<1>1. /\ call' = [call EXCEPT ![c] = Done]
      /\ UNCHANGED <<grantVars, worldVars, requests>>
  BY DEF UpdateStaffMetadata
<1>2. \A n : Now(n) \subseteq notes /\ notes \subseteq Note
  BY DEF Now, IInv, TypeOK
<1>3. ASSUME NEW m \in UNION {Now(n) : n \in call[c].seen}, NEW v \in Values,
             notes' = Replaced(m, [m EXCEPT !.value = v])
      PROVE  IInv'
  <2> DEFINE new == [m EXCEPT !.value = v]
  <2>1. m \in notes /\ m \in Note
    BY <1>2
  <2>2. /\ new \in Note /\ new.staff = m.staff /\ new.label = m.label /\ new.by = m.by
        /\ new.nth = m.nth
        /\ new.owner = m.owner /\ new.raced = m.raced
    BY <2>1 DEF Note
  <2> HIDE DEF new
  <2>3. notes' = (notes \ Now(m)) \cup {new} /\ m \in Now(m)
    BY <1>3, <2>1 DEF Replaced, new, Now, Same
  <2>4. notes' \in SUBSET Note
    BY <1>2, <2>2, <2>3
  <2>5. m.owner = "directory" => Kept(m, new)
    BY <2>2 DEF Kept, Same
  <2>6. \A k \in notes' : k = new \/ (k \in notes /\ k # m)
    BY <2>3
  <2>7. \A k \in notes : k.owner = "directory" => Kept(k, k)
    BY DEF Kept, Same
  <2>8. OwnedKept
    BY <2>1, <2>2, <2>5, <2>6, <2>7 DEF OwnedKept
  <2> QED BY <1>1, <2>4, <2>8, WriteInv
<1>4. ASSUME NEW m \in UNION {Now(n) : n \in call[c].seen},
             notes' = Replaced(m, [m EXCEPT !.owner = "manual"])
      PROVE  IInv'
  <2> DEFINE new == [m EXCEPT !.owner = "manual"]
  <2>1. m \in notes /\ m \in Note
    BY <1>2
  <2>2. new \in Note /\ new.owner = "manual"
    BY <2>1 DEF Note
  <2> HIDE DEF new
  <2>3. notes' = (notes \ Now(m)) \cup {new}
    BY <1>4 DEF Replaced, new
  <2>4. notes' \in SUBSET Note /\ OwnedKept
    BY <1>2, <2>2, <2>3, StillOwned
  <2> QED BY <1>1, <2>4, WriteInv
<1>5. CASE UNCHANGED notes
  <2>1. notes' \in SUBSET Note /\ OwnedKept
    BY <1>2, <1>5, StillOwned
  <2> QED BY <1>1, <2>1, WriteInv
<1> QED BY <1>3, <1>4, <1>5 DEF UpdateStaffMetadata

LEMMA WriteImportedInv ==
  ASSUME IInv, NEW c \in Calls, WriteImported(c)
  PROVE  IInv'
<1> DEFINE k == call[c]
           new == [staff |-> k.staff, label |-> k.label, nth |-> None, value |-> k.value,
                   owner |-> "import", by |-> c, raced |-> k.raced]
           taken(m) == [m EXCEPT !.value = k.value, !.owner = "import"]
<1>1. /\ k.op = "import" /\ call' = [call EXCEPT ![c] = Done]
      /\ notes' = IF k.seen = {} THEN notes \cup {new}
                  ELSE {IF \E n \in k.seen : Same(n, m) THEN taken(m) ELSE m : m \in notes}
      /\ UNCHANGED <<grantVars, worldVars, requests>>
  BY DEF WriteImported
<1>2. k \in MetadataCall /\ k.label \in Labels /\ k.value \in Values
  BY <1>1, CallTyped DEF IInv, CallForm
<1>3. new \in Note /\ new.owner = "import"
  BY <1>2 DEF MetadataCall, Note
<1>4. notes \subseteq Note
  BY DEF IInv, TypeOK
<1>5. \A m \in notes : taken(m) \in Note /\ taken(m).owner = "import"
  BY <1>2, <1>4 DEF Note
<1> HIDE DEF k, new, taken
<1>6. \A m \in notes' : m \in notes \/ (m \in Note /\ m.owner = "import")
  BY <1>1, <1>3, <1>5
<1>7. notes' \in SUBSET Note /\ OwnedKept
  BY <1>4, <1>6, StillOwned
<1> QED BY <1>1, <1>7, WriteInv

\* A call about entries begins, and its rivals with it are marked.
LEMMA NoteBegin ==
  ASSUME IInv, NEW c \in Calls, NEW rivals \in SUBSET Calls, NEW request \in MetadataCall,
         \A d \in rivals : call[d].op = request.op,
         request.op = "import" => request.label \in Labels /\ request.value \in Values,
         Begin(c, rivals, request),
         UNCHANGED <<grantVars, worldVars, recordVars>>
  PROVE  /\ TypeOK' /\ CallForm' /\ GrantInv' /\ RequestInv'
         /\ UNCHANGED notes
         /\ call'[c] \in MetadataCall /\ call'[c].op = request.op
         /\ call'[c].staff = request.staff /\ call'[c].seen = request.seen
         /\ call'[c].entries = request.entries
         /\ rivals # {} => call'[c].raced
         /\ \A d \in Calls \ {c} :
              /\ d \notin rivals => call'[d] = call[d]
              /\ d \in rivals =>
                   /\ call'[d].op = call[d].op /\ call'[d].staff = call[d].staff
                   /\ call'[d].seen = call[d].seen /\ call'[d].entries = call[d].entries
                   /\ call'[d].raced
<1>1. /\ UNCHANGED grantVars /\ UNCHANGED worldVars /\ UNCHANGED notes
      /\ UNCHANGED requests
  BY DEF recordVars
<1>2. \A d \in rivals : call[d] \in MetadataCall
  BY CallTyped DEF MetadataCall
<1>3. /\ CallForm' /\ GrantSame
      /\ call'[c] = IF rivals = {} THEN [request EXCEPT !.raced = FALSE]
                                  ELSE [request EXCEPT !.raced = TRUE]
      /\ \A d \in Calls \ {c} :
           call'[d] = IF d \in rivals THEN [call[d] EXCEPT !.raced = TRUE] ELSE call[d]
  BY <1>2, RecordBegin
<1>4. TypeOK'
  BY <1>1 DEF IInv, TypeOK, grantVars, worldVars
<1>5. /\ call'[c] \in MetadataCall /\ call'[c].op = request.op
      /\ call'[c].staff = request.staff /\ call'[c].seen = request.seen
      /\ call'[c].entries = request.entries
      /\ rivals # {} => call'[c].raced
  BY <1>3, MarkedRecord
<1>6. ASSUME NEW d \in Calls \ {c}, d \in rivals
      PROVE  /\ call'[d].op = call[d].op /\ call'[d].staff = call[d].staff
             /\ call'[d].seen = call[d].seen /\ call'[d].entries = call[d].entries
             /\ call'[d].raced
  BY <1>2, <1>3, <1>6, MarkedRecord, ZenonT(40)
<1>7. GrantInv'
  BY <1>1, <1>3, GrantFrame
<1>8. \A d \in Calls : call'[d].op = "request" => call'[d] = call[d]
  <2>1. request.op # "request" /\ call'[c].op # "request"
    BY <1>5 DEF MetadataCall
  <2> QED BY <1>3, <1>6, <2>1
<1>9. RequestInv'
  BY <1>1, <1>8 DEF IInv, RecordInv, RequestInv, RequestsOnce, Pending
<1> QED BY <1>1, <1>3, <1>4, <1>5, <1>6, <1>7, <1>9

\* If it is not the directory sync's, nothing else changes.
LEMMA OtherNoteBegin ==
  ASSUME IInv, NEW c \in Calls, NEW rivals \in SUBSET Calls, NEW request \in MetadataCall,
         \A d \in rivals : call[d].op = request.op, request.op # "sync",
         request.op = "import" => request.label \in Labels /\ request.value \in Values,
         Begin(c, rivals, request),
         UNCHANGED <<grantVars, worldVars, recordVars>>
  PROVE  IInv'
<1>1. /\ TypeOK' /\ CallForm' /\ GrantInv' /\ RequestInv'
      /\ UNCHANGED notes /\ call'[c].op = request.op
      /\ \A d \in Calls \ {c} : call'[d] = call[d] \/ call'[d].op = request.op
  BY NoteBegin
<1>2. \A d \in Calls : call'[d].op = "sync" => call'[d] = call[d]
  BY <1>1
<1>3. SyncInv'
  BY <1>1, <1>2 DEF IInv, RecordInv, SyncInv, NotesOnce, Owned
<1> QED BY <1>1, <1>3 DEF IInv, RecordInv

LEMMA LookUpNoteInv ==
  ASSUME IInv, NEW c \in Calls, NEW n \in notes, NEW op \in {"update", "delete"},
         LookUpNote(c, n, op)
  PROVE  IInv'
<1> DEFINE request == [NoteCall(op, n.staff) EXCEPT !.seen = {n}]
<1>1. Begin(c, {}, request) /\ UNCHANGED <<grantVars, worldVars, recordVars>>
  BY DEF LookUpNote
<1>2. n \in Note
  BY DEF IInv, TypeOK
<1>3. request \in MetadataCall /\ request.op = op
  BY <1>2 DEF NoteCall, MetadataCall, Note
<1> HIDE DEF request
<1> QED BY <1>1, <1>3, OtherNoteBegin

LEMMA ImportRowInv ==
  ASSUME IInv, NEW c \in Calls, NEW s \in Staff, NEW l \in Labels, NEW v \in Values,
         ImportRow(c, s, l, v)
  PROVE  IInv'
<1>1. UNCHANGED <<grantVars, worldVars, recordVars>>
  BY DEF ImportRow
<1>2. CASE call' = [call EXCEPT ![c] = Done]
  <2>1. notes' \in SUBSET Note /\ UNCHANGED requests /\ UNCHANGED notes
    BY <1>1 DEF IInv, TypeOK, recordVars
  <2>2. OwnedKept
    BY <2>1, StillOwned
  <2> QED BY <1>1, <1>2, <2>1, <2>2, WriteInv
<1>3. ASSUME Begin(c, {d \in Calls : call[d].op = "import" /\ call[d].staff = s /\ call[d].label = l},
                   [NoteCall("import", s) EXCEPT !.label = l, !.value = v])
      PROVE  IInv'
  <2> DEFINE request == [NoteCall("import", s) EXCEPT !.label = l, !.value = v]
             rivals == {d \in Calls : call[d].op = "import" /\ call[d].staff = s /\ call[d].label = l}
  <2>1. /\ request \in MetadataCall /\ request.op = "import"
        /\ request.label \in Labels /\ request.value \in Values
    BY DEF NoteCall, MetadataCall
  <2>2. rivals \in SUBSET Calls /\ \A d \in rivals : call[d].op = "import"
    OBVIOUS
  <2>3. Begin(c, rivals, request)
    BY <1>3
  <2> HIDE DEF request, rivals
  <2> QED BY <1>1, <2>1, <2>2, <2>3, OtherNoteBegin
<1>4. ASSUME NEW n \in OfLabel(s, l),
             Begin(c, {}, [NoteCall("import", s) EXCEPT !.label = l, !.value = v, !.seen = {n}])
      PROVE  IInv'
  <2> DEFINE request == [NoteCall("import", s) EXCEPT !.label = l, !.value = v, !.seen = {n}]
  <2>1. n \in Note
    BY DEF OfLabel, IInv, TypeOK
  <2>2. /\ request \in MetadataCall /\ request.op = "import"
        /\ request.label \in Labels /\ request.value \in Values
    BY <2>1 DEF NoteCall, MetadataCall
  <2>3. Begin(c, {}, request)
    BY <1>4
  <2> HIDE DEF request
  <2> QED BY <1>1, <2>2, <2>3, OtherNoteBegin
<1> QED BY <1>2, <1>3, <1>4 DEF ImportRow

LEMMA SyncMetadataInv ==
  ASSUME IInv, NEW c \in Calls, NEW s \in Staff, NEW E \in SUBSET (Labels \X Slots),
         NEW f \in [E -> Values], SyncMetadata(c, s, {<<e[1], e[2], f[e]>> : e \in E})
  PROVE  IInv'
<1> DEFINE entries == {<<e[1], e[2], f[e]>> : e \in E}
           rivals == {d \in Calls : call[d].op = "sync" /\ call[d].staff = s}
           request == [NoteCall("sync", s) EXCEPT !.seen = Owned(s), !.entries = entries]
<1>1. Begin(c, rivals, request) /\ UNCHANGED <<grantVars, worldVars, recordVars>>
  BY DEF SyncMetadata
<1>2. entries \in SUBSET (Labels \X Slots \X Values)
  OBVIOUS
<1> HIDE DEF entries
<1>3. Owned(s) \in SUBSET Note
  BY DEF Owned, IInv, TypeOK
<1>4. /\ request \in MetadataCall /\ request.op = "sync" /\ request.staff = s
      /\ request.seen = Owned(s) /\ request.entries = entries
  BY <1>2, <1>3 DEF NoteCall, MetadataCall
<1>5. /\ rivals \in SUBSET Calls /\ \A d \in rivals : call[d].op = "sync" /\ call[d].staff = s
      /\ \A d \in Calls : call[d].op = "sync" /\ call[d].staff = s => d \in rivals
  OBVIOUS
<1> HIDE DEF rivals, request
<1>6. /\ TypeOK' /\ CallForm' /\ GrantInv' /\ RequestInv'
      /\ UNCHANGED notes
      /\ call'[c].op = "sync" /\ call'[c].staff = s /\ call'[c].seen = Owned(s)
      /\ call'[c].entries = entries
      /\ rivals # {} => call'[c].raced
      /\ \A d \in Calls \ {c} :
           /\ d \notin rivals => call'[d] = call[d]
           /\ d \in rivals =>
                /\ call'[d].op = call[d].op /\ call'[d].staff = call[d].staff
                /\ call'[d].seen = call[d].seen /\ call'[d].entries = call[d].entries
                /\ call'[d].raced
  BY <1>1, <1>4, <1>5, NoteBegin
<1>7. NotesOnce'
  BY <1>6 DEF IInv, RecordInv, SyncInv, NotesOnce
<1>8. ASSUME NEW d \in Calls, call'[d].op = "sync"
      PROVE  \A m \in notes : m.staff = call'[d].staff /\ m.owner = "directory" =>
                (\E n \in call'[d].seen : Same(n, m)) \/ (m.raced /\ call'[d].raced)
  <2>1. CASE d = c
    BY <1>6, <2>1 DEF Owned, Same
  <2>2. CASE d # c
    <3>1. /\ call[d].op = "sync" /\ call'[d].staff = call[d].staff
          /\ call'[d].seen = call[d].seen /\ call'[d].entries = call[d].entries
          /\ call[d].raced => call'[d].raced
      BY <1>5, <1>6, <1>8, <2>2
    <3> QED BY <3>1 DEF IInv, RecordInv, SyncInv, Owned
  <2> QED BY <2>1, <2>2
<1>9. ASSUME NEW d \in Calls, NEW e \in Calls, d # e,
             call'[d].op = "sync", call'[e].op = "sync", call'[d].staff = call'[e].staff
      PROVE  call'[d].raced
  <2>1. CASE d = c \/ e = c
    BY <1>5, <1>6, <1>9, <2>1
  <2>2. CASE d # c /\ e # c
    BY <1>5, <1>6, <1>9, <2>2 DEF IInv, RecordInv, SyncInv
  <2> QED BY <2>1, <2>2
<1>10. SyncInv'
  BY <1>6, <1>7, <1>8, <1>9 DEF SyncInv, Owned
<1> QED BY <1>6, <1>10 DEF IInv, RecordInv

LEMMA ReplaceOwnedInv == ASSUME IInv, NEW c \in Calls, ReplaceOwned(c) PROVE IInv'
<1> DEFINE k == call[c]
           new(e) == [staff |-> k.staff, label |-> e[1], nth |-> e[2], value |-> e[3],
                      owner |-> "directory", by |-> c, raced |-> k.raced]
           stays(m) == ~(m.owner = "directory" /\ \E n \in k.seen : Same(n, m))
<1>1. /\ k.op = "sync" /\ call' = [call EXCEPT ![c] = Done]
      /\ notes' = {m \in notes : stays(m)} \cup {new(e) : e \in k.entries}
      /\ UNCHANGED grantVars /\ UNCHANGED worldVars /\ UNCHANGED requests
  BY DEF ReplaceOwned
<1>2. /\ CallForm' /\ GrantSame /\ RecordSame
      /\ call'[c].op = "done" /\ \A d \in Calls \ {c} : call'[d] = call[d]
  BY <1>1, DoneStep
<1>3. /\ k \in MetadataCall
      /\ \A m \in Owned(k.staff) : (\E n \in k.seen : Same(n, m)) \/ (m.raced /\ k.raced)
  BY <1>1, CallTyped DEF IInv, RecordInv, SyncInv
<1>4. ASSUME NEW e \in k.entries
      PROVE  /\ new(e) \in Note /\ new(e).staff = k.staff /\ new(e).by = c
             /\ new(e).raced = k.raced
  BY <1>3 DEF MetadataCall, Note
<1>5. \A m \in notes : stays(m) /\ m.staff = k.staff /\ m.owner = "directory" => m.raced /\ k.raced
  BY <1>3 DEF Owned
<1> HIDE DEF k, new, stays
<1>6. TypeOK'
  BY <1>1, <1>4 DEF IInv, TypeOK, grantVars, worldVars
<1>7. NotesOnce'
  <2> SUFFICES ASSUME NEW n \in notes', NEW m \in notes', n.by # m.by, n.staff = m.staff,
                      n.owner = "directory", m.owner = "directory"
               PROVE  n.raced
    BY DEF NotesOnce
  <2>1. CASE n \in notes /\ m \in notes
    BY <2>1 DEF IInv, RecordInv, SyncInv, NotesOnce
  <2>2. CASE n \notin notes
    <3>1. PICK e \in k.entries : n = new(e)
      BY <1>1, <2>2
    <3>2. CASE m \in notes /\ stays(m)
      BY <1>4, <1>5, <3>1, <3>2
    <3>3. ASSUME NEW f \in k.entries, m = new(f) PROVE FALSE
      BY <1>4, <3>1, <3>3
    <3> QED BY <1>1, <3>2, <3>3
  <2>3. CASE m \notin notes
    <3>1. PICK e \in k.entries : m = new(e)
      BY <1>1, <2>3
    <3>2. CASE n \in notes /\ stays(n)
      BY <1>4, <1>5, <3>1, <3>2
    <3>3. ASSUME NEW f \in k.entries, n = new(f) PROVE FALSE
      BY <1>4, <3>1, <3>3
    <3> QED BY <1>1, <3>2, <3>3
  <2> QED BY <2>1, <2>2, <2>3
<1>8. ASSUME NEW d \in Calls, call'[d].op = "sync",
             NEW m \in notes', m.staff = call'[d].staff, m.owner = "directory"
      PROVE  (\E n \in call'[d].seen : Same(n, m)) \/ (m.raced /\ call'[d].raced)
  <2>1. d # c /\ call'[d] = call[d]
    BY <1>2, <1>8
  <2>2. CASE m \in notes
    BY <1>8, <2>1, <2>2 DEF IInv, RecordInv, SyncInv, Owned
  <2>3. ASSUME NEW e \in k.entries, m = new(e) PROVE m.raced /\ call[d].raced
    <3>1. m.staff = k.staff /\ m.raced = k.raced
      BY <1>4, <2>3
    <3>2. k.raced /\ call[d].raced
      BY <1>1, <1>8, <2>1, <3>1 DEF k, IInv, RecordInv, SyncInv
    <3> QED BY <3>1, <3>2
  <2> QED BY <1>1, <2>1, <2>2, <2>3
<1>9. SyncInv'
  <2>1. \A d \in Calls : call'[d].op = "sync" => d # c /\ call'[d] = call[d]
    BY <1>2
  <2>2. \A d, e \in Calls :
          d # e /\ call'[d].op = "sync" /\ call'[e].op = "sync" /\ call'[d].staff = call'[e].staff
            => call'[d].raced
    BY <2>1 DEF IInv, RecordInv, SyncInv
  <2> QED BY <1>7, <1>8, <2>2 DEF SyncInv, Owned
<1> QED BY <1>1, <1>2, <1>6, <1>9, GrantFrame, RequestFrame DEF IInv, RecordInv

-----------------------------------------------------------------------------
LEMMA ReorganiseInv == ASSUME IInv, NEW c \in Calls, Reorganise(c), UNCHANGED recordVars PROVE IInv'
<1>1. call' = [call EXCEPT ![c] = Done] /\ UNCHANGED grantVars
  BY DEF Reorganise
<1>2. CallForm' /\ GrantSame /\ RecordSame
  BY <1>1, DoneStep
<1>3. GrantInv' /\ RecordInv'
  BY <1>1, <1>2, GrantFrame, RecordFrame
<1>4. open' \subseteq Offices \cup Teams /\ left' \subseteq Staff
  BY DEF Reorganise, IInv, TypeOK
<1>5. TypeOK'
  BY <1>1, <1>4 DEF IInv, TypeOK, grantVars, recordVars
<1> QED BY <1>2, <1>3, <1>5 DEF IInv

LEMMA InitInv == ASSUME Init PROVE IInv
<1>1. /\ there = There /\ call = [c \in Calls |-> Unused]
      /\ opened = [u \in Users |-> {}] /\ closed = [u \in Users |-> {}]
      /\ open = Offices \cup Teams /\ left = {} /\ requests = {}
  BY DEF Init, InitGrants, InitWorld
<1>2. PICK K \in Initially :
        grants = [u \in Users |-> [k \in Key |->
                   IF k \in K THEN [state |-> "ending", row |-> 1, made |-> 1]
                              ELSE [state |-> "none", row |-> 0, made |-> 0]]]
  BY DEF Init, InitGrants
<1>3. \A k \in K : k[1] = "campaign" => k[2] \in There
  BY GrantAssumption
<1>4. PICK v \in Values :
        notes \in SUBSET [staff : Staff, label : Labels, nth : Slots, value : {v},
                          owner : {"directory"}, by : {None}, raced : {FALSE}]
  BY DEF Init
<1>5. grants \in [Users -> [Key -> Grant]]
  BY <1>2 DEF Grant
<1>6. notes \subseteq Note /\ NotesOnce
  <2>1. \A n \in notes : n \in Note /\ n.by = None
    BY <1>4 DEF Note
  <2> QED BY <2>1 DEF NotesOnce
<1>7. TypeOK
  BY <1>1, <1>5, <1>6, GrantAssumption DEF TypeOK
<1>8. \A c \in Calls : call[c].op = "unused"
  BY <1>1 DEF Unused
<1>9. CallForm
  BY <1>1, <1>8 DEF CallForm, Call
<1>10. RowsInv
  <2>1. \A u \in Users, k \in Key : Held(u, k) => k \in K
    BY <1>2 DEF Held
  <2> QED BY <1>1, <1>3, <2>1 DEF RowsInv, Exists
<1>11. RaceInv /\ GrantingInv /\ RevokingInv
  BY <1>8 DEF RaceInv, GrantingInv, RevokingInv, Granting, Revoking
<1>12. RequestInv /\ SyncInv
  BY <1>1, <1>6, <1>8 DEF RequestInv, RequestsOnce, SyncInv
<1> QED BY <1>7, <1>9, <1>10, <1>11, <1>12 DEF IInv, GrantInv, RecordInv

LEMMA NextInv == ASSUME IInv, [Next]_vars PROVE IInv'
<1>1. CASE GrantNext /\ UNCHANGED <<worldVars, recordVars>>
  <2>1. UNCHANGED <<worldVars, recordVars>>
    BY <1>1
  <2>2. ASSUME NEW c \in Calls, NEW u \in Users, NEW a \in Accounts, NEW ends \in BOOLEAN,
               \/ GrantFullAccountAccess(c, u, a, ends)
               \/ \E ks \in SUBSET there : GrantAccountAccess(c, u, a, ks, ends)
        PROVE  IInv'
    BY <2>1, <2>2, GrantFullAccountAccessInv, GrantAccountAccessInv
  <2>3. ASSUME NEW c \in Calls, NEW u \in Users,
               \/ \E k \in Key : RevokeAccess(c, u, k)
               \/ \E a \in Accounts : RevokeFullAccountAccess(c, u, a)
        PROVE  IInv'
    BY <2>1, <2>3, RevokeAccessInv, RevokeFullAccountAccessInv
  <2>4. ASSUME NEW c \in Calls,
               \/ FindGrants(c) \/ CommitGrants(c)
               \/ CollectGrants(c) \/ CollectFunctional(c) \/ RevokeRows(c)
        PROVE  IInv'
    BY <2>1, <2>4, FindGrantsInv, CommitGrantsInv, CollectGrantsInv, CollectFunctionalInv,
       RevokeRowsInv
  <2>5. ASSUME NEW k \in Campaigns, CreateCampaign(k) PROVE IInv'
    BY <2>1, <2>5, CreateCampaignInv
  <2>6. ASSUME NEW u \in Users, NEW k \in Key, Expire(u, k) PROVE IInv'
    BY <2>1, <2>6, ExpireInv
  <2> QED BY <1>1, <2>2, <2>3, <2>4, <2>5, <2>6 DEF GrantNext
<1>2. CASE (\E c \in Calls : Reorganise(c)) /\ UNCHANGED recordVars
  BY <1>2, ReorganiseInv
<1>3. CASE RecordNext
  <2>1. ASSUME NEW c \in Calls, NEW u \in Users, NEW w \in Wishes, CreateAccessRequest(c, u, w)
        PROVE  IInv'
    BY <2>1, CreateAccessRequestInv
  <2>2. ASSUME NEW c \in Calls, NEW s \in Staff, NEW l \in Labels, NEW v \in Values,
               CreateStaffMetadata(c, s, l, v) \/ ImportRow(c, s, l, v)
        PROVE  IInv'
    BY <2>2, CreateStaffMetadataInv, ImportRowInv
  <2>3. ASSUME NEW c \in Calls, NEW n \in notes, NEW op \in {"update", "delete"},
               LookUpNote(c, n, op)
        PROVE  IInv'
    BY <2>3, LookUpNoteInv
  <2>4. ASSUME NEW c \in Calls,
               \/ InsertRequest(c) \/ UpdateStaffMetadata(c) \/ DeleteStaffMetadata(c)
               \/ WriteImported(c) \/ ReplaceOwned(c)
        PROVE  IInv'
    BY <2>4, InsertRequestInv, UpdateStaffMetadataInv, DeleteStaffMetadataInv,
       WriteImportedInv, ReplaceOwnedInv
  <2>5. ASSUME NEW c \in Calls, NEW s \in Staff, NEW E \in SUBSET (Labels \X Slots),
               \E f \in [E -> Values] : SyncMetadata(c, s, {<<e[1], e[2], f[e]>> : e \in E})
        PROVE  IInv'
    BY <2>5, SyncMetadataInv
  <2>6. ASSUME NEW r \in requests, ReviewRequest(r) PROVE IInv'
    BY <2>6, ReviewRequestInv
  <2> QED BY <1>3, <2>1, <2>2, <2>3, <2>4, <2>5, <2>6 DEF RecordNext
<1>4. CASE UNCHANGED vars
  <2>1. /\ UNCHANGED grantVars /\ UNCHANGED worldVars /\ UNCHANGED recordVars /\ UNCHANGED call
    BY <1>4 DEF vars
  <2>2. TypeOK' /\ CallForm' /\ GrantSame /\ RecordSame
    BY <2>1 DEF IInv, TypeOK, CallForm, GrantSame, RecordSame, grantVars, worldVars, recordVars
  <2> QED BY <2>1, <2>2, GrantFrame, RecordFrame DEF IInv
<1> QED BY <1>1, <1>2, <1>3, <1>4 DEF Next

LEMMA Inductive == Spec => []IInv
<1>1. Init => IInv
  BY InitInv
<1>2. IInv /\ [Next]_vars => IInv'
  BY NextInv
<1> QED BY <1>1, <1>2, PTL DEF Spec

-----------------------------------------------------------------------------
(* What the reads make of it.                                              *)

LEMMA GrantedIds ==
  ASSUME NEW u, NEW type, NEW x
  PROVE  x \in GrantedResourceIds(u, type) <=> <<type, x>> \in Key /\ Usable(u, <<type, x>>)
<1>1. \A k \in Key : k = <<k[1], k[2]>>
  BY DEF Key
<1> QED BY <1>1 DEF GrantedResourceIds

LEMMA KeyForm ==
  /\ \A k \in Key : /\ k = <<k[1], k[2]>>
                    /\ k[1] \in {"account", "campaign", "func:temporal"}
                    /\ k[1] = "campaign" => k[2] \in Campaigns /\ AccountOfKey(k) = AccountOf[k[2]]
                    /\ k[1] # "campaign" => k[2] \in Accounts /\ AccountOfKey(k) = k[2]
  /\ \A a \in Accounts : /\ <<"account", a>> \in Key /\ AccountOfKey(<<"account", a>>) = a
                         /\ <<"func:temporal", a>> \in Key
  /\ \A k \in Campaigns :
       <<"campaign", k>> \in Key /\ AccountOfKey(<<"campaign", k>>) = AccountOf[k]
BY DEF Key, AccountOfKey

LEMMA OpenMeans == ASSUME IInv PROVE GrantedIsOpen
<1> SUFFICES ASSUME NEW u \in Users, NEW k \in opened[u]
             PROVE CASE k[1] = "account" ->
                      k[2] \in ListAccounts(u, FALSE) /\ GetAccount(u, k[2], FALSE) = "ok"
                 [] k[1] = "campaign" ->
                      /\ k[2] \in ListCampaigns(u, FALSE) /\ GetCampaign(u, k[2], FALSE) = "ok"
                      /\ <<"account", AccountOf[k[2]]>> \in opened[u]
                           => k[2] \in ListCampaignsByAccount(u, AccountOf[k[2]], FALSE)
                 [] k[1] = "func:temporal" ->
                      <<"account", k[2]>> \in opened[u] => GetAccountHistory(u, k[2], FALSE) = "ok"
  BY DEF GrantedIsOpen
<1>1. \A x \in opened[u] : x \in Key /\ Usable(u, x) /\ (x[1] = "campaign" => x[2] \in there)
  BY DEF IInv, TypeOK, GrantInv, RowsInv, Exists, Usable, Held
<1>2. k = <<k[1], k[2]>> /\ k[1] \in {"account", "campaign", "func:temporal"}
  BY <1>1, KeyForm
<1>3. k[2] \in GrantedResourceIds(u, k[1])
  BY <1>1, <1>2, GrantedIds
<1>4. CASE k[1] = "account"
  <2>1. Usable(u, <<"account", k[2]>>)
    BY <1>1, <1>2, <1>4
  <2> QED BY <1>3, <1>4, <2>1 DEF ListAccounts, GetAccount, CheckAccess
<1>5. CASE k[1] = "campaign"
  <2>1. k[2] \in there /\ Usable(u, <<"campaign", k[2]>>)
    BY <1>1, <1>2, <1>5
  <2>2. k[2] \in ListCampaigns(u, FALSE) /\ GetCampaign(u, k[2], FALSE) = "ok"
    BY <1>3, <1>5, <2>1 DEF ListCampaigns, GetCampaign, CheckAccess
  <2>3. <<"account", AccountOf[k[2]]>> \in opened[u]
          => k[2] \in ListCampaignsByAccount(u, AccountOf[k[2]], FALSE)
    BY <1>1, <1>3, <1>5, <2>1 DEF ListCampaignsByAccount, GetAccount, CheckAccess, CampaignsOf
  <2> QED BY <1>5, <2>2, <2>3
<1>6. CASE k[1] = "func:temporal"
  <2>1. <<"account", k[2]>> \in opened[u] => GetAccountHistory(u, k[2], FALSE) = "ok"
    BY <1>1, <1>3, <1>6 DEF GetAccountHistory, CheckAccess, TemporalCutoff
  <2> QED BY <1>6, <2>1
<1> QED BY <1>2, <1>4, <1>5, <1>6

LEMMA ClosedMeans == ASSUME IInv PROVE RevokedIsClosed
<1> SUFFICES ASSUME NEW u \in Users, NEW a \in closed[u]
             PROVE  /\ a \notin ListAccounts(u, FALSE)
                    /\ \A k \in StaffAccessSummary(u) : AccountOfKey(k) # a
                    /\ GetAccountHistory(u, a, FALSE) = "denied"
                    /\ \A k \in CampaignsOf(a) : /\ k \notin ListCampaigns(u, FALSE)
                                                 /\ GetCampaign(u, k, FALSE) = "denied"
                                                 /\ GetCampaignHistory(u, k, FALSE) = "denied"
  BY DEF RevokedIsClosed
<1>1. a \in Accounts /\ there \subseteq Campaigns
  BY DEF IInv, TypeOK
<1>2. \A k \in Key : AccountOfKey(k) = a => ~Held(u, k) /\ ~Usable(u, k)
  BY DEF IInv, GrantInv, RowsInv, Held, Usable
<1>3. ~Usable(u, <<"account", a>>)
  BY <1>1, <1>2, KeyForm
<1>4. a \notin ListAccounts(u, FALSE)
  BY <1>3, GrantedIds DEF ListAccounts
<1>5. \A k \in StaffAccessSummary(u) : AccountOfKey(k) # a
  BY <1>2 DEF StaffAccessSummary
<1>6. GetAccountHistory(u, a, FALSE) = "denied"
  BY <1>3 DEF GetAccountHistory, CheckAccess
<1>7. ASSUME NEW k \in CampaignsOf(a)
      PROVE  /\ k \notin ListCampaigns(u, FALSE)
             /\ GetCampaign(u, k, FALSE) = "denied"
             /\ GetCampaignHistory(u, k, FALSE) = "denied"
  <2>1. k \in there /\ AccountOf[k] = a
    BY DEF CampaignsOf
  <2>2. ~Usable(u, <<"campaign", k>>)
    BY <1>1, <1>2, <2>1, KeyForm
  <2>3. k \notin ListCampaigns(u, FALSE)
    BY <2>2, GrantedIds DEF ListCampaigns
  <2> QED BY <2>1, <2>2, <2>3 DEF GetCampaign, GetCampaignHistory, CheckAccess
<1> QED BY <1>4, <1>5, <1>6, <1>7

\* The lists of offices and of teams, whatever the grants.
LEMMA UnitsListed ==
  ASSUME NEW G, NEW units, NEW admin \in BOOLEAN
  PROVE  /\ \A o \in units : o \in Listed(Visibility(G, units), units, admin, FALSE)
                               <=> Status(Readable(Visibility(G, units), o, admin)) = 200
         /\ Listed(Visibility(G, units), units, admin, TRUE)
              = Listed(Visibility(G, units), units, admin, FALSE) \cap open
<1> DEFINE vis == Visibility(G, units)
<1>1. /\ vis.none <=> G = {}
      /\ vis.allVisible <=> "all" \in G
      /\ vis.activeOnly <=> "active" \in G
      /\ vis.ids = G \cap units
  BY DEF Visibility
<1> HIDE DEF vis
<1>2. ASSUME NEW o \in units
      PROVE  o \in Listed(vis, units, admin, FALSE) <=> Status(Readable(vis, o, admin)) = 200
  <2> DEFINE shown ==
        admin \/ (~vis.none /\ (vis.allVisible \/ (vis.activeOnly /\ o \in open) \/ o \in vis.ids))
  <2>1. o \in Listed(vis, units, admin, FALSE) <=> shown
    BY DEF Listed
  <2>2. Readable(vis, o, admin) = IF shown THEN "ok" ELSE "denied"
    BY DEF Readable
  <2>3. Status("ok") = 200 /\ Status("denied") = 403
    BY DEF Status
  <2>4. CASE shown
    BY <2>1, <2>2, <2>3, <2>4
  <2>5. CASE ~shown
    <3>1. Readable(vis, o, admin) = "denied" /\ o \notin Listed(vis, units, admin, FALSE)
      BY <2>1, <2>2, <2>5
    <3>2. Status(Readable(vis, o, admin)) = 403
      BY <2>3, <3>1
    <3>3. Status(Readable(vis, o, admin)) # 200
      BY <3>2
    <3> QED BY <3>1, <3>3
  <2> QED BY <2>4, <2>5
<1>3. Listed(vis, units, admin, TRUE) = Listed(vis, units, admin, FALSE) \cap open
  BY DEF Listed
<1> QED BY <1>2, <1>3 DEF vis

\* More grants, or being an administrator, show more units.
LEMMA UnitsGrow ==
  ASSUME NEW G, NEW units, NEW g, NEW admin \in BOOLEAN, NEW ao \in BOOLEAN
  PROVE  /\ Listed(Visibility(G, units), units, admin, ao)
              \subseteq Listed(Visibility(G \cup {g}, units), units, admin, ao)
         /\ Listed(Visibility(G, units), units, admin, ao)
              \subseteq Listed(Visibility(G, units), units, TRUE, ao)
<1> DEFINE vis == Visibility(G, units)
           more == Visibility(G \cup {g}, units)
<1>1. /\ more.none => vis.none
      /\ vis.allVisible => more.allVisible
      /\ vis.activeOnly => more.activeOnly
      /\ vis.ids \subseteq more.ids
  BY DEF Visibility
<1> HIDE DEF vis, more
<1>2. Listed(vis, units, admin, ao) \subseteq Listed(more, units, admin, ao)
  BY <1>1 DEF Listed
<1>3. Listed(vis, units, admin, ao) \subseteq Listed(vis, units, TRUE, ao)
  BY DEF Listed
<1> QED BY <1>2, <1>3 DEF vis, more

LEMMA ShownByCases ==
  ASSUME NEW g \in StaffCohort, NEW ao \in BOOLEAN
  PROVE  /\ ShownBy(g, ao) \subseteq IF ao THEN Current ELSE Staff
         /\ ShownBy("staff_all", ao) = IF ao THEN Current ELSE Staff
         /\ ShownBy(g, TRUE) = ShownBy(g, FALSE) \cap Current
<1>1. Current \subseteq Staff
  BY DEF Current
<1>2. ShownBy("staff_all", ao) = IF ao THEN Current ELSE Staff
  BY ReadAssumption DEF ShownBy
<1>3. CASE g = "staff_all"
  <2>1. \A b \in BOOLEAN : ShownBy(g, b) = IF b THEN Current ELSE Staff
    BY <1>3, ReadAssumption DEF ShownBy
  <2> QED BY <1>1, <1>2, <2>1
<1>4. CASE g = "staff_current"
  <2>1. \A b \in BOOLEAN : ShownBy(g, b) = Current
    BY <1>4, ReadAssumption DEF ShownBy
  <2> QED BY <1>1, <1>2, <2>1
<1>5. CASE g \in Offices
  <2>1. \A b \in BOOLEAN : ShownBy(g, b) = {s \in IF b THEN Current ELSE Staff : OfficeOf[s] = g}
    BY <1>5, ReadAssumption DEF ShownBy
  <2> QED BY <1>1, <1>2, <2>1
<1>6. CASE g \in Teams
  <2>1. \A b \in BOOLEAN : ShownBy(g, b) = {s \in IF b THEN Current ELSE Staff : g \in TeamsOf[s]}
    BY <1>6, ReadAssumption DEF ShownBy
  <2> QED BY <1>1, <1>2, <2>1
<1> QED BY <1>3, <1>4, <1>5, <1>6 DEF StaffCohort

LEMMA StaffListed ==
  ASSUME NEW G \in SUBSET StaffCohort, NEW g \in StaffCohort, NEW admin \in BOOLEAN
  PROVE  /\ \A ao \in BOOLEAN : /\ ListStaff(G, admin, ao) \subseteq ListStaff(G \cup {g}, admin, ao)
                                /\ ListStaff(G, admin, ao) \subseteq ListStaff(G, TRUE, ao)
                                /\ ListStaff(G, admin, ao) \subseteq Staff
         /\ ListStaff(G, admin, TRUE) = ListStaff(G, admin, FALSE) \cap Current
<1>1. Current \subseteq Staff
  BY DEF Current
<1>2. ASSUME NEW ao \in BOOLEAN, NEW H \in SUBSET StaffCohort
      PROVE  /\ ListStaff(H, admin, ao) \subseteq IF ao THEN Current ELSE Staff
             /\ ListStaff(H, TRUE, ao) = IF ao THEN Current ELSE Staff
             /\ admin \/ "staff_all" \in H => ListStaff(H, admin, ao) = IF ao THEN Current ELSE Staff
             /\ ~admin /\ "staff_all" \notin H =>
                  \A s : s \in ListStaff(H, admin, ao) <=> \E h \in H : s \in ShownBy(h, ao)
  <2>1. \A h \in H : ShownBy(h, ao) \subseteq IF ao THEN Current ELSE Staff
    BY ShownByCases
  <2>2. ShownBy("staff_all", ao) = IF ao THEN Current ELSE Staff
    BY ShownByCases
  <2> QED BY <2>1, <2>2 DEF ListStaff
<1>3. G \cup {g} \in SUBSET StaffCohort
  OBVIOUS
<1>4. ASSUME NEW ao \in BOOLEAN
      PROVE  /\ ListStaff(G, admin, ao) \subseteq ListStaff(G \cup {g}, admin, ao)
             /\ ListStaff(G, admin, ao) \subseteq ListStaff(G, TRUE, ao)
             /\ ListStaff(G, admin, ao) \subseteq Staff
  <2>1. CASE admin \/ "staff_all" \in G \cup {g}
    BY <1>1, <1>2, <1>3, <2>1
  <2>2. CASE ~admin /\ "staff_all" \notin G \cup {g}
    BY <1>1, <1>2, <1>3, <2>2
  <2> QED BY <2>1, <2>2
<1>5. ListStaff(G, admin, TRUE) = ListStaff(G, admin, FALSE) \cap Current
  <2>1. CASE admin \/ "staff_all" \in G
    <3>1. ListStaff(G, admin, TRUE) = Current /\ ListStaff(G, admin, FALSE) = Staff
      BY <1>2, <2>1
    <3> QED BY <1>1, <3>1
  <2>2. CASE ~admin /\ "staff_all" \notin G
    <3> DEFINE some(h) == ShownBy(h, TRUE)
               each(h) == ShownBy(h, FALSE)
               current == ListStaff(G, admin, TRUE)
               all == ListStaff(G, admin, FALSE)
    <3>1. \A h \in G : \A s : s \in some(h) <=> s \in each(h) /\ s \in Current
      BY ShownByCases
    <3>2. \A s : s \in current <=> \E h \in G : s \in some(h)
      BY <1>2, <2>2
    <3>3. \A s : s \in all <=> \E h \in G : s \in each(h)
      BY <1>2, <2>2
    <3> HIDE DEF some, each, current, all
    <3>4. current = all \cap Current
      BY <3>1, <3>2, <3>3
    <3> QED BY <3>4 DEF current, all
  <2> QED BY <2>1, <2>2
<1> QED BY <1>4, <1>5

LEMMA StatusOf == Status("ok") = 200 /\ Status("denied") # 200 /\ Status("missing") # 200
BY DEF Status

LEMMA AccountsListed ==
  ASSUME IInv, NEW u \in Users, NEW admin \in BOOLEAN
  PROVE  /\ \A a \in Accounts :
              a \in ListAccounts(u, admin) <=> Status(GetAccount(u, a, admin)) = 200
         /\ \A k \in Campaigns :
              k \in ListCampaigns(u, admin) <=> Status(GetCampaign(u, k, admin)) = 200
         /\ \A a \in Accounts :
              ListCampaignsByAccount(u, a, admin) \subseteq ListCampaigns(u, admin) \cup {"denied"}
<1>1. \A a \in Accounts : a \in GrantedResourceIds(u, "account") <=> Usable(u, <<"account", a>>)
  BY GrantedIds, KeyForm
<1>2. \A k \in Campaigns : k \in GrantedResourceIds(u, "campaign") <=> Usable(u, <<"campaign", k>>)
  BY GrantedIds, KeyForm
<1>3. ASSUME NEW a \in Accounts
      PROVE  a \in ListAccounts(u, admin) <=> Status(GetAccount(u, a, admin)) = 200
  <2>1. CASE admin \/ Usable(u, <<"account", a>>)
    <3>1. a \in ListAccounts(u, admin)
      BY <1>1, <2>1 DEF ListAccounts
    <3>2. GetAccount(u, a, admin) = "ok"
      BY <2>1 DEF GetAccount, CheckAccess
    <3> QED BY <3>1, <3>2, StatusOf
  <2>2. CASE ~(admin \/ Usable(u, <<"account", a>>))
    <3>1. a \notin ListAccounts(u, admin)
      BY <1>1, <2>2 DEF ListAccounts
    <3>2. GetAccount(u, a, admin) = "denied"
      BY <2>2 DEF GetAccount, CheckAccess
    <3> QED BY <3>1, <3>2, StatusOf
  <2> QED BY <2>1, <2>2
<1>4. ASSUME NEW k \in Campaigns
      PROVE  k \in ListCampaigns(u, admin) <=> Status(GetCampaign(u, k, admin)) = 200
  <2>1. CASE k \in there /\ (admin \/ Usable(u, <<"campaign", k>>))
    <3>1. k \in ListCampaigns(u, admin)
      BY <1>2, <2>1 DEF ListCampaigns
    <3>2. GetCampaign(u, k, admin) = "ok"
      BY <2>1 DEF GetCampaign, CheckAccess
    <3> QED BY <3>1, <3>2, StatusOf
  <2>2. CASE ~(k \in there /\ (admin \/ Usable(u, <<"campaign", k>>)))
    <3>1. k \notin ListCampaigns(u, admin)
      BY <1>2, <2>2 DEF ListCampaigns
    <3>2. GetCampaign(u, k, admin) \in {"denied", "missing"}
      BY <2>2 DEF GetCampaign, CheckAccess
    <3> QED BY <3>1, <3>2, StatusOf
  <2> QED BY <2>1, <2>2
<1>5. ASSUME NEW a \in Accounts
      PROVE  ListCampaignsByAccount(u, a, admin) \subseteq ListCampaigns(u, admin) \cup {"denied"}
  BY DEF ListCampaignsByAccount, ListCampaigns, CampaignsOf
<1> QED BY <1>3, <1>4, <1>5

LEMMA OfficesListed ==
  ASSUME NEW G, NEW admin \in BOOLEAN
  PROVE  /\ \A o \in Offices : o \in OfficesRoute(G, admin, "absent")
                             <=> Status(GetOffice(G, o, admin)) = 200
         /\ \A q \in Query :
              /\ OfficesRoute(G, admin, "true") = OfficesRoute(G, admin, q) \cap open
              /\ OfficesRoute(G, admin, q) \subseteq OfficesRoute(G, TRUE, q)
              /\ \A g \in Cohort(Offices) \ G :
                   OfficesRoute(G, admin, q) \subseteq OfficesRoute(G \cup {g}, admin, q)
<1>1. /\ OfficesRoute(G, admin, "true") = ListOffices(G, admin, TRUE)
      /\ OfficesRoute(G, admin, "absent") = ListOffices(G, admin, FALSE)
  BY DEF OfficesRoute
<1>2. /\ \A o \in Offices : o \in ListOffices(G, admin, FALSE) <=> Status(GetOffice(G, o, admin)) = 200
      /\ ListOffices(G, admin, TRUE) = ListOffices(G, admin, FALSE) \cap open
  BY UnitsListed DEF ListOffices, GetOffice, OfficeVisibility
<1>3. ASSUME NEW q \in Query
      PROVE  /\ OfficesRoute(G, admin, "true") = OfficesRoute(G, admin, q) \cap open
             /\ OfficesRoute(G, admin, q) \subseteq OfficesRoute(G, TRUE, q)
             /\ \A g \in Cohort(Offices) \ G :
                  OfficesRoute(G, admin, q) \subseteq OfficesRoute(G \cup {g}, admin, q)
  <2> DEFINE ao == q = "true"
  <2>1. ao \in BOOLEAN /\ \A H : \A b : OfficesRoute(H, b, q) = ListOffices(H, b, ao)
    BY DEF OfficesRoute
  <2> HIDE DEF ao
  <2>2. ListOffices(G, admin, ao) \subseteq ListOffices(G, TRUE, ao)
    BY <2>1, UnitsGrow DEF ListOffices, OfficeVisibility
  <2>3. ASSUME NEW g PROVE ListOffices(G, admin, ao) \subseteq ListOffices(G \cup {g}, admin, ao)
    BY <2>1, UnitsGrow DEF ListOffices, OfficeVisibility
  <2>4. ListOffices(G, admin, TRUE) = ListOffices(G, admin, ao) \cap open
    BY <1>2, <2>1 DEF ListOffices, Listed
  <2>5. \A g : OfficesRoute(G, admin, q) \subseteq OfficesRoute(G \cup {g}, admin, q)
    BY <2>1, <2>3
  <2> QED BY <1>1, <2>1, <2>2, <2>4, <2>5
<1> QED BY <1>1, <1>2, <1>3

LEMMA TeamsListed ==
  ASSUME NEW G, NEW admin \in BOOLEAN
  PROVE  /\ \A t \in Teams : t \in TeamsRoute(G, admin, "absent")
                           <=> Status(GetTeam(G, t, admin)) = 200
         /\ \A q \in Query :
              /\ TeamsRoute(G, admin, "true") = TeamsRoute(G, admin, q) \cap open
              /\ TeamsRoute(G, admin, q) \subseteq TeamsRoute(G, TRUE, q)
              /\ \A g \in Cohort(Teams) \ G :
                   TeamsRoute(G, admin, q) \subseteq TeamsRoute(G \cup {g}, admin, q)
<1>1. /\ TeamsRoute(G, admin, "true") = ListTeams(G, admin, TRUE)
      /\ TeamsRoute(G, admin, "absent") = ListTeams(G, admin, FALSE)
  BY DEF TeamsRoute
<1>2. /\ \A t \in Teams : t \in ListTeams(G, admin, FALSE) <=> Status(GetTeam(G, t, admin)) = 200
      /\ ListTeams(G, admin, TRUE) = ListTeams(G, admin, FALSE) \cap open
  BY UnitsListed DEF ListTeams, GetTeam, TeamVisibility
<1>3. ASSUME NEW q \in Query
      PROVE  /\ TeamsRoute(G, admin, "true") = TeamsRoute(G, admin, q) \cap open
             /\ TeamsRoute(G, admin, q) \subseteq TeamsRoute(G, TRUE, q)
             /\ \A g \in Cohort(Teams) \ G :
                  TeamsRoute(G, admin, q) \subseteq TeamsRoute(G \cup {g}, admin, q)
  <2> DEFINE ao == q = "true"
  <2>1. ao \in BOOLEAN /\ \A H : \A b : TeamsRoute(H, b, q) = ListTeams(H, b, ao)
    BY DEF TeamsRoute
  <2> HIDE DEF ao
  <2>2. ListTeams(G, admin, ao) \subseteq ListTeams(G, TRUE, ao)
    BY <2>1, UnitsGrow DEF ListTeams, TeamVisibility
  <2>3. ASSUME NEW g PROVE ListTeams(G, admin, ao) \subseteq ListTeams(G \cup {g}, admin, ao)
    BY <2>1, UnitsGrow DEF ListTeams, TeamVisibility
  <2>4. ListTeams(G, admin, TRUE) = ListTeams(G, admin, ao) \cap open
    BY <1>2, <2>1 DEF ListTeams, Listed
  <2>5. \A g : TeamsRoute(G, admin, q) \subseteq TeamsRoute(G \cup {g}, admin, q)
    BY <2>1, <2>3
  <2> QED BY <1>1, <2>1, <2>2, <2>4, <2>5
<1> QED BY <1>1, <1>2, <1>3

LEMMA StaffRoutes ==
  ASSUME NEW G \in SUBSET StaffCohort, NEW admin \in BOOLEAN
  PROVE  /\ StaffRoute(G, admin, "absent") = StaffRoute(G, admin, "true") \cap Current
         /\ \A q \in Query :
              /\ \A s \in StaffRoute(G, admin, q) : Status(GetStaffMember(s)) = 200
              /\ StaffRoute(G, admin, q) \subseteq StaffRoute(G, TRUE, q)
              /\ \A g \in StaffCohort \ G :
                   StaffRoute(G, admin, q) \subseteq StaffRoute(G \cup {g}, admin, q)
<1>1. /\ StaffRoute(G, admin, "absent") = ListStaff(G, admin, TRUE)
      /\ StaffRoute(G, admin, "true") = ListStaff(G, admin, FALSE)
  BY DEF StaffRoute
<1>2. "staff_all" \in StaffCohort
  BY DEF StaffCohort
<1>3. StaffRoute(G, admin, "absent") = StaffRoute(G, admin, "true") \cap Current
  BY <1>1, <1>2, StaffListed
<1>4. ASSUME NEW q \in Query, NEW g \in StaffCohort
      PROVE  /\ StaffRoute(G, admin, q) \subseteq StaffRoute(G \cup {g}, admin, q)
             /\ StaffRoute(G, admin, q) \subseteq StaffRoute(G, TRUE, q)
             /\ StaffRoute(G, admin, q) \subseteq Staff
  <2>1. PICK ao \in BOOLEAN : /\ StaffRoute(G, admin, q) = ListStaff(G, admin, ao)
                              /\ StaffRoute(G, TRUE, q) = ListStaff(G, TRUE, ao)
                              /\ StaffRoute(G \cup {g}, admin, q) = ListStaff(G \cup {g}, admin, ao)
    BY DEF StaffRoute
  <2>2. /\ ListStaff(G, admin, ao) \subseteq ListStaff(G \cup {g}, admin, ao)
        /\ ListStaff(G, admin, ao) \subseteq ListStaff(G, TRUE, ao)
        /\ ListStaff(G, admin, ao) \subseteq Staff
    BY StaffListed
  <2> QED BY <2>1, <2>2
<1>5. \A s \in Staff : Status(GetStaffMember(s)) = 200
  BY StatusOf DEF GetStaffMember
<1> QED BY <1>2, <1>3, <1>4, <1>5

LEMMA ListedMeans == ASSUME IInv PROVE ListedIffReadable
<1>1. \A u \in Users, admin \in BOOLEAN :
        /\ \A a \in Accounts :
             a \in ListAccounts(u, admin) <=> Status(GetAccount(u, a, admin)) = 200
        /\ \A k \in Campaigns :
             k \in ListCampaigns(u, admin) <=> Status(GetCampaign(u, k, admin)) = 200
        /\ \A a \in Accounts :
             ListCampaignsByAccount(u, a, admin) \subseteq ListCampaigns(u, admin) \cup {"denied"}
  BY AccountsListed
<1>2. \A G \in SUBSET Cohort(Offices), admin \in BOOLEAN :
        /\ \A o \in Offices : o \in OfficesRoute(G, admin, "absent")
                            <=> Status(GetOffice(G, o, admin)) = 200
        /\ \A q \in Query :
             /\ OfficesRoute(G, admin, "true") = OfficesRoute(G, admin, q) \cap open
             /\ OfficesRoute(G, admin, q) \subseteq OfficesRoute(G, TRUE, q)
             /\ \A g \in Cohort(Offices) \ G :
                  OfficesRoute(G, admin, q) \subseteq OfficesRoute(G \cup {g}, admin, q)
  BY OfficesListed
<1>3. \A G \in SUBSET Cohort(Teams), admin \in BOOLEAN :
        /\ \A t \in Teams : t \in TeamsRoute(G, admin, "absent")
                          <=> Status(GetTeam(G, t, admin)) = 200
        /\ \A q \in Query :
             /\ TeamsRoute(G, admin, "true") = TeamsRoute(G, admin, q) \cap open
             /\ TeamsRoute(G, admin, q) \subseteq TeamsRoute(G, TRUE, q)
             /\ \A g \in Cohort(Teams) \ G :
                  TeamsRoute(G, admin, q) \subseteq TeamsRoute(G \cup {g}, admin, q)
  BY TeamsListed
<1> QED BY <1>1, <1>2, <1>3, StaffRoutes DEF ListedIffReadable

-----------------------------------------------------------------------------
(* An entry the directory does not own goes only by a delete.              *)

Deleted(n) == \E c \in Calls : call[c].op = "delete" /\ \E s \in call[c].seen : Same(n, s)

DeletesOnly == \A n \in notes :
  n.owner # "directory" /\ ~(\E m \in notes' : Same(n, m)) => Deleted(n)

LEMMA Grown == ASSUME notes \subseteq notes' PROVE DeletesOnly
BY DEF DeletesOnly, Same

LEMMA DeletesOnlyStep == ASSUME IInv, [Next]_vars PROVE DeletesOnly
<1>1. ASSUME UNCHANGED recordVars PROVE DeletesOnly
  BY <1>1, Grown DEF recordVars
<1>2. ASSUME UNCHANGED notes PROVE DeletesOnly
  BY <1>2, Grown
<1>3. ASSUME NEW c \in Calls, NEW s \in Staff, NEW l \in Labels, NEW v \in Values,
             CreateStaffMetadata(c, s, l, v) \/ ImportRow(c, s, l, v)
      PROVE  DeletesOnly
  BY <1>1, <1>3, Grown DEF CreateStaffMetadata, ImportRow
<1>4. ASSUME NEW c \in Calls, UpdateStaffMetadata(c) PROVE DeletesOnly
  <2>1. notes \subseteq Note
    BY DEF IInv, TypeOK
  <2>2. ASSUME NEW n \in call[c].seen, NEW m \in Now(n), NEW new, notes' = Replaced(m, new), Same(m, new)
        PROVE  DeletesOnly
    BY <2>2 DEF DeletesOnly, Replaced, Now, Same
  <2>3. \A m \in Note : \A v : Same(m, [m EXCEPT !.value = v]) /\ Same(m, [m EXCEPT !.owner = "manual"])
    BY DEF Same, Note
  <2>4. \A n : Now(n) \subseteq Note
    BY <2>1 DEF Now
  <2>5. ASSUME NEW m \in UNION {Now(n) : n \in call[c].seen},
               \/ \E v \in Values : notes' = Replaced(m, [m EXCEPT !.value = v])
               \/ notes' = Replaced(m, [m EXCEPT !.owner = "manual"])
        PROVE  DeletesOnly
    <3>1. PICK n \in call[c].seen : m \in Now(n)
      OBVIOUS
    <3>2. m \in Note
      BY <2>4, <3>1
    <3>3. PICK new : notes' = Replaced(m, new) /\ Same(m, new)
      BY <2>3, <2>5, <3>2
    <3> QED BY <2>2, <3>1, <3>3
  <2> QED BY <1>2, <1>4, <2>5 DEF UpdateStaffMetadata
<1>5. ASSUME NEW c \in Calls, DeleteStaffMetadata(c) PROVE DeletesOnly
  BY <1>5 DEF DeletesOnly, Deleted, DeleteStaffMetadata, Now, Same
<1>6. ASSUME NEW c \in Calls, WriteImported(c) PROVE DeletesOnly
  <2>1. notes \subseteq Note
    BY DEF IInv, TypeOK
  <2> DEFINE taken(m) == [m EXCEPT !.value = call[c].value, !.owner = "import"]
             new == [staff |-> call[c].staff, label |-> call[c].label, nth |-> None,
                     value |-> call[c].value, owner |-> "import", by |-> c, raced |-> call[c].raced]
  <2>2. \A m \in notes : Same(m, taken(m)) /\ Same(m, m)
    BY <2>1 DEF Same, Note
  <2>3. notes' = IF call[c].seen = {} THEN notes \cup {new}
                 ELSE {IF \E n \in call[c].seen : Same(n, m) THEN taken(m) ELSE m : m \in notes}
    BY <1>6 DEF WriteImported
  <2> HIDE DEF taken, new
  <2>4. \A n \in notes : \E m \in notes' : Same(n, m)
    BY <2>2, <2>3
  <2> QED BY <2>4 DEF DeletesOnly
<1>7. ASSUME NEW c \in Calls, ReplaceOwned(c) PROVE DeletesOnly
  <2>1. \A m \in notes : m.owner # "directory" => m \in notes'
    BY <1>7 DEF ReplaceOwned
  <2> QED BY <2>1 DEF DeletesOnly, Same
<1>8. ASSUME NEW c \in Calls, InsertRequest(c) PROVE DeletesOnly
  BY <1>2, <1>8 DEF InsertRequest
<1>9. ASSUME NEW r \in requests, ReviewRequest(r) PROVE DeletesOnly
  BY <1>2, <1>9 DEF ReviewRequest
<1>10. ASSUME NEW c \in Calls,
              \/ \E u \in Users, w \in Wishes : CreateAccessRequest(c, u, w)
              \/ \E n \in notes, op \in {"update", "delete"} : LookUpNote(c, n, op)
              \/ \E s \in Staff, E \in SUBSET (Labels \X Slots) : \E f \in [E -> Values] :
                   SyncMetadata(c, s, {<<e[1], e[2], f[e]>> : e \in E})
       PROVE  UNCHANGED recordVars
  BY <1>10 DEF CreateAccessRequest, LookUpNote, SyncMetadata
<1>11. CASE RecordNext
  BY <1>1, <1>3, <1>4, <1>5, <1>6, <1>7, <1>8, <1>9, <1>10, <1>11 DEF RecordNext
<1>12. CASE UNCHANGED vars
  BY <1>1, <1>12 DEF vars
<1> QED BY <1>1, <1>11, <1>12 DEF Next

-----------------------------------------------------------------------------
(* Every variable has its type, for any users, resources and calls.        *)
THEOREM RecordsTypeCorrect == Spec => []TypeOK
<1>1. IInv => TypeOK
  BY DEF IInv
<1> QED BY <1>1, Inductive, PTL

(* What a grant was reported to open is listed and read, until it expires  *)
(* or its revocation begins, although grantFullAccountAccess reads the     *)
(* campaigns and upsertGrant its rows before they write.                   *)
THEOREM GrantedHolds == Spec => []GrantedIsOpen
<1>1. IInv => GrantedIsOpen
  BY OpenMeans
<1> QED BY <1>1, Inductive, PTL

(* A removal that was reported done has closed the account, its campaigns  *)
(* and their history, although revokeFullAccountAccess updates only the    *)
(* rows that three earlier queries had found.                              *)
THEOREM RevokedHolds == Spec => []RevokedIsClosed
<1>1. IInv => RevokedIsClosed
  BY ClosedMeans
<1> QED BY <1>1, Inductive, PTL

(* The lists and the single reads of org.service.ts agree, for             *)
(* administrators and others and for any set of cohort grants, and neither *)
(* another grant nor being an administrator hides anything.                *)
THEOREM ListedHolds == Spec => []ListedIffReadable
<1>1. IInv => ListedIffReadable
  BY ListedMeans
<1> QED BY <1>1, Inductive, PTL

(* Two pending requests for one thing, or what two directory syncs left of *)
(* one person side by side, stem from calls that overlapped.               *)
THEOREM DoubledHolds == Spec => []DoubledOnlyIfOverlapped
<1>1. IInv => DoubledOnlyIfOverlapped
  BY DEF IInv, RecordInv, RequestInv, SyncInv, RequestsOnce, NotesOnce, DoubledOnlyIfOverlapped
<1> QED BY <1>1, Inductive, PTL

(* The directory sync's replacement and the import remove no entry that    *)
(* the directory does not own, whenever it was taken over.                 *)
THEOREM OnlyDeleteHolds == Spec => OnlyDeleteRemoves
<1> DEFINE Step == \A n \in notes : n.owner # "directory" /\ ~(\E m \in notes' : Same(n, m)) =>
       \E c \in Calls : call[c].op = "delete" /\ \E s \in call[c].seen : Same(n, s)
<1>1. IInv /\ [Next]_vars => [Step]_vars
  BY DeletesOnlyStep DEF DeletesOnly, Deleted
<1> HIDE DEF Step
<1>2. Spec => [][Step]_vars
  BY <1>1, Inductive, PTL DEF Spec
<1> QED BY <1>2 DEF OnlyDeleteRemoves, Step
=============================================================================
