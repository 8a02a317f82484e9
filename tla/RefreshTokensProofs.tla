------------------------- MODULE RefreshTokensProofs -------------------------
(***************************************************************************)
(* Proofs about RefreshTokens, for any number of tokens, requests and      *)
(* users, and any cap.                                                     *)
(***************************************************************************)
EXTENDS RefreshTokens, FiniteSetTheorems, TLAPS

-----------------------------------------------------------------------------
(* Types, and the rows that requests and families refer to *)

Settled == {"live", "expired", "revoked"}

(* Rows that exist have a family whose first row was issued, and which     *)
(* nobody else belongs to before that row is committed.                    *)
RowsOK ==
  \A t \in Tokens :
    /\ row[t].state \in {"absent", "gone"} => row[t].family = None
    /\ row[t].state \notin {"absent", "gone"} =>
         /\ row[t].family \in Tokens /\ row[t].owner \in Users
         /\ row[row[t].family].state # "absent"
         /\ row[t].family # t => row[row[t].family].state # "pending"
    /\ row[t].state = "pending" =>
         \E q \in Requests : req[q].pc = "commit" /\ req[q].new = t
    /\ t \in delivered \union killed => row[t].state \notin {"absent", "pending"}

(* What a request holds exists, and is of one family. *)
RequestOK(q) ==
  LET r == req[q] IN
  /\ IF r.pc = "idle" THEN r.token = None ELSE r.user \in Users
  /\ r.pc \in {"family", "mark"} => r.token # None
  /\ r.pc \in {"commit", "mark", "check", "respond"} => r.new # None
  /\ r.pc \in {"idle", "insert", "family"} => r.new = None
  /\ r.token # None => row[r.token].state \in Settled
  /\ r.new # None =>
       /\ r.new \notin delivered
       /\ r.pc = "commit" => row[r.new].state = "pending"
       /\ r.pc # "commit" => row[r.new].state \in Settled
       /\ row[r.new].family = IF r.token = None THEN r.new ELSE row[r.token].family
       /\ \A p \in Requests \ {q} : req[p].new # r.new
  /\ r.pc = "commit" => \A t \in r.victims : row[t].state \in Settled

Shape == TypeOK /\ RowsOK /\ \A q \in Requests : RequestOK(q)

LEMMA ShapeInit == Init => Shape
BY TokensAssumption
DEF Init, Shape, TypeOK, RowsOK, RequestOK, NoRow, Idle, Row, Request, PCs

(* A step that begins a request on a settled token, or ends one. *)
LEMMA ShapeBegin ==
  ASSUME Shape, NEW q \in Requests, NEW l \in {"insert", "family"},
         NEW t \in Tokens \union {None}, NEW u \in Users,
         req[q].pc = "idle", Begin(q, l, t, u),
         t # None => row[t].state \in Settled,
         l = "family" => t # None,
         row' = row, active' = active, delivered' = delivered, killed' = killed,
         overtaken' = overtaken, crowded' = crowded, forked' \subseteq Tokens
  PROVE  Shape'
<1>1. /\ \A p \in Requests \ {q} : req'[p] = req[p]
      /\ req'[q].pc = l /\ req'[q].token = t /\ req'[q].new = None /\ req'[q].user = u
  BY DEF Begin, Idle, Shape, TypeOK
<1>2. req' \in [Requests -> Request]
  BY DEF Begin, Idle, Shape, TypeOK, Request, PCs
<1>3. TypeOK'
  BY <1>2 DEF Shape, TypeOK
<1>4. RowsOK'
  BY <1>1 DEF Shape, RowsOK
<1>5. ASSUME NEW p \in Requests PROVE RequestOK(p)'
  BY <1>1 DEF Shape, RequestOK
<1>6. QED
  BY <1>3, <1>4, <1>5 DEF Shape

(* A step in which rows keep their families and no row is added or goes,   *)
(* and requests stay, end, or move on after their insert.                  *)
LEMMA ShapeKept ==
  ASSUME Shape, TypeOK', delivered' = delivered,
         \A p \in Requests :
           \/ req'[p] = req[p]
           \/ req'[p] = Idle /\ req[p].pc # "commit"
           \/ /\ req[p].pc \in {"mark", "check"}
              /\ req'[p].pc \in {"check", "respond", "all"}
              /\ req'[p].token = req[p].token /\ req'[p].new = req[p].new
              /\ req'[p].user = req[p].user,
         \A t \in Tokens :
           /\ row'[t].family = row[t].family /\ row'[t].owner = row[t].owner
           /\ \/ row'[t].state = row[t].state
              \/ row[t].state \in Settled /\ row'[t].state \in Settled,
         \A t \in killed' \ killed : row[t].state \notin {"absent", "pending"}
  PROVE  Shape'
<1>1. RowsOK'
  <2>1. SUFFICES ASSUME NEW t \in Tokens
                 PROVE  /\ row'[t].state \in {"absent", "gone"} => row'[t].family = None
                        /\ row'[t].state \notin {"absent", "gone"} =>
                             /\ row'[t].family \in Tokens /\ row'[t].owner \in Users
                             /\ row'[row'[t].family].state # "absent"
                             /\ row'[t].family # t => row'[row'[t].family].state # "pending"
                        /\ row'[t].state = "pending" =>
                             \E q \in Requests : req'[q].pc = "commit" /\ req'[q].new = t
                        /\ t \in delivered' \union killed'
                             => row'[t].state \notin {"absent", "pending"}
    BY DEF RowsOK
  <2>2. row'[t].state \in {"absent", "gone"} <=> row[t].state \in {"absent", "gone"}
    BY DEF Settled
  <2>3. row'[t].state = "pending" <=> row[t].state = "pending"
    BY DEF Settled
  <2>4. row[t].family \in Tokens =>
          /\ row'[row[t].family].state = "absent" <=> row[row[t].family].state = "absent"
          /\ row'[row[t].family].state = "pending" <=> row[row[t].family].state = "pending"
    BY DEF Settled
  <2>5. row'[t].state = "pending" =>
          \E q \in Requests : req'[q].pc = "commit" /\ req'[q].new = t
    BY <2>3 DEF Shape, RowsOK
  <2>6. t \in delivered' \union killed' => row'[t].state \notin {"absent", "pending"}
    BY <2>2, <2>3 DEF Shape, RowsOK, Settled
  <2>7. QED
    BY <2>2, <2>4, <2>5, <2>6 DEF Shape, RowsOK
<1>2. ASSUME NEW q \in Requests PROVE RequestOK(q)'
  <2>1. /\ req'[q].token \in {req[q].token, None} /\ req[q].token \in Tokens \union {None}
        /\ req'[q].new \in {req[q].new, None} /\ req[q].new \in Tokens \union {None}
        /\ \A p \in Requests : req'[p].new \in {req[p].new, None}
    BY DEF Idle, Shape, TypeOK, Request
  <2>2. RequestOK(q)
    BY DEF Shape
  <2>3. CASE req'[q] = req[q]
    BY <2>1, <2>2, <2>3 DEF RequestOK, Settled, Shape, TypeOK, Request
  <2>4. CASE req'[q] = Idle
    BY <2>4 DEF RequestOK, Idle
  <2>5. CASE /\ req[q].pc \in {"mark", "check"}
             /\ req'[q].pc \in {"check", "respond", "all"}
             /\ req'[q].token = req[q].token /\ req'[q].new = req[q].new
             /\ req'[q].user = req[q].user
    BY <2>1, <2>2, <2>5 DEF RequestOK, Settled
  <2>6. QED
    BY <2>3, <2>4, <2>5
<1>3. QED
  BY <1>1, <1>2 DEF Shape

LEMMA ShapeInsert ==
  ASSUME Shape, NEW q \in Requests, Insert(q)
  PROVE  Shape'
<1>1. PICK n \in Tokens :
        /\ row[n].state = "absent"
        /\ LET old == req[q].token
               u   == req[q].user
           IN /\ row' = [row EXCEPT ![n] =
                   [state |-> "pending", owner |-> u, next |-> None,
                    family |-> IF old = None THEN n ELSE row[old].family]]
              /\ req' = [p \in Requests |->
                   IF p = q THEN [req[q] EXCEPT !.pc = "commit", !.new = n,
                                    !.victims = Excess(u), !.beside = Inserting(u) # {}]
                   ELSE IF p \in Inserting(u) THEN [req[p] EXCEPT !.beside = TRUE]
                   ELSE req[p]]
  BY DEF Insert
<1>2. /\ req[q].pc = "insert" /\ active' = active /\ delivered' = delivered
      /\ killed' = killed /\ overtaken' = overtaken /\ forked' = forked
      /\ crowded' = crowded
  BY DEF Insert, history
<1> DEFINE f == IF req[q].token = None THEN n ELSE row[req[q].token].family
<1>3. /\ row'[n].state = "pending" /\ row'[n].family = f /\ row'[n].next = None
      /\ row'[n].owner = req[q].user /\ \A t \in Tokens \ {n} : row'[t] = row[t]
  BY <1>1 DEF Shape, TypeOK
<1>4. f \in Tokens /\ (f # n => row[f].state \notin {"absent", "pending"})
  <2>1. CASE req[q].token = None
    BY <2>1
  <2>2. CASE req[q].token # None
    <3>1. req[q].token \in Tokens /\ row[req[q].token].state \in Settled
      BY <2>2 DEF Shape, RequestOK, TypeOK, Request
    <3>2. /\ f = row[req[q].token].family /\ f \in Tokens /\ row[f].state # "absent"
          /\ f # req[q].token => row[f].state # "pending"
      BY <2>2, <3>1 DEF Shape, RowsOK, Settled
    <3>3. QED
      BY <3>1, <3>2 DEF Settled
  <2>3. QED
    BY <2>1, <2>2
<1>5. /\ req'[q].pc = "commit" /\ req'[q].token = req[q].token /\ req'[q].new = n
      /\ req'[q].victims = Excess(req[q].user) /\ req'[q].user = req[q].user
  BY <1>1 DEF Shape, TypeOK, Request
<1>6. \A p \in Requests \ {q} :
        /\ req'[p].pc = req[p].pc /\ req'[p].token = req[p].token
        /\ req'[p].new = req[p].new /\ req'[p].victims = req[p].victims
        /\ req'[p].user = req[p].user
  BY <1>1 DEF Shape, TypeOK, Request
<1>7. \A t \in Excess(req[q].user) : row[t].state = "live"
  BY DEF Excess, Live
<1>8. row' \in [Tokens -> Row]
  BY <1>1, <1>4 DEF Shape, TypeOK, Row, Request
<1>9. req' \in [Requests -> Request]
  <2>1. SUFFICES ASSUME NEW p \in Requests PROVE req'[p] \in Request
    BY <1>1
  <2>2. req[p] \in Request
    BY DEF Shape, TypeOK
  <2>3. CASE p = q
    <3>1. Excess(req[q].user) \in SUBSET Tokens
      BY DEF Excess, Live
    <3>2. [req[q] EXCEPT !.pc = "commit", !.new = n, !.victims = Excess(req[q].user),
                         !.beside = Inserting(req[q].user) # {}] \in Request
      BY <2>2, <2>3, <3>1 DEF Request, PCs
    <3>3. QED
      BY <1>1, <2>3, <3>2
  <2>4. CASE p # q /\ p \in Inserting(req[q].user)
    <3>1. [req[p] EXCEPT !.beside = TRUE] \in Request
      BY <2>2 DEF Request
    <3>2. QED
      BY <1>1, <2>4, <3>1
  <2>5. CASE p # q /\ p \notin Inserting(req[q].user)
    BY <1>1, <2>2, <2>5
  <2>6. QED
    BY <2>3, <2>4, <2>5
<1>10. TypeOK'
  BY <1>2, <1>3, <1>8, <1>9 DEF Shape, TypeOK
<1>11. RowsOK'
  <2>1. SUFFICES ASSUME NEW t \in Tokens
                 PROVE  /\ row'[t].state \in {"absent", "gone"} => row'[t].family = None
                        /\ row'[t].state \notin {"absent", "gone"} =>
                             /\ row'[t].family \in Tokens /\ row'[t].owner \in Users
                             /\ row'[row'[t].family].state # "absent"
                             /\ row'[t].family # t => row'[row'[t].family].state # "pending"
                        /\ row'[t].state = "pending" =>
                             \E r \in Requests : req'[r].pc = "commit" /\ req'[r].new = t
                        /\ t \in delivered' \union killed'
                             => row'[t].state \notin {"absent", "pending"}
    BY DEF RowsOK
  <2>2. CASE t = n
    <3>1. n \notin delivered' \union killed'
      BY <1>1, <1>2 DEF Shape, RowsOK
    <3>2. row'[f].state # "absent" /\ (f # n => row'[f].state # "pending")
      BY <1>3, <1>4
    <3>3. req[q].user \in Users
      BY <1>2 DEF Shape, RequestOK
    <3>4. QED
      BY <1>3, <1>4, <1>5, <2>2, <3>1, <3>2, <3>3
  <2>3. CASE t # n
    <3>1. row'[t] = row[t]
      BY <1>3, <2>3
    <3>2. row[t].state \notin {"absent", "gone"} =>
            row[t].family # n /\ row'[row[t].family] = row[row[t].family]
      BY <1>1, <1>3 DEF Shape, RowsOK
    <3>3. \A r \in Requests : req[r].pc = "commit" => req'[r].pc = "commit"
                                                 /\ req'[r].new = req[r].new
      BY <1>2, <1>6
    <3>4. QED
      BY <1>2, <3>1, <3>2, <3>3 DEF Shape, RowsOK
  <2>4. QED
    BY <2>2, <2>3
<1>12. ASSUME NEW p \in Requests PROVE RequestOK(p)'
  <2>1. \A t \in Tokens : row[t].state # "absent" => row'[t] = row[t]
    BY <1>1, <1>3
  <2>2. req[p] \in Request /\ RequestOK(p)
    BY DEF Shape, TypeOK
  <2>3. CASE p = q
    <3>1. \A r \in Requests \ {q} : req'[r].new # n
      <4>1. SUFFICES ASSUME NEW r \in Requests \ {q}, req[r].new = n PROVE FALSE
        BY <1>6
      <4>2. RequestOK(r) /\ n # None
        BY TokensAssumption DEF Shape
      <4>3. QED
        BY <1>1, <4>1, <4>2 DEF RequestOK, Settled
    <3>2. n \notin delivered'
      BY <1>1, <1>2 DEF Shape, RowsOK
    <3>3. \A t \in req'[q].victims : row'[t].state \in Settled
      BY <1>5, <1>7, <2>1 DEF Settled, Excess, Live
    <3>4. req'[q].token # None => row'[req'[q].token] = row[req[q].token]
                                  /\ row[req[q].token].state \in Settled
      BY <1>5, <2>1, <2>2, <2>3 DEF RequestOK, Request, Settled
    <3>5. QED
      BY <1>2, <1>3, <1>5, <2>2, <2>3, <3>1, <3>2, <3>3, <3>4, TokensAssumption
      DEF RequestOK
  <2>4. CASE p # q
    <3>1. req[p].token # None => row'[req[p].token] = row[req[p].token]
      BY <2>1, <2>2 DEF RequestOK, Request, Settled
    <3>2. req[p].new # None => row'[req[p].new] = row[req[p].new] /\ req[p].new # n
      BY <1>1, <2>1, <2>2 DEF RequestOK, Request, Settled
    <3>3. req[p].pc = "commit" => \A t \in req[p].victims : row'[t] = row[t]
      BY <2>1, <2>2 DEF RequestOK, Request, Settled
    <3>4. \A r \in Requests \ {p} : req'[r].new # n => req'[r].new = req[r].new
      BY <1>5, <1>6
    <3>5. QED
      BY <1>2, <1>5, <1>6, <2>2, <2>4, <3>1, <3>2, <3>3, <3>4 DEF RequestOK
  <2>5. QED
    BY <2>3, <2>4
<1>13. QED
  BY <1>10, <1>11, <1>12 DEF Shape

LEMMA ShapeCommit ==
  ASSUME Shape, NEW q \in Requests, Commit(q)
  PROVE  Shape'
<1> PICK n \in Tokens : n = req[q].new /\ row[n].state = "pending"
  BY DEF Commit, Shape, RequestOK, TypeOK, Request
<1>1. /\ req[q].pc = "commit" /\ active' = active /\ delivered' = delivered
      /\ killed' = killed /\ overtaken' = overtaken /\ forked' = forked
      /\ row' = [t \in Tokens |->
           IF t = n THEN [row[t] EXCEPT !.state = "live"]
           ELSE IF t \in req[q].victims THEN [row[t] EXCEPT !.state = "revoked"]
           ELSE row[t]]
      /\ req' = [req EXCEPT ![q].pc = IF req[q].token = None THEN "respond" ELSE "mark"]
  BY DEF Commit, Goto
<1>2. \A t \in req[q].victims : row[t].state \in Settled
  BY <1>1 DEF Shape, RequestOK
<1>3. /\ row'[n].state = "live"
      /\ \A t \in Tokens : /\ row'[t].family = row[t].family
                           /\ row'[t].next = row[t].next
                           /\ row'[t].owner = row[t].owner
  BY <1>1 DEF Shape, TypeOK, Row
<1>4. \A t \in Tokens \ {n} :
        \/ row'[t] = row[t]
        \/ row[t].state \in Settled /\ row'[t].state = "revoked"
  BY <1>1, <1>2 DEF Shape, TypeOK, Row
<1>5. /\ req'[q].pc \in {"respond", "mark"} /\ (req'[q].pc = "mark" <=> req[q].token # None)
      /\ req'[q].token = req[q].token /\ req'[q].new = n /\ req'[q].user = req[q].user
      /\ \A p \in Requests \ {q} : req'[p] = req[p]
  BY <1>1 DEF Shape, TypeOK, Request
<1>6. \A p \in Requests \ {q} : req[p].new # n
  BY <1>1, TokensAssumption DEF Shape, RequestOK
<1>7. TypeOK'
  <2>1. row' \in [Tokens -> Row]
    BY <1>1 DEF Shape, TypeOK, Row
  <2>2. \A t \in Tokens : row'[t].next # None => row'[t].state = "revoked"
    BY <1>3, <1>4 DEF Shape, TypeOK
  <2>3. req' \in [Requests -> Request]
    BY <1>1 DEF Shape, TypeOK, Request, PCs
  <2>4. crowded' \subseteq Users
    <3>1. req[q].user \in Users
      BY <1>1 DEF Shape, RequestOK
    <3>2. QED
      BY <3>1 DEF Commit, Shape, TypeOK
  <2>5. QED
    BY <1>1, <2>1, <2>2, <2>3, <2>4 DEF Shape, TypeOK
<1>8. RowsOK'
  <2>1. SUFFICES ASSUME NEW t \in Tokens
                 PROVE  /\ row'[t].state \in {"absent", "gone"} => row'[t].family = None
                        /\ row'[t].state \notin {"absent", "gone"} =>
                             /\ row'[t].family \in Tokens /\ row'[t].owner \in Users
                             /\ row'[row'[t].family].state # "absent"
                             /\ row'[t].family # t => row'[row'[t].family].state # "pending"
                        /\ row'[t].state = "pending" =>
                             \E r \in Requests : req'[r].pc = "commit" /\ req'[r].new = t
                        /\ t \in delivered' \union killed'
                             => row'[t].state \notin {"absent", "pending"}
    BY DEF RowsOK
  <2>2. /\ row'[t].state \in {"absent", "gone"} <=> row[t].state \in {"absent", "gone"}
        /\ row'[t].state = "pending" => row[t].state = "pending" /\ t # n
    BY <1>3, <1>4 DEF Settled
  <2>3. row[t].family \in Tokens =>
          /\ row'[row[t].family].state = "absent" => row[row[t].family].state = "absent"
          /\ row'[row[t].family].state = "pending" => row[row[t].family].state = "pending"
    BY <1>3, <1>4 DEF Settled
  <2>4. row'[t].state = "pending" =>
          \E r \in Requests : req'[r].pc = "commit" /\ req'[r].new = t
    BY <1>5, <2>2 DEF Shape, RowsOK
  <2>5. t \in delivered' \union killed' => row'[t].state \notin {"absent", "pending"}
    BY <1>1, <2>2 DEF Shape, RowsOK
  <2>6. QED
    BY <1>3, <2>2, <2>3, <2>4, <2>5 DEF Shape, RowsOK
<1>9. ASSUME NEW p \in Requests PROVE RequestOK(p)'
  <2>1. \A t \in Tokens : /\ row[t].state \in Settled => row'[t].state \in Settled
                          /\ t # n /\ row[t].state = "pending" => row'[t].state = "pending"
    BY <1>3, <1>4 DEF Settled
  <2>2. req[p] \in Request /\ RequestOK(p) /\ \A t \in Tokens : row'[t].family = row[t].family
    BY <1>3 DEF Shape, TypeOK
  <2>3. CASE p = q
    <3>1. req[p].token # None => row'[req[p].token].state \in Settled
      BY <2>1, <2>2 DEF RequestOK, Request
    <3>2. /\ row'[n].state \in Settled /\ n \notin delivered'
          /\ row[n].family = IF req[p].token = None THEN n ELSE row[req[p].token].family
      BY <1>1, <1>3, <2>2, <2>3, TokensAssumption DEF RequestOK, Settled
    <3>3. QED
      BY <1>5, <1>6, <2>2, <2>3, <3>1, <3>2, TokensAssumption, ZenonT(40) DEF RequestOK, Request
  <2>4. CASE p # q
    <3>1. req[p].new # n
      BY <1>6, <2>4
    <3>2. QED
      BY <1>1, <1>5, <2>1, <2>2, <2>4, <3>1 DEF RequestOK, Request
  <2>5. QED
    BY <2>3, <2>4
<1>10. QED
  BY <1>7, <1>8, <1>9 DEF Shape

(* Rows S go; no other request holds them.  Requests stay, or q ends. *)
LEMMA ShapeGone ==
  ASSUME Shape, NEW q \in Requests, NEW S \in SUBSET Tokens,
         row' = [t \in Tokens |-> IF t \in S THEN [NoRow EXCEPT !.state = "gone"] ELSE row[t]],
         \A p \in Requests \ {q} : /\ req'[p] = req[p]
                                   /\ {req[p].token, req[p].new} \cap S = {}
                                   /\ req[p].pc = "commit" => req[p].victims \cap S = {},
         \/ req'[q] = Idle /\ \A t \in Tokens : row[t].state = "pending" /\ req[q].pc = "commit"
                                               /\ t = req[q].new => t \in S
         \/ /\ req'[q] = req[q]
            /\ {req[q].token, req[q].new} \cap S = {}
            /\ req[q].pc = "commit" => req[q].victims \cap S = {},
         \A t \in S : row[t].state \notin {"absent"},
         req' \in [Requests -> Request],
         UNCHANGED <<active, delivered, history>>
  PROVE  Shape'
<1>1. /\ active' = active /\ delivered' = delivered /\ killed' = killed
      /\ overtaken' = overtaken /\ forked' = forked /\ crowded' = crowded
  BY DEF history
<1>2. \A t \in Tokens \ S : row'[t] = row[t]
  BY DEF Shape, TypeOK
<1>3. \A t \in S : row'[t].state = "gone" /\ row'[t].family = None /\ row'[t].next = None
  BY DEF NoRow
<1>4. TypeOK'
  <2>1. row' \in [Tokens -> Row]
    BY DEF Shape, TypeOK, Row, NoRow
  <2>2. QED
    BY <1>1, <1>2, <1>3, <2>1 DEF Shape, TypeOK
<1>5. RowsOK'
  <2>1. SUFFICES ASSUME NEW t \in Tokens
                 PROVE  /\ row'[t].state \in {"absent", "gone"} => row'[t].family = None
                        /\ row'[t].state \notin {"absent", "gone"} =>
                             /\ row'[t].family \in Tokens /\ row'[t].owner \in Users
                             /\ row'[row'[t].family].state # "absent"
                             /\ row'[t].family # t => row'[row'[t].family].state # "pending"
                        /\ row'[t].state = "pending" =>
                             \E r \in Requests : req'[r].pc = "commit" /\ req'[r].new = t
                        /\ t \in delivered' \union killed'
                             => row'[t].state \notin {"absent", "pending"}
    BY DEF RowsOK
  <2>2. CASE t \in S
    BY <1>3, <2>2
  <2>3. CASE t \notin S
    <3>1. row'[t] = row[t]
      BY <1>2, <2>3
    <3>2. row[t].family \in Tokens =>
            /\ row'[row[t].family].state = "absent" => row[row[t].family].state = "absent"
            /\ row'[row[t].family].state = "pending" => row[row[t].family].state = "pending"
      BY <1>2, <1>3
    <3>3. row[t].state = "pending" =>
            \E r \in Requests : req'[r].pc = "commit" /\ req'[r].new = t
      <4>1. SUFFICES ASSUME row[t].state = "pending"
                     PROVE  \E r \in Requests : req'[r].pc = "commit" /\ req'[r].new = t
        OBVIOUS
      <4>2. PICK r \in Requests : req[r].pc = "commit" /\ req[r].new = t
        BY <4>1 DEF Shape, RowsOK
      <4>3. CASE r = q
        BY <2>3, <4>1, <4>2, <4>3
      <4>4. CASE r # q
        BY <4>2, <4>4
      <4>5. QED
        BY <4>3, <4>4
    <3>4. /\ row[t].state \in {"absent", "gone"} => row[t].family = None
          /\ row[t].state \notin {"absent", "gone"} =>
               /\ row[t].family \in Tokens /\ row[t].owner \in Users
               /\ row[row[t].family].state # "absent"
               /\ row[t].family # t => row[row[t].family].state # "pending"
          /\ t \in delivered \union killed => row[t].state \notin {"absent", "pending"}
      BY DEF Shape, RowsOK
    <3>5. t \in delivered' \union killed' => t \in delivered \union killed
      BY <1>1
    <3>6. QED
      BY <3>1, <3>2, <3>3, <3>4, <3>5
  <2>4. QED
    BY <2>2, <2>3
<1>6. ASSUME NEW p \in Requests PROVE RequestOK(p)'
  <2>1. \A r \in Requests : req'[r].new \in {req[r].new, None}
    BY DEF Idle
  <2>2. CASE req'[p] = Idle
    BY <2>2 DEF RequestOK, Idle
  <2>3. CASE /\ req'[p] = req[p] /\ {req[p].token, req[p].new} \cap S = {}
             /\ req[p].pc = "commit" => req[p].victims \cap S = {}
    <3>1. RequestOK(p) /\ req[p] \in Request
      BY DEF Shape, TypeOK
    <3>2. /\ req[p].token # None => row'[req[p].token] = row[req[p].token]
          /\ req[p].new # None => row'[req[p].new] = row[req[p].new]
          /\ req[p].pc = "commit" => \A t \in req[p].victims : row'[t] = row[t]
      BY <1>2, <2>3, <3>1 DEF Request
    <3>3. \A r \in Requests \ {p} : req[p].new # None => req'[r].new # req[p].new
      BY <2>1, <3>1 DEF RequestOK
    <3>4. QED
      BY <1>1, <2>3, <3>1, <3>2, <3>3 DEF RequestOK
  <2>4. QED
    BY <2>2, <2>3
<1>7. QED
  BY <1>4, <1>5, <1>6 DEF Shape

LEMMA ShapeRespond ==
  ASSUME Shape, NEW q \in Requests, Respond(q)
  PROVE  Shape'
<1> PICK n \in Tokens : n = req[q].new /\ row[n].state \in Settled
  BY DEF Respond, Shape, RequestOK, TypeOK, Request
<1>1. /\ row' = row /\ active' = active /\ delivered' = delivered \union {n}
      /\ killed' = killed /\ overtaken' = overtaken /\ forked' = forked /\ crowded' = crowded
      /\ req' = [req EXCEPT ![q] = Idle]
  BY DEF Respond, End, history
<1>2. req[q].pc = "respond" /\ req'[q] = Idle /\ \A p \in Requests \ {q} : req'[p] = req[p]
  BY <1>1 DEF Respond, Shape, TypeOK
<1>3. \A p \in Requests \ {q} : req[p].new # n
  BY TokensAssumption DEF Shape, RequestOK
<1>4. TypeOK'
  BY <1>1 DEF Shape, TypeOK, Request, Idle, PCs
<1>5. RowsOK'
  BY <1>1, <1>2 DEF Shape, RowsOK, Settled
<1>6. ASSUME NEW p \in Requests PROVE RequestOK(p)'
  <2>1. CASE p = q
    BY <1>2, <2>1 DEF RequestOK, Idle
  <2>2. CASE p # q
    <3>1. \A r \in Requests : req'[r].new \in {req[r].new, None}
      BY <1>2 DEF Idle
    <3>2. QED
      BY <1>1, <1>2, <1>3, <2>2, <3>1 DEF Shape, RequestOK
  <2>3. QED
    BY <2>1, <2>2
<1>7. QED
  BY <1>4, <1>5, <1>6 DEF Shape

(* Families are killed only when a row of theirs is committed. *)
LEMMA FamilyCommitted ==
  ASSUME Shape, NEW t \in Tokens, row[t].state \in Settled
  PROVE  row[t].family \in Tokens /\ row[row[t].family].state \notin {"absent", "pending"}
BY DEF Shape, RowsOK, Settled

LEMMA RevokedRows ==
  ASSUME Shape, NEW S \in SUBSET Tokens, \A t \in S : row[t].state \in Settled,
         row' = Revoked(S)
  PROVE  /\ row' \in [Tokens -> Row]
         /\ \A t \in Tokens : /\ row'[t].family = row[t].family
                              /\ row'[t].owner = row[t].owner
                              /\ row'[t].next = row[t].next
         /\ \A t \in S : row'[t].state = "revoked"
         /\ \A t \in Tokens \ S : row'[t] = row[t]
BY DEF Revoked, Shape, TypeOK, Row

(* Revoking the unrevoked rows S while families F of committed rows are    *)
(* killed; requests stay, or q ends.                                       *)
LEMMA ShapeKill ==
  ASSUME Shape, NEW S \in SUBSET Tokens, \A t \in S : row[t].state \in Unrevoked,
         row' = Revoked(S), NEW F \in SUBSET Tokens, Kill(F),
         \A f \in F : row[f].state \notin {"absent", "pending"},
         req' \in [Requests -> Request],
         \A p \in Requests : \/ req'[p] = req[p]
                             \/ req'[p] = Idle /\ req[p].pc # "commit"
  PROVE  Shape'
<1>1. \A t \in S : row[t].state \in Settled
  BY DEF Unrevoked, Settled
<1>2. /\ row' \in [Tokens -> Row]
      /\ \A t \in Tokens : /\ row'[t].family = row[t].family
                           /\ row'[t].owner = row[t].owner
                           /\ row'[t].next = row[t].next
      /\ \A t \in S : row'[t].state = "revoked"
      /\ \A t \in Tokens \ S : row'[t] = row[t]
  BY <1>1, RevokedRows
<1>3. TypeOK'
  <2>1. \A t \in Tokens : row'[t].next # None => row'[t].state = "revoked"
    BY <1>2 DEF Shape, TypeOK
  <2>2. QED
    BY <1>2, <2>1 DEF Kill, Shape, TypeOK
<1>4. \A t \in killed' \ killed : row[t].state \notin {"absent", "pending"}
  BY DEF Kill
<1>5. \A t \in Tokens : \/ row'[t].state = row[t].state
                        \/ row[t].state \in Settled /\ row'[t].state \in Settled
  BY <1>1, <1>2 DEF Settled
<1>6. delivered' = delivered
  BY DEF Kill
<1>7. QED
  BY <1>2, <1>3, <1>4, <1>5, <1>6, ShapeKept

LEMMA ShapeStep == Shape /\ [Next]_vars => Shape'
<1> SUFFICES ASSUME Shape, [Next]_vars PROVE Shape'
  OBVIOUS
<1>1. ASSUME NEW q \in Requests, Insert(q) PROVE Shape'
  BY <1>1, ShapeInsert
<1>2. ASSUME NEW q \in Requests, Commit(q) PROVE Shape'
  BY <1>2, ShapeCommit
<1>3. ASSUME NEW q \in Requests, Mark(q) PROVE Shape'
  <2>1. PICK t \in Tokens : t = req[q].token /\ row[t].state \in Settled
    BY <1>3 DEF Mark, Shape, RequestOK, TypeOK, Request
  <2>2. /\ row' = [row EXCEPT ![t] = [@ EXCEPT !.state = "revoked", !.next = req[q].new]]
        /\ req' = [req EXCEPT ![q].pc = "check"] /\ req[q].pc = "mark"
        /\ active' = active /\ delivered' = delivered /\ killed' = killed
        /\ overtaken' = overtaken /\ forked' = forked /\ crowded' = crowded
    BY <1>3, <2>1 DEF Mark, Goto, history
  <2>3. [row[t] EXCEPT !.state = "revoked", !.next = req[q].new] \in Row
    <3>1. row[t] \in Row /\ req[q].new \in Tokens \union {None}
      BY DEF Shape, TypeOK, Request
    <3>2. QED
      BY <3>1 DEF Row
  <2>4. /\ row' \in [Tokens -> Row] /\ row'[t].state = "revoked"
        /\ row'[t].family = row[t].family /\ row'[t].owner = row[t].owner
        /\ \A s \in Tokens \ {t} : row'[s] = row[s]
    BY <2>2, <2>3 DEF Shape, TypeOK, Row
  <2>5. /\ req' \in [Requests -> Request] /\ \A p \in Requests \ {q} : req'[p] = req[p]
        /\ req'[q].pc = "check" /\ req'[q].token = req[q].token
        /\ req'[q].new = req[q].new /\ req'[q].user = req[q].user
    BY <2>2 DEF Shape, TypeOK, Request, PCs
  <2>6. TypeOK'
    BY <2>2, <2>4, <2>5 DEF Shape, TypeOK
  <2>7. QED
    BY <2>1, <2>2, <2>4, <2>5, <2>6, ShapeKept DEF Settled
<1>4. ASSUME NEW q \in Requests, Check(q) PROVE Shape'
  <2>1. PICK l \in {"respond", "all"} : Goto(q, l)
    BY <1>4 DEF Check
  <2>2. /\ row' = row /\ req[q].pc = "check" /\ active' = active /\ delivered' = delivered
        /\ killed' = killed /\ overtaken' = overtaken /\ forked' = forked /\ crowded' = crowded
    BY <1>4 DEF Check, history
  <2>3. /\ req' \in [Requests -> Request] /\ \A p \in Requests \ {q} : req'[p] = req[p]
        /\ req'[q].pc = l /\ req'[q].token = req[q].token
        /\ req'[q].new = req[q].new /\ req'[q].user = req[q].user
    BY <2>1 DEF Goto, Shape, TypeOK, Request, PCs
  <2>4. TypeOK'
    BY <2>2, <2>3 DEF Shape, TypeOK
  <2>5. QED
    BY <2>2, <2>3, <2>4, ShapeKept
<1>5. ASSUME NEW q \in Requests, Respond(q) PROVE Shape'
  BY <1>5, ShapeRespond
<1>6. ASSUME NEW q \in Requests, RevokeFamily(q) PROVE Shape'
  <2>1. PICK t \in Tokens : t = req[q].token /\ row[t].state \in Settled
    BY <1>6 DEF RevokeFamily, Shape, RequestOK, TypeOK, Request
  <2> DEFINE S == {s \in Tokens : row[s].family = row[t].family /\ row[s].state \in Unrevoked}
  <2>2. row' = Revoked(S) /\ Kill({row[t].family}) /\ End(q) /\ req[q].pc = "family"
    BY <1>6, <2>1 DEF RevokeFamily
  <2>3. /\ {row[t].family} \in SUBSET Tokens
        /\ \A f \in {row[t].family} : row[f].state \notin {"absent", "pending"}
    BY <2>1, FamilyCommitted
  <2>4. /\ req' \in [Requests -> Request]
        /\ \A p \in Requests : \/ req'[p] = req[p]
                               \/ req'[p] = Idle /\ req[p].pc # "commit"
    BY <2>2 DEF End, Shape, TypeOK, Request, Idle, PCs
  <2>5. QED
    BY <2>2, <2>3, <2>4, ShapeKill
<1>7. ASSUME NEW u \in Users, Wipe(u), req' \in [Requests -> Request],
             \A p \in Requests : \/ req'[p] = req[p]
                                 \/ req'[p] = Idle /\ req[p].pc # "commit"
      PROVE  Shape'
  <2> DEFINE S == {t \in Tokens : row[t].owner = u /\ row[t].state \in Unrevoked}
             F == {row[t].family : t \in {s \in Committed : row[s].owner = u}}
  <2>1. row' = Revoked(S) /\ Kill(F)
    BY <1>7 DEF Wipe
  <2>2. \A t \in Committed : row[t].state \in Settled
    BY DEF Committed, Settled, Shape, TypeOK, Row
  <2>3. F \in SUBSET Tokens /\ \A f \in F : row[f].state \notin {"absent", "pending"}
    BY <2>2, FamilyCommitted DEF Committed
  <2>4. QED
    BY <1>7, <2>1, <2>3, ShapeKill
<1>8. ASSUME NEW q \in Requests, RevokeAll(q) PROVE Shape'
  <2>1. req[q].user \in Users /\ req[q].pc = "all"
    BY <1>8 DEF RevokeAll, Shape, RequestOK
  <2>2. /\ req' \in [Requests -> Request]
        /\ \A p \in Requests : \/ req'[p] = req[p]
                               \/ req'[p] = Idle /\ req[p].pc # "commit"
    BY <1>8, <2>1 DEF RevokeAll, End, Shape, TypeOK, Request, Idle, PCs
  <2>3. QED
    BY <1>7, <1>8, <2>1, <2>2 DEF RevokeAll
<1>9. ASSUME NEW u \in Users, LogoutAll(u) PROVE Shape'
  BY <1>7, <1>9 DEF LogoutAll, Shape, TypeOK
<1>10. ASSUME NEW q \in Requests, Crash(q) PROVE Shape'
  <2> DEFINE S == IF req[q].pc = "commit" THEN {req[q].new} ELSE {}
  <2>1. /\ S \in SUBSET Tokens /\ \A t \in S : row[t].state = "pending"
        /\ \A p \in Requests \ {q} : req[p].new \notin S
    BY DEF Shape, RequestOK, TypeOK, Request
  <2>2. row' = [t \in Tokens |-> IF t \in S THEN [NoRow EXCEPT !.state = "gone"] ELSE row[t]]
    BY <1>10 DEF Crash
  <2>3. \A p \in Requests : /\ req[p].token \notin S
                            /\ req[p].pc = "commit" => req[p].victims \cap S = {}
    <3>1. TAKE p \in Requests
    <3>2. RequestOK(p) /\ None \notin S
      BY <2>1, TokensAssumption DEF Shape
    <3>3. req[p].token \notin S
      BY <2>1, <3>2 DEF RequestOK, Settled
    <3>4. req[p].pc = "commit" => req[p].victims \cap S = {}
      BY <2>1, <3>2 DEF RequestOK, Settled
    <3>5. QED
      BY <3>3, <3>4
  <2>4. /\ req' \in [Requests -> Request] /\ req'[q] = Idle
        /\ \A p \in Requests \ {q} : req'[p] = req[p]
    BY <1>10 DEF Crash, End, Shape, TypeOK, Request, Idle, PCs
  <2>5. UNCHANGED <<active, delivered, history>>
    BY <1>10 DEF Crash
  <2>6. \A p \in Requests \ {q} : {req[p].token, req[p].new} \cap S = {}
    BY <2>1, <2>3
  <2>7. /\ \A t \in Tokens : row[t].state = "pending" /\ req[q].pc = "commit"
                             /\ t = req[q].new => t \in S
        /\ \A t \in S : row[t].state \notin {"absent"}
    BY <2>1
  <2> HIDE DEF S
  <2>8. QED
    BY <2>1, <2>2, <2>3, <2>4, <2>5, <2>6, <2>7, ShapeGone
<1>11. ASSUME NEW q \in Requests, NEW u \in Users, Login(q, u) PROVE Shape'
  BY <1>11, ShapeBegin DEF Login, history, Shape, TypeOK
<1>12. ASSUME NEW q \in Requests, NEW t \in Tokens,
              BeginRotation(q, t) \/ DetectReuse(q, t) \/ BeginLogout(q, t)
       PROVE  Shape'
  <2>1. row[t].state \in Settled /\ row[t].owner \in Users /\ row[t].family \in Tokens
    BY <1>12 DEF BeginRotation, DetectReuse, BeginLogout, Settled, Unrevoked, Shape, RowsOK
  <2>2. PICK l \in {"insert", "family"} : Begin(q, l, t, row[t].owner)
    BY <1>12 DEF BeginRotation, DetectReuse, BeginLogout
  <2>3. /\ req[q].pc = "idle" /\ row' = row /\ active' = active /\ delivered' = delivered
        /\ killed' = killed /\ overtaken' = overtaken /\ crowded' = crowded
        /\ forked' \subseteq Tokens
    BY <1>12, <2>1 DEF BeginRotation, DetectReuse, BeginLogout, history, Shape, TypeOK
  <2>4. QED
    BY <2>1, <2>2, <2>3, ShapeBegin, TokensAssumption
<1>13. ASSUME NEW t \in Tokens, Expire(t) PROVE Shape'
  <2>1. /\ row[t].state = "live" /\ row' = [row EXCEPT ![t].state = "expired"] /\ req' = req
        /\ active' = active /\ delivered' = delivered /\ killed' = killed
        /\ overtaken' = overtaken /\ forked' = forked /\ crowded' = crowded
    BY <1>13 DEF Expire, history
  <2>2. /\ row' \in [Tokens -> Row] /\ row'[t].state = "expired"
        /\ row'[t].family = row[t].family /\ row'[t].owner = row[t].owner
        /\ row'[t].next = row[t].next /\ \A s \in Tokens \ {t} : row'[s] = row[s]
    BY <2>1 DEF Shape, TypeOK, Row
  <2>3. TypeOK'
    BY <2>1, <2>2 DEF Shape, TypeOK
  <2>4. QED
    BY <2>1, <2>2, <2>3, ShapeKept DEF Settled
<1>14. ASSUME NEW state \in {"expired", "revoked"}, Cleanup(state) PROVE Shape'
  <2>1. PICK S \in SUBSET {t \in Tokens : row[t].state = state /\ ~InUse(t)} :
          row' = [t \in Tokens |-> IF t \in S THEN [NoRow EXCEPT !.state = "gone"] ELSE row[t]]
    BY <1>14 DEF Cleanup
  <2>2. \A p \in Requests : /\ {req[p].token, req[p].new} \cap S = {}
                            /\ req[p].victims \cap S = {}
    BY <2>1 DEF InUse
  <2>3. req' = req /\ UNCHANGED <<active, delivered, history>>
    BY <1>14 DEF Cleanup
  <2>4. CASE Requests = {}
    <3>1. TypeOK' /\ RowsOK'
      BY <2>1, <2>3, <2>4 DEF Shape, TypeOK, RowsOK, Row, NoRow, history
    <3>2. QED
      BY <2>4, <3>1 DEF Shape
  <2>5. CASE Requests # {}
    <3>1. PICK q \in Requests : TRUE
      BY <2>5
    <3>2. req' \in [Requests -> Request]
      BY <2>3 DEF Shape, TypeOK
    <3>3. S \in SUBSET Tokens /\ \A t \in S : row[t].state \notin {"absent"}
      BY <2>1
    <3>4. QED
      BY <2>1, <2>2, <2>3, <3>1, <3>2, <3>3, ShapeGone
  <2>6. QED
    BY <2>4, <2>5
<1>15. ASSUME NEW u \in Users, Disable(u) PROVE Shape'
  BY <1>15 DEF Disable, history, Shape, TypeOK, RowsOK, RequestOK
<1>16. CASE UNCHANGED vars
  BY <1>16 DEF vars, Shape, TypeOK, RowsOK, RequestOK
<1>17. QED
  BY <1>1, <1>2, <1>3, <1>4, <1>5, <1>6, <1>8, <1>9, <1>10, <1>11, <1>12, <1>13, <1>14,
     <1>15, <1>16 DEF Next, Step

(* Every variable keeps its type, and a replaced token is revoked. *)
THEOREM TokensTypeCorrect == Spec => []TypeOK
<1>1. Shape => TypeOK
  BY DEF Shape
<1>2. QED
  BY ShapeInit, ShapeStep, <1>1, PTL DEF Spec

-----------------------------------------------------------------------------
(* What the steps do, for the two proofs below *)

LEMMA BeginEffect ==
  ASSUME Shape, NEW q \in Requests, NEW l, NEW t, NEW u, Begin(q, l, t, u)
  PROVE  /\ req'[q].pc = l /\ req'[q].token = t /\ req'[q].new = None /\ req'[q].user = u
         /\ \A p \in Requests \ {q} : req'[p] = req[p]
BY DEF Begin, Idle, Shape, TypeOK

LEMMA EndEffect ==
  ASSUME Shape, NEW q \in Requests, End(q)
  PROVE  req'[q] = Idle /\ \A p \in Requests \ {q} : req'[p] = req[p]
BY DEF End, Shape, TypeOK

LEMMA InsertEffect ==
  ASSUME Shape, NEW q \in Requests, Insert(q)
  PROVE  \E n \in Tokens :
           /\ row[n].state = "absent" /\ row'[n].state = "pending"
           /\ row'[n].owner = req[q].user
           /\ row'[n].family = IF req[q].token = None THEN n ELSE row[req[q].token].family
           /\ \A t \in Tokens \ {n} : row'[t] = row[t]
           /\ req[q].pc = "insert" /\ req'[q].pc = "commit" /\ req'[q].token = req[q].token
           /\ req'[q].user = req[q].user /\ req'[q].new = n
           /\ \A p \in Requests \ {q} :
                /\ req'[p].pc = req[p].pc /\ req'[p].token = req[p].token
                /\ req'[p].new = req[p].new /\ req'[p].user = req[p].user
<1>1. PICK n \in Tokens :
        /\ row[n].state = "absent"
        /\ LET old == req[q].token
               u   == req[q].user
           IN /\ row' = [row EXCEPT ![n] =
                   [state |-> "pending", owner |-> u, next |-> None,
                    family |-> IF old = None THEN n ELSE row[old].family]]
              /\ req' = [p \in Requests |->
                   IF p = q THEN [req[q] EXCEPT !.pc = "commit", !.new = n,
                                    !.victims = Excess(u), !.beside = Inserting(u) # {}]
                   ELSE IF p \in Inserting(u) THEN [req[p] EXCEPT !.beside = TRUE]
                   ELSE req[p]]
  BY DEF Insert
<1>2. /\ row'[n].state = "pending" /\ row'[n].owner = req[q].user
      /\ row'[n].family = IF req[q].token = None THEN n ELSE row[req[q].token].family
      /\ \A t \in Tokens \ {n} : row'[t] = row[t]
  BY <1>1 DEF Shape, TypeOK
<1>3. /\ req'[q].pc = "commit" /\ req'[q].token = req[q].token
      /\ req'[q].user = req[q].user /\ req'[q].new = n
  BY <1>1 DEF Shape, TypeOK, Request
<1>4. \A p \in Requests \ {q} :
        /\ req'[p].pc = req[p].pc /\ req'[p].token = req[p].token
        /\ req'[p].new = req[p].new /\ req'[p].user = req[p].user
  BY <1>1 DEF Shape, TypeOK, Request
<1>5. QED
  BY <1>1, <1>2, <1>3, <1>4 DEF Insert

LEMMA CommitEffect ==
  ASSUME Shape, NEW q \in Requests, Commit(q)
  PROVE  \E n \in Tokens :
           /\ row[n].state = "pending" /\ row'[n].state = "live" /\ n \notin delivered
           /\ row[n].family = IF req[q].token = None THEN n ELSE row[req[q].token].family
           /\ \A t \in Tokens : row'[t].family = row[t].family /\ row'[t].owner = row[t].owner
           /\ \A t \in Tokens \ {n} : row'[t] = row[t] \/ row'[t].state = "revoked"
           /\ req'[q].pc = IF req[q].token = None THEN "respond" ELSE "mark"
           /\ req'[q].token = req[q].token /\ req'[q].new = n /\ req[q].new = n
           /\ req'[q].user = req[q].user /\ req[q].pc = "commit"
           /\ \A p \in Requests \ {q} : req'[p] = req[p] /\ req[p].new # n
<1> PICK n \in Tokens : n = req[q].new /\ row[n].state = "pending"
  BY DEF Commit, Shape, RequestOK, TypeOK, Request
<1>1. /\ req[q].pc = "commit"
      /\ row' = [t \in Tokens |->
           IF t = n THEN [row[t] EXCEPT !.state = "live"]
           ELSE IF t \in req[q].victims THEN [row[t] EXCEPT !.state = "revoked"]
           ELSE row[t]]
      /\ req' = [req EXCEPT ![q].pc = IF req[q].token = None THEN "respond" ELSE "mark"]
  BY DEF Commit, Goto
<1>2. /\ row'[n].state = "live"
      /\ \A t \in Tokens : row'[t].family = row[t].family /\ row'[t].owner = row[t].owner
      /\ \A t \in Tokens \ {n} : row'[t] = row[t] \/ row'[t].state = "revoked"
  BY <1>1 DEF Shape, TypeOK, Row
<1>3. /\ req'[q].pc = IF req[q].token = None THEN "respond" ELSE "mark"
      /\ req'[q].token = req[q].token /\ req'[q].new = n /\ req'[q].user = req[q].user
      /\ \A p \in Requests \ {q} : req'[p] = req[p]
  BY <1>1 DEF Shape, TypeOK, Request
<1>4. /\ \A p \in Requests \ {q} : req[p].new # n
      /\ n \notin delivered
      /\ row[n].family = IF req[q].token = None THEN n ELSE row[req[q].token].family
  BY <1>1, TokensAssumption DEF Shape, RequestOK
<1>5. QED
  BY <1>1, <1>2, <1>3, <1>4

LEMMA MarkEffect ==
  ASSUME Shape, NEW q \in Requests, Mark(q)
  PROVE  /\ req[q].pc = "mark" /\ req[q].token \in Tokens /\ req[q].new \in Tokens
         /\ row'[req[q].token].state = "revoked"
         /\ row[req[q].new].family = row[req[q].token].family
         /\ \A t \in Tokens : row'[t].family = row[t].family /\ row'[t].owner = row[t].owner
         /\ \A t \in Tokens \ {req[q].token} : row'[t] = row[t]
         /\ req'[q].pc = "check" /\ req'[q].token = req[q].token
         /\ req'[q].new = req[q].new /\ req'[q].user = req[q].user
         /\ \A p \in Requests \ {q} : req'[p] = req[p]
<1>1. PICK t \in Tokens : t = req[q].token
  BY DEF Mark, Shape, RequestOK, TypeOK, Request
<1>2. PICK n \in Tokens : n = req[q].new /\ row[n].family = row[t].family
  BY <1>1, TokensAssumption DEF Mark, Shape, RequestOK, TypeOK, Request
<1>3. /\ row' = [row EXCEPT ![t] = [@ EXCEPT !.state = "revoked", !.next = n]]
      /\ req' = [req EXCEPT ![q].pc = "check"] /\ req[q].pc = "mark"
  BY <1>1, <1>2 DEF Mark, Goto
<1>4. /\ row'[t].state = "revoked" /\ \A s \in Tokens \ {t} : row'[s] = row[s]
      /\ row'[t].family = row[t].family /\ row'[t].owner = row[t].owner
  BY <1>3 DEF Shape, TypeOK, Row
<1>5. /\ req'[q].pc = "check" /\ req'[q].token = req[q].token
      /\ req'[q].new = req[q].new /\ req'[q].user = req[q].user
      /\ \A p \in Requests \ {q} : req'[p] = req[p]
  BY <1>3 DEF Shape, TypeOK, Request
<1>6. QED
  BY <1>1, <1>2, <1>3, <1>4, <1>5

LEMMA CrashEffect ==
  ASSUME Shape, NEW q \in Requests, Crash(q)
  PROVE  /\ \A t \in Tokens : \/ row'[t] = row[t]
                              \/ row'[t].state = "gone" /\ row'[t].family = None
         /\ \A p \in Requests : req'[p].token # None =>
              req'[p] = req[p] /\ row'[req[p].token] = row[req[p].token]
         /\ \A p \in Requests : req'[p] = req[p] \/ req'[p] = Idle
<1>1. /\ row' = [t \in Tokens |->
           IF req[q].pc = "commit" /\ t = req[q].new
           THEN [NoRow EXCEPT !.state = "gone"] ELSE row[t]]
      /\ End(q)
  BY DEF Crash
<1>2. \A t \in Tokens :
        \/ row'[t] = row[t]
        \/ /\ row[t].state = "pending" /\ row'[t].state = "gone" /\ row'[t].family = None
  BY <1>1 DEF NoRow, Shape, RequestOK, TypeOK
<1>3. ASSUME NEW p \in Requests, req'[p].token # None
      PROVE  req'[p] = req[p] /\ row'[req[p].token] = row[req[p].token]
  <2>1. req'[p] = req[p]
    BY <1>1, <1>3, EndEffect DEF Idle
  <2>2. req[p].token \in Tokens /\ row[req[p].token].state \in Settled
    BY <1>3, <2>1 DEF Shape, RequestOK, TypeOK, Request
  <2>3. QED
    BY <1>2, <2>1, <2>2 DEF Settled
<1>4. QED
  BY <1>1, <1>2, <1>3, EndEffect

LEMMA CleanupEffect ==
  ASSUME Shape, NEW state, Cleanup(state)
  PROVE  /\ \A t \in Tokens : \/ row'[t] = row[t]
                              \/ row'[t].state = "gone" /\ row'[t].family = None
         /\ \A p \in Requests : req'[p].token # None =>
              req'[p] = req[p] /\ row'[req[p].token] = row[req[p].token]
         /\ \A p \in Requests : req'[p] = req[p]
<1>1. PICK S \in SUBSET {t \in Tokens : row[t].state = state /\ ~InUse(t)} :
        row' = [t \in Tokens |-> IF t \in S THEN [NoRow EXCEPT !.state = "gone"] ELSE row[t]]
  BY DEF Cleanup
<1>2. \A p \in Requests : req[p].token # None => req[p].token \in Tokens \ S
  BY <1>1 DEF InUse, Shape, TypeOK, Request
<1>3. QED
  BY <1>1, <1>2 DEF NoRow, Cleanup

LEMMA WipeEffect ==
  ASSUME Shape, NEW u \in Users, Wipe(u)
  PROVE  \E S \in SUBSET Tokens, F \in SUBSET Tokens :
           /\ S = {t \in Tokens : row[t].owner = u /\ row[t].state \in Unrevoked}
           /\ F = {row[t].family : t \in {s \in Committed : row[s].owner = u}}
           /\ row' = Revoked(S) /\ Kill(F)
           /\ \A f \in F : row[f].state \notin {"absent", "pending"}
           /\ \A t \in Tokens : row[t].state \in Unrevoked /\ row[t].family \in F =>
                \E s \in Committed : row[s].owner = u /\ row[s].family = row[t].family
<1> DEFINE S == {t \in Tokens : row[t].owner = u /\ row[t].state \in Unrevoked}
           F == {row[t].family : t \in {s \in Committed : row[s].owner = u}}
<1>1. \A t \in Committed : row[t].state \in Settled
  BY DEF Committed, Settled, Shape, TypeOK, Row
<1>2. F \in SUBSET Tokens /\ \A f \in F : row[f].state \notin {"absent", "pending"}
  BY <1>1, FamilyCommitted DEF Committed
<1>3. QED
  BY <1>2 DEF Wipe

LEMMA RevokeFamilyEffect ==
  ASSUME Shape, NEW q \in Requests, RevokeFamily(q)
  PROVE  \E S \in SUBSET Tokens, f \in Tokens :
           /\ S = {t \in Tokens : row[t].family = f /\ row[t].state \in Unrevoked}
           /\ row' = Revoked(S) /\ Kill({f}) /\ End(q)
           /\ row[f].state \notin {"absent", "pending"}
<1>1. PICK t \in Tokens : t = req[q].token /\ row[t].state \in Settled
  BY DEF RevokeFamily, Shape, RequestOK, TypeOK, Request
<1>2. QED
  BY <1>1, FamilyCommitted DEF RevokeFamily

-----------------------------------------------------------------------------
(* Revocation *)

Alive == Unrevoked \union {"pending"}

(* A family revoked while no rotation was inserting into it has no usable  *)
(* row, none to be committed, and no rotation about to insert one.         *)
FamilyDead(f) ==
  /\ \A t \in Tokens : row[t].family = f => row[t].state \notin Alive
  /\ \A q \in Requests :
       req[q].pc = "insert" /\ req[q].token # None => row[req[q].token].family # f

(* A family has one owner, who is the user of every rotation in it. *)
OneOwner ==
  /\ \A s, t \in Tokens :
       row[s].family = row[t].family /\ row[s].family # None => row[s].owner = row[t].owner
  /\ \A q \in Requests : req[q].token # None => req[q].user = row[req[q].token].owner

FinalInv == Shape /\ OneOwner /\ \A f \in killed \ overtaken : FamilyDead(f)

(* Steps in which rows go or keep their family, and requests go or keep    *)
(* their token.                                                            *)
LEMMA OwnerKept ==
  ASSUME OneOwner,
         \A t \in Tokens : \/ row'[t].family = row[t].family /\ row'[t].owner = row[t].owner
                           \/ row'[t].family = None,
         \A p \in Requests : req'[p].token # None =>
           /\ req'[p].token = req[p].token /\ req'[p].user = req[p].user
           /\ row'[req[p].token].owner = row[req[p].token].owner
  PROVE  OneOwner'
BY DEF OneOwner

(* Steps that bring nothing of a family to life. *)
LEMMA DeadKept ==
  ASSUME NEW f \in Tokens, FamilyDead(f),
         \A t \in Tokens : row'[t].family = f /\ row'[t].state \in Alive =>
                             row[t].family = f /\ row[t].state \in Alive,
         \A q \in Requests : req'[q].pc = "insert" /\ req'[q].token # None =>
           \/ row'[req'[q].token].family # f
           \/ /\ req[q].pc = "insert" /\ req'[q].token = req[q].token
              /\ row'[req[q].token].family = row[req[q].token].family
  PROVE  FamilyDead(f)'
BY DEF FamilyDead

(* Families F are killed, with every unrevoked row of theirs. *)
LEMMA FinalKill ==
  ASSUME FinalInv, NEW S \in SUBSET Tokens, NEW F \in SUBSET Tokens,
         \A t \in S : row[t].state \in Unrevoked, row' = Revoked(S), Kill(F),
         \A f \in F : row[f].state \notin {"absent", "pending"},
         \A t \in Tokens : row[t].family \in F /\ row[t].state \in Unrevoked => t \in S,
         \A p \in Requests : req'[p] = req[p] \/ req'[p] = Idle
  PROVE  OneOwner' /\ \A f \in killed' \ overtaken' : FamilyDead(f)'
<1>0. Shape
  BY DEF FinalInv
<1>1. /\ \A t \in Tokens : /\ row'[t].family = row[t].family
                           /\ row'[t].owner = row[t].owner
      /\ \A t \in S : row'[t].state = "revoked"
      /\ \A t \in Tokens \ S : row'[t] = row[t]
  <2>1. \A t \in S : row[t].state \in Settled
    BY DEF Unrevoked, Settled
  <2>2. QED
    BY <1>0, <2>1, RevokedRows
<1>2. \A p \in Requests : req'[p].token # None => req'[p] = req[p] /\ req[p].token \in Tokens
  BY <1>0 DEF Idle, Shape, TypeOK, Request
<1>3. OneOwner'
  BY <1>1, <1>2, OwnerKept DEF FinalInv
<1>4. ASSUME NEW f \in killed' \ overtaken' PROVE FamilyDead(f)'
  <2>1. f \in Tokens /\ f \notin overtaken /\ f \in killed \union F
    BY <1>0, <1>4 DEF Kill, Shape, TypeOK
  <2>2. CASE f \in killed
    <3>1. FamilyDead(f)
      BY <2>1, <2>2 DEF FinalInv
    <3>2. \A t \in Tokens : row'[t].family = f /\ row'[t].state \in Alive =>
                              row[t].family = f /\ row[t].state \in Alive
      BY <1>1 DEF Alive, Unrevoked
    <3>3. QED
      BY <1>1, <1>2, <2>1, <3>1, <3>2, DeadKept
  <2>3. CASE f \in F
    <3>1. \A p \in Requests : Rotating(p) /\ req[p].pc # "mark"
                                => row[req[p].token].family # f
      BY <1>4, <2>1, <2>3 DEF Kill
    <3>2. \A t \in Tokens : row[t].family = f => row[t].state # "pending"
      <4>1. SUFFICES ASSUME NEW t \in Tokens, row[t].family = f, row[t].state = "pending"
                     PROVE  FALSE
        OBVIOUS
      <4>2. PICK p \in Requests : req[p].pc = "commit" /\ req[p].new = t
        BY <1>0, <4>1 DEF Shape, RowsOK
      <4>3. f = IF req[p].token = None THEN t ELSE row[req[p].token].family
        BY <1>0, <4>1, <4>2, TokensAssumption DEF Shape, RequestOK
      <4>4. CASE req[p].token = None
        BY <2>3, <4>1, <4>3, <4>4
      <4>5. CASE req[p].token # None
        BY <3>1, <4>2, <4>3, <4>5 DEF Rotating
      <4>6. QED
        BY <4>4, <4>5
    <3>3. \A t \in Tokens : row'[t].family = f => row'[t].state \notin Alive
      BY <1>1, <2>3, <3>2 DEF Alive, Unrevoked
    <3>4. \A q \in Requests : req'[q].pc = "insert" /\ req'[q].token # None
                                => row'[req'[q].token].family # f
      BY <1>1, <1>2, <3>1 DEF Rotating
    <3>5. QED
      BY <3>3, <3>4 DEF FamilyDead
  <2>4. QED
    BY <2>1, <2>2, <2>3
<1>5. QED
  BY <1>3, <1>4

LEMMA FinalStep == FinalInv /\ [Next]_vars => FinalInv'
<1> SUFFICES ASSUME FinalInv, [Next]_vars
             PROVE  OneOwner' /\ \A f \in killed' \ overtaken' : FamilyDead(f)'
  BY ShapeStep DEF FinalInv
<1>a. Shape /\ OneOwner
  BY DEF FinalInv
<1>b. \A p \in Requests : /\ req[p].token # None => req[p].token \in Tokens
                          /\ Idle.token = None /\ Idle.pc = "idle"
  BY <1>a DEF Shape, TypeOK, Request, Idle
<1>c. \A f \in killed \ overtaken : f \in Tokens /\ f # None /\ FamilyDead(f)
  BY <1>a, TokensAssumption DEF FinalInv, Shape, TypeOK
<1>0. ASSUME killed' = killed, overtaken' = overtaken,
             \A t \in Tokens : \/ /\ row'[t].family = row[t].family
                                  /\ row'[t].owner = row[t].owner
                                  /\ row'[t].state \in Alive => row[t].state \in Alive
                               \/ row'[t].family = None,
             \A p \in Requests : req'[p].token # None =>
               /\ req'[p].token = req[p].token /\ req'[p].user = req[p].user
               /\ req'[p].pc = "insert" => req[p].pc = "insert"
               /\ row'[req[p].token].owner = row[req[p].token].owner
               /\ row'[req[p].token].family = row[req[p].token].family
      PROVE  OneOwner' /\ \A f \in killed' \ overtaken' : FamilyDead(f)'
  <2>1. OneOwner'
    BY <1>a, <1>0, OwnerKept
  <2>2. ASSUME NEW f \in killed' \ overtaken' PROVE FamilyDead(f)'
    BY <1>0, <1>c, <2>2, DeadKept
  <2>3. QED
    BY <2>1, <2>2
<1>1. ASSUME NEW q \in Requests, Insert(q)
      PROVE  OneOwner' /\ \A f \in killed' \ overtaken' : FamilyDead(f)'
  <2>1. PICK n \in Tokens :
          /\ row[n].state = "absent" /\ row'[n].state = "pending"
          /\ row'[n].owner = req[q].user
          /\ row'[n].family = IF req[q].token = None THEN n ELSE row[req[q].token].family
          /\ \A t \in Tokens \ {n} : row'[t] = row[t]
          /\ req[q].pc = "insert" /\ req'[q].pc = "commit" /\ req'[q].token = req[q].token
          /\ req'[q].user = req[q].user /\ req'[q].new = n
          /\ \A p \in Requests \ {q} :
               /\ req'[p].pc = req[p].pc /\ req'[p].token = req[p].token
               /\ req'[p].new = req[p].new /\ req'[p].user = req[p].user
    BY <1>1, <1>a, InsertEffect
  <2>2. killed' = killed /\ overtaken' = overtaken
    BY <1>1 DEF Insert, history
  <2>3. \A p \in Requests : req[p].token # None =>
          /\ req[p].token # n /\ row'[req[p].token] = row[req[p].token]
    BY <1>a, <1>b, <2>1 DEF Shape, RequestOK, Settled
  <2>4. OneOwner'
    <3>1. \A t \in Tokens \ {n} : row[t].family = row'[n].family => row[t].owner = req[q].user
      <4>1. CASE req[q].token = None
        BY <1>a, <2>1, <4>1, TokensAssumption DEF Shape, RowsOK
      <4>2. CASE req[q].token # None
        <5>1. row[req[q].token].family # None /\ req[q].token \in Tokens
          BY <1>a, <1>b, <4>2, FamilyCommitted, TokensAssumption DEF Shape, RequestOK
        <5>2. QED
          BY <1>a, <2>1, <4>2, <5>1 DEF OneOwner
      <4>3. QED
        BY <4>1, <4>2
    <3>2. \A s, t \in Tokens :
            row'[s].family = row'[t].family /\ row'[s].family # None
              => row'[s].owner = row'[t].owner
      BY <1>a, <2>1, <3>1 DEF OneOwner
    <3>3. \A p \in Requests : req'[p].token # None
                                => req'[p].user = row'[req'[p].token].owner
      BY <1>a, <2>1, <2>3 DEF OneOwner
    <3>4. QED
      BY <3>2, <3>3 DEF OneOwner
  <2>5. ASSUME NEW f \in killed' \ overtaken' PROVE FamilyDead(f)'
    <3>1. f \in Tokens /\ FamilyDead(f) /\ f \in killed
      BY <1>c, <2>2, <2>5
    <3>2. row'[n].family # f
      BY <1>a, <2>1, <3>1 DEF FamilyDead, Shape, RowsOK
    <3>3. \A t \in Tokens : row'[t].family = f => row'[t] = row[t]
      BY <2>1, <3>2
    <3>4. \A p \in Requests : req'[p].pc = "insert" /\ req'[p].token # None =>
            /\ req[p].pc = "insert" /\ req'[p].token = req[p].token
            /\ row'[req[p].token].family = row[req[p].token].family
      BY <2>1, <2>3
    <3>5. QED
      BY <3>1, <3>3, <3>4, DeadKept
  <2>6. QED
    BY <2>4, <2>5
<1>2. ASSUME NEW q \in Requests, Commit(q)
      PROVE  OneOwner' /\ \A f \in killed' \ overtaken' : FamilyDead(f)'
  <2>1. PICK n \in Tokens :
          /\ row[n].state = "pending"
          /\ \A t \in Tokens : row'[t].family = row[t].family /\ row'[t].owner = row[t].owner
          /\ \A t \in Tokens \ {n} : row'[t] = row[t] \/ row'[t].state = "revoked"
          /\ req'[q].pc \in {"respond", "mark"}
          /\ req'[q].token = req[q].token /\ req'[q].user = req[q].user
          /\ \A p \in Requests \ {q} : req'[p] = req[p]
    BY <1>2, <1>a, CommitEffect
  <2>2. killed' = killed /\ overtaken' = overtaken
    BY <1>2 DEF Commit
  <2>3. \A t \in Tokens : row'[t].state \in Alive => row[t].state \in Alive
    BY <2>1 DEF Alive, Unrevoked
  <2>4. QED
    BY <1>0, <1>b, <2>1, <2>2, <2>3
<1>3. ASSUME NEW q \in Requests, Mark(q)
      PROVE  OneOwner' /\ \A f \in killed' \ overtaken' : FamilyDead(f)'
  <2>1. /\ row'[req[q].token].state = "revoked"
        /\ \A t \in Tokens : row'[t].family = row[t].family /\ row'[t].owner = row[t].owner
        /\ \A t \in Tokens \ {req[q].token} : row'[t] = row[t]
        /\ req'[q].pc = "check" /\ req'[q].token = req[q].token /\ req'[q].user = req[q].user
        /\ \A p \in Requests \ {q} : req'[p] = req[p]
    BY <1>3, <1>a, MarkEffect
  <2>2. killed' = killed /\ overtaken' = overtaken
    BY <1>3 DEF Mark, history
  <2>3. \A t \in Tokens : row'[t].state \in Alive => row[t].state \in Alive
    BY <2>1 DEF Alive, Unrevoked
  <2>4. QED
    BY <1>0, <1>b, <2>1, <2>2, <2>3
<1>4. ASSUME NEW q \in Requests, Check(q)
      PROVE  OneOwner' /\ \A f \in killed' \ overtaken' : FamilyDead(f)'
  <2>1. /\ row' = row /\ killed' = killed /\ overtaken' = overtaken
        /\ \A p \in Requests : /\ req'[p].token = req[p].token /\ req'[p].user = req[p].user
                               /\ req'[p].pc \in {req[p].pc, "respond", "all"}
    BY <1>4, <1>a DEF Check, Goto, history, Shape, TypeOK, Request
  <2>2. QED
    BY <1>0, <2>1
<1>5. ASSUME NEW q \in Requests, Respond(q)
      PROVE  OneOwner' /\ \A f \in killed' \ overtaken' : FamilyDead(f)'
  <2>1. /\ row' = row /\ killed' = killed /\ overtaken' = overtaken
        /\ \A p \in Requests : req'[p] = req[p] \/ req'[p] = Idle
    BY <1>5, <1>a, EndEffect DEF Respond, history
  <2>2. QED
    BY <1>0, <1>b, <2>1
<1>6. ASSUME NEW q \in Requests, RevokeFamily(q)
      PROVE  OneOwner' /\ \A f \in killed' \ overtaken' : FamilyDead(f)'
  <2>1. PICK S \in SUBSET Tokens, f \in Tokens :
           /\ S = {t \in Tokens : row[t].family = f /\ row[t].state \in Unrevoked}
           /\ row' = Revoked(S) /\ Kill({f}) /\ End(q)
           /\ row[f].state \notin {"absent", "pending"}
    BY <1>6, <1>a, RevokeFamilyEffect
  <2>2. \A p \in Requests : req'[p] = req[p] \/ req'[p] = Idle
    BY <1>a, <2>1, EndEffect
  <2>3. {f} \in SUBSET Tokens
    OBVIOUS
  <2>4. QED
    BY <2>1, <2>2, <2>3, FinalKill
<1>7. ASSUME NEW u \in Users, Wipe(u),
             \A p \in Requests : req'[p] = req[p] \/ req'[p] = Idle
      PROVE  OneOwner' /\ \A f \in killed' \ overtaken' : FamilyDead(f)'
  <2>1. PICK S \in SUBSET Tokens, F \in SUBSET Tokens :
           /\ S = {t \in Tokens : row[t].owner = u /\ row[t].state \in Unrevoked}
           /\ row' = Revoked(S) /\ Kill(F)
           /\ \A f \in F : row[f].state \notin {"absent", "pending"}
           /\ \A t \in Tokens : row[t].state \in Unrevoked /\ row[t].family \in F =>
                \E s \in Committed : row[s].owner = u /\ row[s].family = row[t].family
    BY <1>7, <1>a, WipeEffect
  <2>2. \A t \in Tokens : row[t].family \in F /\ row[t].state \in Unrevoked => t \in S
    BY <1>a, <2>1, TokensAssumption DEF OneOwner, Committed
  <2>3. QED
    BY <1>7, <2>1, <2>2, FinalKill
<1>8. ASSUME NEW q \in Requests, RevokeAll(q)
      PROVE  OneOwner' /\ \A f \in killed' \ overtaken' : FamilyDead(f)'
  <2>1. req[q].user \in Users /\ Wipe(req[q].user) /\ End(q)
    BY <1>8, <1>a DEF RevokeAll, Shape, RequestOK
  <2>2. QED
    BY <1>7, <1>a, <2>1, EndEffect
<1>9. ASSUME NEW u \in Users, LogoutAll(u)
      PROVE  OneOwner' /\ \A f \in killed' \ overtaken' : FamilyDead(f)'
  BY <1>7, <1>9 DEF LogoutAll
<1>10. ASSUME NEW q \in Requests, Crash(q)
       PROVE  OneOwner' /\ \A f \in killed' \ overtaken' : FamilyDead(f)'
  <2>1. killed' = killed /\ overtaken' = overtaken
    BY <1>10 DEF Crash, history
  <2>2. QED
    BY <1>0, <1>10, <1>a, <2>1, CrashEffect
<1>11. ASSUME NEW q \in Requests, NEW l \in {"insert", "family"}, NEW u,
              NEW t \in Tokens \union {None}, Begin(q, l, t, u),
              t # None => u = row[t].owner,
              t # None /\ l = "insert" => row[t].state = "live",
              row' = row, killed' = killed, overtaken' = overtaken
       PROVE  OneOwner' /\ \A f \in killed' \ overtaken' : FamilyDead(f)'
  <2>1. /\ req'[q].pc = l /\ req'[q].token = t /\ req'[q].user = u
        /\ \A p \in Requests \ {q} : req'[p] = req[p]
    BY <1>11, <1>a, BeginEffect
  <2>2. OneOwner'
    BY <1>11, <1>a, <2>1 DEF OneOwner
  <2>3. ASSUME NEW f \in killed' \ overtaken' PROVE FamilyDead(f)'
    <3>1. f \in Tokens /\ FamilyDead(f)
      BY <1>11, <1>c, <2>3
    <3>2. t # None /\ l = "insert" => row[t].family # f
      BY <1>11, <3>1 DEF FamilyDead, Alive, Unrevoked
    <3>3. QED
      BY <1>11, <2>1, <3>1, <3>2, DeadKept
  <2>4. QED
    BY <2>2, <2>3
<1>12. ASSUME NEW q \in Requests, NEW u \in Users, Login(q, u)
       PROVE  OneOwner' /\ \A f \in killed' \ overtaken' : FamilyDead(f)'
  BY <1>11, <1>12 DEF Login, history
<1>13. ASSUME NEW q \in Requests, NEW t \in Tokens,
              BeginRotation(q, t) \/ DetectReuse(q, t) \/ BeginLogout(q, t)
       PROVE  OneOwner' /\ \A f \in killed' \ overtaken' : FamilyDead(f)'
  <2>1. row' = row /\ killed' = killed /\ overtaken' = overtaken
    BY <1>13 DEF BeginRotation, DetectReuse, BeginLogout, history
  <2>2. \/ Begin(q, "insert", t, row[t].owner) /\ row[t].state = "live"
        \/ Begin(q, "family", t, row[t].owner)
    BY <1>13 DEF BeginRotation, DetectReuse, BeginLogout
  <2>3. QED
    BY <1>11, <2>1, <2>2
<1>14. ASSUME NEW t \in Tokens, Expire(t)
       PROVE  OneOwner' /\ \A f \in killed' \ overtaken' : FamilyDead(f)'
  <2>1. /\ row[t].state = "live" /\ row' = [row EXCEPT ![t].state = "expired"]
        /\ req' = req /\ killed' = killed /\ overtaken' = overtaken
    BY <1>14 DEF Expire, history
  <2>2. /\ \A s \in Tokens : row'[s].family = row[s].family /\ row'[s].owner = row[s].owner
        /\ \A s \in Tokens : row'[s].state \in Alive => row[s].state \in Alive
    BY <1>a, <2>1 DEF Shape, TypeOK, Row, Alive, Unrevoked
  <2>3. QED
    BY <1>0, <1>b, <2>1, <2>2
<1>15. ASSUME NEW state \in {"expired", "revoked"}, Cleanup(state)
       PROVE  OneOwner' /\ \A f \in killed' \ overtaken' : FamilyDead(f)'
  <2>1. killed' = killed /\ overtaken' = overtaken
    BY <1>15 DEF Cleanup, history
  <2>2. QED
    BY <1>0, <1>15, <1>a, <2>1, CleanupEffect
<1>16. ASSUME NEW u \in Users, Disable(u)
       PROVE  OneOwner' /\ \A f \in killed' \ overtaken' : FamilyDead(f)'
  BY <1>0, <1>16 DEF Disable, history
<1>17. CASE UNCHANGED vars
  BY <1>0, <1>17 DEF vars
<1>18. QED
  BY <1>1, <1>2, <1>3, <1>4, <1>5, <1>6, <1>8, <1>9, <1>10, <1>12, <1>13, <1>14, <1>15,
     <1>16, <1>17 DEF Next, Step

(* A revoked session stays revoked, unless a rotation was inserting into   *)
(* it: reuse detection and logout are final.                               *)
THEOREM RevocationHolds == Spec => []RevocationIsFinal
<1>1. Init => FinalInv
  BY ShapeInit DEF Init, FinalInv, OneOwner, Idle, NoRow
<1>2. FinalInv => RevocationIsFinal
  BY DEF FinalInv, FamilyDead, RevocationIsFinal, Alive
<1>3. QED
  BY <1>1, <1>2, FinalStep, PTL DEF Spec

-----------------------------------------------------------------------------
(* One usable token *)

(* Tokens that would be accepted and that a client holds or is being sent. *)
Claim(t) ==
  /\ row[t].state = "live"
  /\ \/ t \in delivered
     \/ \E q \in Requests : req[q].new = t /\ req[q].pc \in {"check", "respond"}

OneClaim ==
  \A s, t \in Tokens :
    Claim(s) /\ Claim(t) /\ row[s].family = row[t].family /\ s # t
      => row[s].family \in forked

(* A rotation under way holds the only claim of its family. *)
RotatorClaims ==
  \A q \in Requests :
    Rotating(q) /\ row[req[q].token].family \notin forked =>
      /\ \A s \in Tokens : Claim(s) /\ row[s].family = row[req[q].token].family
                            => s = req[q].token
      /\ \A p \in Requests \ {q} :
           Rotating(p) => row[req[p].token].family # row[req[q].token].family

ClaimInv == Shape /\ OneClaim /\ RotatorClaims

(* Steps that add no claim and begin no rotation. *)
LEMMA ClaimsShrink ==
  ASSUME ClaimInv, forked \subseteq forked',
         \A t \in Tokens : Claim(t)' => Claim(t) /\ row'[t].family = row[t].family,
         \A q \in Requests : Rotating(q)' =>
           /\ Rotating(q) /\ req'[q].token = req[q].token
           /\ row'[req[q].token].family = row[req[q].token].family
  PROVE  OneClaim' /\ RotatorClaims'
<1>1. OneClaim'
  BY DEF ClaimInv, OneClaim
<1>2. RotatorClaims'
  BY DEF ClaimInv, RotatorClaims
<1>3. QED
  BY <1>1, <1>2

(* ... because rows stay or are no longer live, requests stay or end *)
LEMMA ClaimsKept ==
  ASSUME ClaimInv, forked' = forked, delivered' = delivered,
         \A t \in Tokens : row'[t] = row[t] \/ row'[t].state # "live",
         \A q \in Requests :
           \/ req'[q] = Idle
           \/ req'[q] = req[q]
         , \A q \in Requests : req'[q].token # None =>
             row'[req[q].token].family = row[req[q].token].family
  PROVE  OneClaim' /\ RotatorClaims'
<1>1. Idle.new = None /\ Idle.pc = "idle" /\ Idle.token = None
  BY DEF Idle
<1>2. \A t \in Tokens : Claim(t)' => Claim(t) /\ row'[t].family = row[t].family
  BY <1>1 DEF Claim
<1>3. \A q \in Requests : Rotating(q)' =>
        /\ Rotating(q) /\ req'[q].token = req[q].token
        /\ row'[req[q].token].family = row[req[q].token].family
  BY <1>1 DEF Rotating
<1>4. QED
  BY <1>2, <1>3, ClaimsShrink

(* A login's family has no row but the one being inserted. *)
LEMMA FreshFamily ==
  ASSUME Shape, NEW n \in Tokens, row[n].state = "pending", row[n].family = n
  PROVE  \A t \in Tokens : row[t].family = n => t = n
BY TokensAssumption DEF Shape, RowsOK

LEMMA ClaimCommit ==
  ASSUME ClaimInv, NEW q \in Requests, Commit(q)
  PROVE  OneClaim' /\ RotatorClaims'
<1>a. Shape
  BY DEF ClaimInv
<1>1. PICK n \in Tokens :
        /\ row[n].state = "pending" /\ row'[n].state = "live" /\ n \notin delivered
        /\ row[n].family = IF req[q].token = None THEN n ELSE row[req[q].token].family
        /\ \A t \in Tokens : row'[t].family = row[t].family /\ row'[t].owner = row[t].owner
        /\ \A t \in Tokens \ {n} : row'[t] = row[t] \/ row'[t].state = "revoked"
        /\ req'[q].pc = IF req[q].token = None THEN "respond" ELSE "mark"
        /\ req'[q].token = req[q].token /\ req'[q].new = n /\ req[q].new = n
        /\ req'[q].user = req[q].user /\ req[q].pc = "commit"
        /\ \A p \in Requests \ {q} : req'[p] = req[p] /\ req[p].new # n
  BY <1>a, CommitEffect
<1>2. forked' = forked /\ delivered' = delivered
  BY DEF Commit
<1>3. \A t \in Tokens \ {n} : Claim(t)' => Claim(t)
  BY <1>1, <1>2 DEF Claim
<1>4. \A p \in Requests : Rotating(p)' =>
        /\ Rotating(p) /\ req'[p].token = req[p].token /\ req[p].token \in Tokens
        /\ row'[req[p].token].family = row[req[p].token].family
        /\ row[req[p].token].state \in Settled
  BY <1>1, <1>a DEF Rotating, Shape, RequestOK, TypeOK, Request
<1>5. CASE req[q].token # None
  <2>1. ~Claim(n)'
    BY <1>1, <1>2, <1>5 DEF Claim
  <2>2. QED
    BY <1>1, <1>2, <1>3, <1>4, <2>1, ClaimsShrink
<1>6. CASE req[q].token = None
  <2>1. \A t \in Tokens : row'[t].family = n => t = n
    BY <1>1, <1>6, <1>a, FreshFamily
  <2>2. OneClaim'
    BY <1>1, <1>2, <1>3, <1>6, <2>1 DEF ClaimInv, OneClaim
  <2>3. \A p \in Requests : Rotating(p)' => row'[req[p].token].family # n
    BY <1>1, <1>4, <2>1 DEF Settled
  <2>4. ASSUME NEW p \in Requests, Rotating(p)', row'[req'[p].token].family \notin forked'
        PROVE  /\ \A s \in Tokens : Claim(s)' /\ row'[s].family = row'[req'[p].token].family
                                      => s = req'[p].token
               /\ \A r \in Requests \ {p} :
                    Rotating(r)' => row'[req'[r].token].family # row'[req'[p].token].family
    <3>1. /\ \A s \in Tokens : Claim(s) /\ row[s].family = row[req[p].token].family
                                 => s = req[p].token
          /\ \A r \in Requests \ {p} :
               Rotating(r) => row[req[r].token].family # row[req[p].token].family
      BY <1>2, <1>4, <2>4 DEF ClaimInv, RotatorClaims
    <3>2. row[n].family = n
      BY <1>1, <1>6
    <3>3. QED
      BY <1>1, <1>3, <1>4, <2>3, <2>4, <3>1, <3>2
  <2>5. RotatorClaims'
    BY <2>4 DEF RotatorClaims
  <2>6. QED
    BY <2>2, <2>5
<1>7. QED
  BY <1>5, <1>6

LEMMA ClaimMark ==
  ASSUME ClaimInv, NEW q \in Requests, Mark(q)
  PROVE  OneClaim' /\ RotatorClaims'
<1>a. Shape
  BY DEF ClaimInv
<1>1. PICK t \in Tokens, n \in Tokens :
        /\ t = req[q].token /\ n = req[q].new /\ req[q].pc = "mark"
        /\ row'[t].state = "revoked" /\ row[n].family = row[t].family
        /\ \A s \in Tokens : row'[s].family = row[s].family /\ row'[s].owner = row[s].owner
        /\ \A s \in Tokens \ {t} : row'[s] = row[s]
        /\ req'[q].pc = "check" /\ req'[q].token = t /\ req'[q].new = n
        /\ \A p \in Requests \ {q} : req'[p] = req[p]
  BY <1>a, MarkEffect
<1>2. forked' = forked /\ delivered' = delivered
  BY DEF Mark, history
<1>3. \A s \in Tokens : Claim(s)' => s # t /\ (Claim(s) \/ s = n)
  BY <1>1, <1>2 DEF Claim
<1>4. \A p \in Requests : Rotating(p)' => p # q /\ Rotating(p) /\ req'[p].token = req[p].token
                                          /\ req[p].token \in Tokens
  BY <1>1, <1>a DEF Rotating, Shape, TypeOK, Request
<1>5. Rotating(q)
  BY <1>1, TokensAssumption DEF Rotating
<1>6. row[t].family \notin forked =>
        /\ \A s \in Tokens : Claim(s) /\ row[s].family = row[t].family => s = t
        /\ \A p \in Requests \ {q} : Rotating(p) => row[req[p].token].family # row[t].family
  BY <1>1, <1>5 DEF ClaimInv, RotatorClaims
<1>7. OneClaim'
  <2>1. SUFFICES ASSUME NEW r \in Tokens, NEW s \in Tokens, Claim(r)', Claim(s)',
                        row[r].family = row[s].family, r # s, row[r].family \notin forked
                 PROVE  FALSE
    BY <1>1, <1>2 DEF OneClaim
  <2>2. CASE row[r].family = row[t].family
    BY <1>3, <1>6, <2>1, <2>2
  <2>3. CASE row[r].family # row[t].family
    BY <1>1, <1>3, <2>1, <2>3 DEF ClaimInv, OneClaim
  <2>4. QED
    BY <2>2, <2>3
<1>8. RotatorClaims'
  <2>1. ASSUME NEW p \in Requests, Rotating(p)', row'[req'[p].token].family \notin forked'
        PROVE  /\ \A s \in Tokens : Claim(s)' /\ row'[s].family = row'[req'[p].token].family
                                      => s = req'[p].token
               /\ \A r \in Requests \ {p} :
                    Rotating(r)' => row'[req'[r].token].family # row'[req'[p].token].family
    <3>1. /\ \A s \in Tokens : Claim(s) /\ row[s].family = row[req[p].token].family
                                 => s = req[p].token
          /\ \A r \in Requests \ {p} :
               Rotating(r) => row[req[r].token].family # row[req[p].token].family
      BY <1>1, <1>2, <1>4, <2>1 DEF ClaimInv, RotatorClaims
    <3>2. row[req[p].token].family # row[t].family
      BY <1>1, <1>4, <1>5, <2>1, <3>1
    <3>3. QED
      BY <1>1, <1>3, <1>4, <2>1, <3>1, <3>2
  <2>2. QED
    BY <2>1 DEF RotatorClaims
<1>9. QED
  BY <1>7, <1>8

LEMMA ClaimBegin ==
  ASSUME ClaimInv, NEW q \in Requests, NEW t \in Tokens, BeginRotation(q, t)
  PROVE  OneClaim' /\ RotatorClaims'
<1>a. Shape
  BY DEF ClaimInv
<1>1. /\ req'[q].pc = "insert" /\ req'[q].token = t /\ req'[q].new = None
      /\ \A p \in Requests \ {q} : req'[p] = req[p]
  BY <1>a, BeginEffect DEF BeginRotation
<1>2. /\ row' = row /\ delivered' = delivered /\ req[q].pc = "idle" /\ Claim(t)
      /\ forked \subseteq forked'
      /\ row[t].family \notin forked'
           => \A p \in Requests \ {q} : Rotating(p) => req[p].token # t
  BY DEF BeginRotation, Claim
<1>3. \A s \in Tokens : Claim(s)' => Claim(s)
  BY <1>1, <1>2 DEF Claim
<1>4. \A p \in Requests \ {q} : Rotating(p)' => Rotating(p)
  BY <1>1 DEF Rotating
<1>5. OneClaim'
  BY <1>2, <1>3 DEF ClaimInv, OneClaim
<1>6. ASSUME NEW p \in Requests \ {q}, Rotating(p), row[req[p].token].family \notin forked'
      PROVE  row[req[p].token].family # row[t].family
  BY <1>2, <1>6 DEF ClaimInv, RotatorClaims
<1>7. ASSUME NEW p \in Requests, Rotating(p)', row'[req'[p].token].family \notin forked'
      PROVE  /\ \A s \in Tokens : Claim(s)' /\ row'[s].family = row'[req'[p].token].family
                                    => s = req'[p].token
             /\ \A r \in Requests \ {p} :
                  Rotating(r)' => row'[req'[r].token].family # row'[req'[p].token].family
  <2>1. CASE p = q
    <3>1. \A s \in Tokens : Claim(s)' /\ row'[s].family = row[t].family => s = t
      BY <1>1, <1>2, <1>3, <1>7, <2>1 DEF ClaimInv, OneClaim
    <3>2. \A r \in Requests \ {p} : Rotating(r)' => row[req[r].token].family # row[t].family
      BY <1>1, <1>2, <1>4, <1>6, <1>7, <2>1
    <3>3. QED
      BY <1>1, <1>2, <2>1, <3>1, <3>2
  <2>2. CASE p # q
    <3>1. /\ Rotating(p) /\ req'[p] = req[p] /\ row[req[p].token].family \notin forked
      BY <1>1, <1>2, <1>4, <1>7, <2>2
    <3>2. /\ \A s \in Tokens : Claim(s) /\ row[s].family = row[req[p].token].family
                                 => s = req[p].token
          /\ \A r \in Requests \ {p} :
               Rotating(r) => row[req[r].token].family # row[req[p].token].family
      BY <3>1 DEF ClaimInv, RotatorClaims
    <3>3. row[req[p].token].family # row[t].family
      BY <1>2, <1>6, <1>7, <2>2, <3>1
    <3>4. QED
      BY <1>1, <1>2, <1>3, <1>4, <2>2, <3>1, <3>2, <3>3
  <2>3. QED
    BY <2>1, <2>2
<1>8. RotatorClaims'
  BY <1>7 DEF RotatorClaims
<1>9. QED
  BY <1>5, <1>8

LEMMA ClaimStep == ClaimInv /\ [Next]_vars => ClaimInv'
<1> SUFFICES ASSUME ClaimInv, [Next]_vars PROVE OneClaim' /\ RotatorClaims'
  BY ShapeStep DEF ClaimInv
<1>a. Shape
  BY DEF ClaimInv
<1>b. \A p \in Requests : req[p].token # None => req[p].token \in Tokens
  BY <1>a DEF Shape, TypeOK, Request
<1>1. ASSUME NEW q \in Requests, Insert(q) PROVE OneClaim' /\ RotatorClaims'
  <2>1. PICK n \in Tokens :
          /\ row[n].state = "absent" /\ row'[n].state = "pending"
          /\ \A t \in Tokens \ {n} : row'[t] = row[t]
          /\ req[q].pc = "insert" /\ req'[q].pc = "commit" /\ req'[q].token = req[q].token
          /\ \A p \in Requests \ {q} :
               /\ req'[p].pc = req[p].pc /\ req'[p].token = req[p].token
               /\ req'[p].new = req[p].new
    BY <1>1, <1>a, InsertEffect
  <2>2. forked' = forked /\ delivered' = delivered
    BY <1>1 DEF Insert, history
  <2>3. \A p \in Requests : req[p].token # None =>
          /\ req[p].token # n /\ row'[req[p].token] = row[req[p].token]
    BY <1>a, <1>b, <2>1 DEF Shape, RequestOK, Settled
  <2>4. \A t \in Tokens : Claim(t)' => Claim(t) /\ row'[t].family = row[t].family
    BY <2>1, <2>2 DEF Claim
  <2>5. \A p \in Requests : Rotating(p)' =>
          /\ Rotating(p) /\ req'[p].token = req[p].token
          /\ row'[req[p].token].family = row[req[p].token].family
    BY <2>1, <2>3 DEF Rotating
  <2>6. QED
    BY <2>2, <2>4, <2>5, ClaimsShrink
<1>2. ASSUME NEW q \in Requests, Commit(q) PROVE OneClaim' /\ RotatorClaims'
  BY <1>2, ClaimCommit
<1>3. ASSUME NEW q \in Requests, Mark(q) PROVE OneClaim' /\ RotatorClaims'
  BY <1>3, ClaimMark
<1>4. ASSUME NEW q \in Requests, Check(q) PROVE OneClaim' /\ RotatorClaims'
  <2>1. /\ row' = row /\ forked' = forked /\ delivered' = delivered /\ req[q].pc = "check"
        /\ req'[q].pc \in {"respond", "all"} /\ req'[q].new = req[q].new
        /\ \A p \in Requests \ {q} : req'[p] = req[p]
    BY <1>4, <1>a DEF Check, Goto, history, Shape, TypeOK, Request
  <2>2. \A t \in Tokens : Claim(t)' => Claim(t)
    BY <2>1 DEF Claim
  <2>3. \A p \in Requests : Rotating(p)' => Rotating(p) /\ req'[p].token = req[p].token
    BY <2>1 DEF Rotating
  <2>4. QED
    BY <2>1, <2>2, <2>3, ClaimsShrink
<1>5. ASSUME NEW q \in Requests, Respond(q) PROVE OneClaim' /\ RotatorClaims'
  <2>1. /\ row' = row /\ forked' = forked /\ delivered' = delivered \union {req[q].new}
        /\ req[q].pc = "respond" /\ req'[q] = Idle
        /\ \A p \in Requests \ {q} : req'[p] = req[p]
    BY <1>5, <1>a, EndEffect DEF Respond, history
  <2>2. \A t \in Tokens : Claim(t)' => Claim(t)
    BY <2>1, TokensAssumption DEF Claim, Idle
  <2>3. \A p \in Requests : Rotating(p)' => Rotating(p) /\ req'[p].token = req[p].token
    BY <2>1 DEF Rotating, Idle
  <2>4. QED
    BY <2>1, <2>2, <2>3, ClaimsShrink
<1>6. ASSUME NEW S \in SUBSET Tokens, \A t \in S : row[t].state \in Unrevoked,
             row' = Revoked(S), NEW F, Kill(F),
             \A p \in Requests : req'[p] = req[p] \/ req'[p] = Idle
      PROVE  OneClaim' /\ RotatorClaims'
  <2>1. \A t \in S : row[t].state \in Settled
    BY <1>6 DEF Unrevoked, Settled
  <2>2. /\ \A t \in Tokens : row'[t].family = row[t].family
        /\ \A t \in Tokens : row'[t] = row[t] \/ row'[t].state = "revoked"
    BY <1>6, <1>a, <2>1, RevokedRows
  <2>3. \A p \in Requests : req'[p].token # None => req[p].token \in Tokens
    BY <1>6, <1>b DEF Idle
  <2>4. QED
    BY <1>6, <2>2, <2>3, ClaimsKept DEF Kill
<1>7. ASSUME NEW q \in Requests, RevokeFamily(q) PROVE OneClaim' /\ RotatorClaims'
  <2>1. PICK S \in SUBSET Tokens, f \in Tokens :
           /\ S = {t \in Tokens : row[t].family = f /\ row[t].state \in Unrevoked}
           /\ row' = Revoked(S) /\ Kill({f}) /\ End(q)
    BY <1>7, <1>a, RevokeFamilyEffect
  <2>2. QED
    BY <1>6, <1>a, <2>1, EndEffect
<1>8. ASSUME NEW u \in Users, Wipe(u), \A p \in Requests : req'[p] = req[p] \/ req'[p] = Idle
      PROVE  OneClaim' /\ RotatorClaims'
  <2>1. PICK S \in SUBSET Tokens, F \in SUBSET Tokens :
           /\ S = {t \in Tokens : row[t].owner = u /\ row[t].state \in Unrevoked}
           /\ row' = Revoked(S) /\ Kill(F)
    BY <1>8, <1>a, WipeEffect
  <2>2. QED
    BY <1>6, <1>8, <2>1
<1>9. ASSUME NEW q \in Requests, RevokeAll(q) PROVE OneClaim' /\ RotatorClaims'
  <2>1. req[q].user \in Users /\ Wipe(req[q].user) /\ End(q)
    BY <1>9, <1>a DEF RevokeAll, Shape, RequestOK
  <2>2. QED
    BY <1>8, <1>a, <2>1, EndEffect
<1>10. ASSUME NEW u \in Users, LogoutAll(u) PROVE OneClaim' /\ RotatorClaims'
  BY <1>8, <1>10 DEF LogoutAll
<1>11. ASSUME NEW q \in Requests, Crash(q) PROVE OneClaim' /\ RotatorClaims'
  <2>1. forked' = forked /\ delivered' = delivered
    BY <1>11 DEF Crash, history
  <2>2. QED
    BY <1>11, <1>a, <2>1, CrashEffect, ClaimsKept
<1>12. ASSUME NEW q \in Requests, NEW l \in {"insert", "family"}, NEW u,
              NEW t \in Tokens \union {None}, Begin(q, l, t, u),
              t = None \/ l = "family", UNCHANGED <<row, delivered, forked>>
       PROVE  OneClaim' /\ RotatorClaims'
  <2>1. /\ req'[q].pc = l /\ req'[q].token = t /\ req'[q].new = None
        /\ \A p \in Requests \ {q} : req'[p] = req[p]
    BY <1>12, <1>a, BeginEffect
  <2>2. \A s \in Tokens : Claim(s)' => Claim(s)
    BY <1>12, <2>1 DEF Claim
  <2>3. \A p \in Requests : Rotating(p)' => Rotating(p) /\ req'[p].token = req[p].token
    BY <1>12, <2>1 DEF Rotating
  <2>4. QED
    BY <1>12, <2>2, <2>3, ClaimsShrink
<1>13. ASSUME NEW q \in Requests, NEW u \in Users, Login(q, u)
       PROVE  OneClaim' /\ RotatorClaims'
  BY <1>12, <1>13 DEF Login, history
<1>14. ASSUME NEW q \in Requests, NEW t \in Tokens, BeginRotation(q, t)
       PROVE  OneClaim' /\ RotatorClaims'
  BY <1>14, ClaimBegin
<1>15. ASSUME NEW q \in Requests, NEW t \in Tokens, DetectReuse(q, t) \/ BeginLogout(q, t)
       PROVE  OneClaim' /\ RotatorClaims'
  BY <1>12, <1>15 DEF DetectReuse, BeginLogout, history
<1>16. ASSUME NEW t \in Tokens, Expire(t) PROVE OneClaim' /\ RotatorClaims'
  <2>1. row' = [row EXCEPT ![t].state = "expired"] /\ req' = req /\ forked' = forked
        /\ delivered' = delivered
    BY <1>16 DEF Expire, history
  <2>2. /\ \A s \in Tokens : row'[s].family = row[s].family
        /\ \A s \in Tokens : row'[s] = row[s] \/ row'[s].state # "live"
    BY <1>a, <2>1 DEF Shape, TypeOK, Row
  <2>3. QED
    BY <1>b, <2>1, <2>2, ClaimsKept
<1>17. ASSUME NEW state \in {"expired", "revoked"}, Cleanup(state)
       PROVE  OneClaim' /\ RotatorClaims'
  <2>1. forked' = forked /\ delivered' = delivered
    BY <1>17 DEF Cleanup, history
  <2>2. QED
    BY <1>17, <1>a, <2>1, CleanupEffect, ClaimsKept
<1>18. ASSUME NEW u \in Users, Disable(u) PROVE OneClaim' /\ RotatorClaims'
  BY <1>18, ClaimsKept DEF Disable, history
<1>19. CASE UNCHANGED vars
  BY <1>19, ClaimsKept DEF vars
<1>20. QED
  BY <1>1, <1>2, <1>3, <1>4, <1>5, <1>7, <1>9, <1>10, <1>11, <1>13, <1>14, <1>15, <1>16,
     <1>17, <1>18, <1>19 DEF Next, Step

(* Two tokens that a client holds of one session are both accepted only if *)
(* two rotations of one token overlapped.                                  *)
THEOREM OneTokenHolds == Spec => []OneUsableToken
<1>1. Init => ClaimInv
  BY ShapeInit DEF Init, ClaimInv, OneClaim, RotatorClaims, Claim, Rotating, Idle, NoRow
<1>2. ClaimInv => OneUsableToken
  BY DEF ClaimInv, OneClaim, Claim, OneUsableToken, Shape, TypeOK
<1>3. QED
  BY <1>1, <1>2, ClaimStep, PTL DEF Spec

-----------------------------------------------------------------------------
(* A disabled account: what a request has seen of it *)

(* A request that finds its account active began with it active, and one   *)
(* about to answer with a token has found it active.                       *)
DisabledInv ==
  /\ Shape
  /\ \A q \in Requests :
       /\ req[q].pc # "idle" /\ active[req[q].user] => req[q].active
       /\ req[q].pc \in {"insert", "commit"} /\ req[q].token = None => req[q].active
       /\ req[q].pc = "respond" => req[q].active

(* Steps that begin no request, and move none on but as the code allows. *)
LEMMA DisabledKept ==
  ASSUME DisabledInv, Shape', \A u \in Users : active'[u] => active[u],
         \A q \in Requests :
           \/ req'[q] = Idle
           \/ /\ req[q].pc # "idle"
              /\ req'[q].user = req[q].user /\ req'[q].token = req[q].token
              /\ req'[q].active = req[q].active
              /\ req'[q].pc \in {"insert", "commit"} => req[q].pc \in {"insert", "commit"}
              /\ req'[q].pc = "respond" =>
                   \/ req[q].pc = "respond"
                   \/ req[q].pc = "commit" /\ req[q].token = None
                   \/ req[q].pc = "check" /\ active[req[q].user]
           \/ req'[q] = req[q]
  PROVE  DisabledInv'
<1> SUFFICES ASSUME NEW q \in Requests
             PROVE  /\ req'[q].pc # "idle" /\ active'[req'[q].user] => req'[q].active
                    /\ req'[q].pc \in {"insert", "commit"} /\ req'[q].token = None
                         => req'[q].active
                    /\ req'[q].pc = "respond" => req'[q].active
  BY DEF DisabledInv
<1>1. /\ req[q].pc # "idle" => req[q].user \in Users
      /\ req[q].pc # "idle" /\ active[req[q].user] => req[q].active
      /\ req[q].pc \in {"insert", "commit"} /\ req[q].token = None => req[q].active
      /\ req[q].pc = "respond" => req[q].active
  BY DEF DisabledInv, Shape, RequestOK
<1>2. CASE req'[q] = Idle
  BY <1>2 DEF Idle
<1>3. CASE req'[q] = req[q]
  BY <1>1, <1>3
<1>4. CASE /\ req[q].pc # "idle"
           /\ req'[q].user = req[q].user /\ req'[q].token = req[q].token
           /\ req'[q].active = req[q].active
           /\ req'[q].pc \in {"insert", "commit"} => req[q].pc \in {"insert", "commit"}
           /\ req'[q].pc = "respond" =>
                \/ req[q].pc = "respond"
                \/ req[q].pc = "commit" /\ req[q].token = None
                \/ req[q].pc = "check" /\ active[req[q].user]
  BY <1>1, <1>4
<1>5. QED
  BY <1>2, <1>3, <1>4

(* A request begins, and finds what the account is. *)
LEMMA DisabledBegin ==
  ASSUME DisabledInv, Shape', active' = active,
         NEW q \in Requests, NEW l \in {"insert", "family"}, NEW t, NEW u \in Users,
         Begin(q, l, t, u), t = None => active[u]
  PROVE  DisabledInv'
<1>1. /\ req'[q].pc = l /\ req'[q].token = t /\ req'[q].user = u
      /\ req'[q].active = active[u]
      /\ \A p \in Requests \ {q} : req'[p] = req[p]
  BY DEF Begin, Idle, DisabledInv, Shape, TypeOK
<1>2. active[u] \in BOOLEAN
  BY DEF DisabledInv, Shape, TypeOK
<1>3. ASSUME NEW p \in Requests
      PROVE  /\ req'[p].pc # "idle" /\ active'[req'[p].user] => req'[p].active
             /\ req'[p].pc \in {"insert", "commit"} /\ req'[p].token = None
                  => req'[p].active
             /\ req'[p].pc = "respond" => req'[p].active
  <2>1. CASE p = q
    BY <1>1, <1>2, <2>1
  <2>2. CASE p # q
    BY <1>1, <2>2 DEF DisabledInv
  <2>3. QED
    BY <2>1, <2>2
<1>4. QED
  BY <1>3 DEF DisabledInv

LEMMA DisabledStep == DisabledInv /\ [Next]_vars => DisabledInv'
<1> SUFFICES ASSUME DisabledInv, [Next]_vars PROVE DisabledInv'
  OBVIOUS
<1>a. Shape /\ Shape'
  BY ShapeStep DEF DisabledInv
<1>b. \A t \in Tokens : row[t].state \in Settled => row[t].owner \in Users
  BY <1>a DEF Shape, RowsOK, Settled
<1>1. ASSUME NEW q \in Requests, Insert(q) PROVE DisabledInv'
  <2>1. PICK n \in Tokens :
          /\ req' = [p \in Requests |->
               IF p = q THEN [req[q] EXCEPT !.pc = "commit", !.new = n,
                                !.victims = Excess(req[q].user),
                                !.beside = Inserting(req[q].user) # {}]
               ELSE IF p \in Inserting(req[q].user) THEN [req[p] EXCEPT !.beside = TRUE]
               ELSE req[p]]
          /\ req[q].pc = "insert"
    BY <1>1 DEF Insert
  <2>2. /\ req'[q].pc = "commit" /\ req'[q].token = req[q].token
        /\ req'[q].user = req[q].user /\ req'[q].active = req[q].active
        /\ \A p \in Requests \ {q} :
             \/ req'[p] = req[p]
             \/ /\ req[p].pc = "commit" /\ req'[p].pc = "commit"
                /\ req'[p].token = req[p].token /\ req'[p].user = req[p].user
                /\ req'[p].active = req[p].active
    BY <1>a, <2>1, ZenonT(40) DEF Inserting, Shape, TypeOK, Request
  <2>3. active' = active
    BY <1>1 DEF Insert
  <2>4. QED
    BY <1>a, <2>1, <2>2, <2>3, DisabledKept
<1>2. ASSUME NEW q \in Requests, Commit(q) PROVE DisabledInv'
  <2>1. /\ req[q].pc = "commit" /\ req'[q].token = req[q].token
        /\ req'[q].pc = IF req[q].token = None THEN "respond" ELSE "mark"
        /\ req'[q].user = req[q].user /\ req'[q].active = req[q].active
        /\ \A p \in Requests \ {q} : req'[p] = req[p]
        /\ active' = active
    BY <1>2, <1>a DEF Commit, Goto, Shape, TypeOK, Request
  <2>2. QED
    BY <1>a, <2>1, DisabledKept
<1>3. ASSUME NEW q \in Requests, Mark(q) PROVE DisabledInv'
  <2>1. /\ req[q].pc = "mark" /\ req'[q].token = req[q].token /\ req'[q].pc = "check"
        /\ req'[q].user = req[q].user /\ req'[q].active = req[q].active
        /\ \A p \in Requests \ {q} : req'[p] = req[p]
        /\ active' = active
    BY <1>3, <1>a DEF Mark, Goto, Shape, TypeOK, Request
  <2>2. QED
    BY <1>a, <2>1, DisabledKept
<1>4. ASSUME NEW q \in Requests, Check(q) PROVE DisabledInv'
  <2>1. /\ req[q].pc = "check" /\ req'[q].token = req[q].token
        /\ req'[q].pc = IF active[req[q].user] THEN "respond" ELSE "all"
        /\ req'[q].user = req[q].user /\ req'[q].active = req[q].active
        /\ \A p \in Requests \ {q} : req'[p] = req[p]
        /\ active' = active
    BY <1>4, <1>a DEF Check, Goto, Shape, TypeOK, Request
  <2>2. QED
    BY <1>a, <2>1, DisabledKept
<1>5. ASSUME NEW q \in Requests, End(q), active' = active PROVE DisabledInv'
  BY <1>5, <1>a, EndEffect, DisabledKept
<1>6. ASSUME NEW q \in Requests, Respond(q) \/ RevokeFamily(q) \/ RevokeAll(q) \/ Crash(q)
      PROVE  DisabledInv'
  BY <1>5, <1>6 DEF Respond, RevokeFamily, RevokeAll, Crash, Kill, Wipe
<1>7. ASSUME NEW q \in Requests, NEW u \in Users, Login(q, u) PROVE DisabledInv'
  BY <1>7, <1>a, DisabledBegin DEF Login
<1>8. ASSUME NEW q \in Requests, NEW t \in Tokens,
             BeginRotation(q, t) \/ DetectReuse(q, t) \/ BeginLogout(q, t)
      PROVE  DisabledInv'
  <2>1. /\ row[t].state \in Settled /\ active' = active
        /\ \E l \in {"insert", "family"} : Begin(q, l, t, row[t].owner)
    BY <1>8 DEF BeginRotation, DetectReuse, BeginLogout, Settled, Unrevoked
  <2>2. t # None
    BY TokensAssumption
  <2>3. QED
    BY <1>a, <1>b, <2>1, <2>2, DisabledBegin
<1>9. ASSUME UNCHANGED req, \A u \in Users : active'[u] => active[u] PROVE DisabledInv'
  BY <1>9, <1>a, DisabledKept
<1>10. ASSUME NEW u \in Users, LogoutAll(u) PROVE DisabledInv'
  BY <1>9, <1>10 DEF LogoutAll, Wipe, Kill
<1>11. ASSUME NEW u \in Users, Disable(u) PROVE DisabledInv'
  BY <1>9, <1>11, <1>a DEF Disable, Shape, TypeOK
<1>12. ASSUME NEW t \in Tokens, Expire(t) PROVE DisabledInv'
  BY <1>9, <1>12 DEF Expire
<1>13. ASSUME NEW state, Cleanup(state) PROVE DisabledInv'
  BY <1>9, <1>13 DEF Cleanup
<1>14. CASE UNCHANGED vars
  BY <1>9, <1>14 DEF vars
<1>15. QED
  BY <1>1, <1>2, <1>3, <1>4, <1>6, <1>7, <1>8, <1>10, <1>11, <1>12, <1>13, <1>14
  DEF Next, Step

(* A request that began after its account was disabled sends no token: the *)
(* only step that sends one is the answer of a request that began before.  *)
THEOREM DisabledHolds == Spec => DisabledGetNothing
<1> DEFINE Sent == \A t \in delivered' \ delivered :
                     \E q \in Requests : req[q].new = t /\ req[q].active
<1>1. Init => DisabledInv
  BY ShapeInit DEF Init, DisabledInv, Idle
<1>2. DisabledInv /\ [Next]_vars => [Sent]_vars
  <2> SUFFICES ASSUME DisabledInv, Next PROVE Sent
    OBVIOUS
  <2>1. CASE \E q \in Requests : Respond(q)
    BY <2>1 DEF Respond, DisabledInv
  <2>2. CASE delivered' = delivered
    BY <2>2
  <2>3. QED
    BY <2>1, <2>2 DEF Next, Step, Insert, Commit, Mark, Check, RevokeFamily, RevokeAll, Wipe,
       Kill, Crash, Login, BeginRotation, DetectReuse, BeginLogout, LogoutAll, Disable, Expire,
       Cleanup, history
<1>3. QED
  BY <1>1, <1>2, DisabledStep, PTL DEF Spec, DisabledGetNothing

-----------------------------------------------------------------------------
(* The cap *)

(* Of a finite set of numbers, fewer than n have all but n - 1 below them. *)
LEMMA FewAtTheTop ==
  ASSUME NEW L \in SUBSET Nat, IsFiniteSet(L), NEW n \in Nat \ {0}, NEW K \in SUBSET L,
         \A t \in K : Cardinality({s \in L : s < t}) + n >= Cardinality(L) + 1
  PROVE  Cardinality(K) < n
<1> DEFINE below(t) == {s \in L : s < t}
           size == Cardinality(L)
           rank == [t \in K |-> Cardinality(below(t))]
           top == (size + 1 - n) .. (size - 1)
<1>1. size \in Nat
  BY FS_CardinalityType
<1>2. ASSUME NEW t \in L
      PROVE  IsFiniteSet(below(t)) /\ Cardinality(below(t)) \in Nat
  <2>1. below(t) \in SUBSET L
    OBVIOUS
  <2>2. IsFiniteSet(below(t))
    BY <2>1, FS_Subset
  <2>3. QED
    BY <2>2, FS_CardinalityType
<1>3. ASSUME NEW t \in L
      PROVE  Cardinality(below(t)) + 1 <= size
  <2>1. /\ IsFiniteSet(below(t) \union {t})
        /\ Cardinality(below(t) \union {t}) = Cardinality(below(t)) + 1
    <3>1. t \notin below(t)
      OBVIOUS
    <3>2. QED
      BY <1>2, <3>1, FS_AddElement
  <2>2. below(t) \union {t} \in SUBSET L
    OBVIOUS
  <2>3. Cardinality(below(t) \union {t}) <= size
    BY <2>2, FS_Subset
  <2>4. QED
    BY <2>1, <2>3
<1>4. ASSUME NEW s \in L, NEW t \in L, s < t
      PROVE  Cardinality(below(s)) < Cardinality(below(t))
  <2>1. Cardinality(below(s) \union {s}) = Cardinality(below(s)) + 1
    <3>1. s \notin below(s)
      OBVIOUS
    <3>2. QED
      BY <1>2, <3>1, FS_AddElement
  <2>2. below(s) \union {s} \in SUBSET below(t)
    <3>1. s \in Nat /\ t \in Nat /\ \A r \in L : r \in Nat
      OBVIOUS
    <3>2. \A r \in L : r < s => r < t
      BY <1>4, <3>1
    <3>3. QED
      BY <1>4, <3>2
  <2>3. Cardinality(below(s) \union {s}) <= Cardinality(below(t))
    BY <1>2, <2>2, FS_Subset
  <2>4. QED
    BY <1>2, <2>1, <2>3
<1>5. ASSUME NEW t \in K
      PROVE  rank[t] \in top
  <2>1. /\ Cardinality(below(t)) \in Nat /\ Cardinality(below(t)) + 1 <= size
        /\ Cardinality(below(t)) + n >= size + 1
    BY <1>2, <1>3
  <2>2. rank[t] = Cardinality(below(t))
    OBVIOUS
  <2> HIDE DEF below, rank, size
  <2>3. QED
    BY <1>1, <2>1, <2>2
<1>6. rank \in Injection(K, top)
  <2>1. rank \in [K -> top]
    <3>1. rank = [t \in K |-> rank[t]]
      OBVIOUS
    <3>2. QED
      BY <1>5, <3>1
  <2>2. ASSUME NEW s \in K, NEW t \in K, rank[s] = rank[t]
        PROVE  s = t
    <3>1. ~(Cardinality(below(s)) < Cardinality(below(t)))
          /\ ~(Cardinality(below(t)) < Cardinality(below(s)))
      BY <1>2, <2>2
    <3>2. ~(s < t) /\ ~(t < s)
      BY <1>4, <3>1
    <3>3. s \in Nat /\ t \in Nat
      OBVIOUS
    <3>4. QED
      BY <3>2, <3>3
  <2>3. DOMAIN rank = K
    OBVIOUS
  <2> HIDE DEF rank, top
  <2>4. QED
    BY <2>1, <2>2, <2>3 DEF Injection, IsInjective
<1>7. IsFiniteSet(top) /\ Cardinality(top) <= n - 1
  <2>1. size + 1 - n \in Int /\ size - 1 \in Int
    BY <1>1
  <2>2. /\ IsFiniteSet(top)
        /\ Cardinality(top) = IF size + 1 - n > size - 1 THEN 0
                              ELSE (size - 1) - (size + 1 - n) + 1
    BY <2>1, FS_Interval
  <2> HIDE DEF top, size
  <2>3. QED
    BY <1>1, <2>2
<1>8. IsFiniteSet(K) /\ Cardinality(K) <= Cardinality(top)
  <2> HIDE DEF top, rank
  <2>1. QED
    BY <1>6, <1>7, FS_Injection
<1>9. QED
  <2>1. Cardinality(K) \in Nat /\ Cardinality(top) \in Nat
    BY <1>7, <1>8, FS_CardinalityType
  <2> HIDE DEF top
  <2>2. QED
    BY <1>7, <1>8, <2>1

Issued == {t \in Tokens : row[t].state # "absent"}

(* An insert that ran alone counted every session of its user: once its    *)
(* victims are gone there is room for its own.                             *)
Alone(q) == \A p \in Requests \ {q} : ~(req[p].pc = "commit" /\ req[p].user = req[q].user)

CommitHolds(q) ==
  req[q].pc = "commit" =>
    /\ row[req[q].new].owner = req[q].user
    /\ ~req[q].beside =>
         /\ Alone(q)
         /\ Cardinality(Live(req[q].user) \ req[q].victims) < Cap

CapInv ==
  /\ Shape
  /\ IsFiniteSet(Issued)
  /\ CapUnlessCrowded
  /\ \A q \in Requests : CommitHolds(q)

LEMMA LiveFinite ==
  ASSUME IsFiniteSet(Issued), NEW u, NEW S \in SUBSET Live(u)
  PROVE  IsFiniteSet(S) /\ Cardinality(S) \in Nat
<1>1. S \in SUBSET Issued
  BY DEF Live, Issued
<1>2. IsFiniteSet(S)
  BY <1>1, FS_Subset
<1>3. QED
  BY <1>2, FS_CardinalityType

(* What an insert leaves of the user's sessions leaves room for one more.  *)
LEMMA ExcessMakesRoom ==
  ASSUME IsFiniteSet(Issued), NEW u
  PROVE  Cardinality(Live(u) \ Excess(u)) < Cap
<1>1. Live(u) \in SUBSET Nat /\ Cap \in Nat \ {0}
  BY TokensAssumption DEF Live
<1>2. IsFiniteSet(Live(u)) /\ Cardinality(Live(u)) \in Nat
  BY LiveFinite
<1>3. ASSUME NEW t \in Live(u) \ Excess(u)
      PROVE  Cardinality({s \in Live(u) : s < t}) + Cap >= Cardinality(Live(u)) + 1
  <2>1. {s \in Live(u) : s < t} \in SUBSET Live(u)
    OBVIOUS
  <2>2. Cardinality({s \in Live(u) : s < t}) \in Nat
    BY <2>1, LiveFinite
  <2>3. ~(Cardinality({s \in Live(u) : s < t}) + Cap < Cardinality(Live(u)) + 1)
    BY <1>3 DEF Excess
  <2>4. QED
    BY <1>1, <1>2, <2>2, <2>3
<1>4. Live(u) \ Excess(u) \in SUBSET Live(u)
  OBVIOUS
<1>5. QED
  BY <1>1, <1>2, <1>3, <1>4, FewAtTheTop

(* Steps that bring no session to life, and leave the transactions under   *)
(* way as they are, or end some.                                           *)
LEMMA CapKept ==
  ASSUME CapInv, Shape', crowded' = crowded,
         \A t \in Tokens :
           /\ row'[t].state # "absent" => row[t].state # "absent"
           /\ row'[t].state = "live" => row[t].state = "live" /\ row'[t].owner = row[t].owner,
         \A p \in Requests : req'[p].pc = "commit" =>
           req'[p] = req[p] /\ row'[req[p].new].owner = row[req[p].new].owner
  PROVE  CapInv'
<1>1. IsFiniteSet(Issued')
  <2>1. Issued' \in SUBSET Issued
    BY DEF Issued
  <2>2. QED
    BY <2>1, FS_Subset DEF CapInv
<1>2. ASSUME NEW u, NEW S
      PROVE  Cardinality(Live(u)' \ S) <= Cardinality(Live(u) \ S)
  <2>1. Live(u)' \ S \in SUBSET (Live(u) \ S)
    BY DEF Live
  <2>2. Live(u) \ S \in SUBSET Live(u)
    OBVIOUS
  <2>3. IsFiniteSet(Live(u) \ S)
    BY <2>2, LiveFinite DEF CapInv
  <2>4. QED
    BY <2>1, <2>3, FS_Subset
<1>3. ASSUME NEW u, NEW S
      PROVE  Cardinality(Live(u)' \ S) \in Nat /\ Cardinality(Live(u) \ S) \in Nat
  <2>1. /\ Live(u)' \ S \in SUBSET Live(u) /\ Live(u) \ S \in SUBSET Live(u)
    BY DEF Live
  <2>2. QED
    BY <2>1, LiveFinite DEF CapInv
<1>4. CapUnlessCrowded'
  <2>1. SUFFICES ASSUME NEW u \in Users \ crowded PROVE Cardinality(Live(u)') <= Cap
    BY DEF CapUnlessCrowded
  <2>2. Cardinality(Live(u)) <= Cap
    BY DEF CapInv, CapUnlessCrowded
  <2>3. Live(u) \ {} = Live(u) /\ Live(u)' \ {} = Live(u)'
    OBVIOUS
  <2>4. Cardinality(Live(u)') <= Cardinality(Live(u))
    BY <1>2, <2>3
  <2>5. Cardinality(Live(u)') \in Nat /\ Cardinality(Live(u)) \in Nat
    BY <1>3, <2>3
  <2>6. QED
    BY <2>2, <2>4, <2>5, TokensAssumption
<1>5. ASSUME NEW q \in Requests PROVE CommitHolds(q)'
  <2>1. SUFFICES ASSUME req'[q].pc = "commit" PROVE CommitHolds(q)'
    BY DEF CommitHolds
  <2>2. /\ req'[q] = req[q] /\ CommitHolds(q) /\ req[q].pc = "commit"
        /\ row'[req[q].new].owner = row[req[q].new].owner
    BY <2>1 DEF CapInv
  <2>3. Alone(q) => Alone(q)'
    BY <2>2 DEF Alone
  <2>4. PICK u, V : u = req[q].user /\ V = req[q].victims
    OBVIOUS
  <2>5. Cardinality(Live(u) \ V) < Cap => Cardinality(Live(u)' \ V) < Cap
    <3>1. Cardinality(Live(u)' \ V) <= Cardinality(Live(u) \ V)
      BY <1>2
    <3>2. Cardinality(Live(u)' \ V) \in Nat /\ Cardinality(Live(u) \ V) \in Nat
      BY <1>3
    <3>3. QED
      BY <3>1, <3>2, TokensAssumption
  <2>6. ~req[q].beside => Cardinality(Live(u) \ V) < Cap
    BY <2>2, <2>4 DEF CommitHolds
  <2>7. ~req'[q].beside => Cardinality((Live(req[q].user) \ req[q].victims)') < Cap
    <3>1. req'[q].user = u /\ req'[q].victims = V
      BY <2>2, <2>4
    <3>2. (Live(req[q].user) \ req[q].victims)' = Live(u)' \ V
      BY <3>1 DEF Live
    <3>3. QED
      BY <2>2, <2>5, <2>6, <3>2
  <2>8. QED
    BY <2>2, <2>3, <2>7 DEF CommitHolds
<1>6. QED
  BY <1>1, <1>4, <1>5 DEF CapInv

LEMMA CapInsert ==
  ASSUME CapInv, Shape', NEW q \in Requests, Insert(q)
  PROVE  CapInv'
<1>a. Shape
  BY DEF CapInv
<1>1. PICK n \in Tokens :
        /\ row[n].state = "absent" /\ row'[n].state = "pending"
        /\ row'[n].owner = req[q].user
        /\ \A t \in Tokens \ {n} : row'[t] = row[t]
        /\ req[q].pc = "insert" /\ req'[q].pc = "commit"
        /\ req'[q].user = req[q].user /\ req'[q].new = n
        /\ \A p \in Requests \ {q} :
             /\ req'[p].pc = req[p].pc /\ req'[p].new = req[p].new
             /\ req'[p].user = req[p].user
  BY <1>a, InsertEffect
<1>2. /\ req'[q].victims = Excess(req[q].user)
      /\ ~req'[q].beside => Alone(q)
      /\ \A p \in Requests \ {q} :
           /\ req'[p].victims = req[p].victims
           /\ ~req'[p].beside => ~req[p].beside /\ p \notin Inserting(req[q].user)
  <2>1. PICK m \in Tokens :
          req' = [p \in Requests |->
               IF p = q THEN [req[q] EXCEPT !.pc = "commit", !.new = m,
                                !.victims = Excess(req[q].user),
                                !.beside = Inserting(req[q].user) # {}]
               ELSE IF p \in Inserting(req[q].user) THEN [req[p] EXCEPT !.beside = TRUE]
               ELSE req[p]]
    BY DEF Insert
  <2>2. /\ req'[q].victims = Excess(req[q].user)
        /\ req'[q].beside <=> Inserting(req[q].user) # {}
    BY <1>a, <2>1, ZenonT(40) DEF Shape, TypeOK, Request
  <2>3. Inserting(req[q].user) = {} => Alone(q)
    BY DEF Inserting, Alone
  <2>4. ASSUME NEW p \in Requests \ {q}
        PROVE  /\ req'[p].victims = req[p].victims
               /\ ~req'[p].beside => ~req[p].beside /\ p \notin Inserting(req[q].user)
    BY <1>a, <2>1 DEF Shape, TypeOK, Request
  <2>5. QED
    BY <2>2, <2>3, <2>4
<1>3. ASSUME NEW u PROVE Live(u)' = Live(u)
  BY <1>1 DEF Live
<1>4. IsFiniteSet(Issued')
  <2>1. Issued' = Issued \union {n}
    BY <1>1 DEF Issued
  <2>2. QED
    BY <2>1, FS_AddElement DEF CapInv
<1>5. CapUnlessCrowded'
  <2>1. crowded' = crowded
    BY DEF Insert, history
  <2>2. QED
    BY <1>3, <2>1 DEF CapInv, CapUnlessCrowded
<1>6. ASSUME NEW p \in Requests, req'[p].pc = "commit"
      PROVE  /\ row'[req'[p].new].owner = req'[p].user
             /\ ~req'[p].beside =>
                  /\ Alone(p)'
                  /\ Cardinality(Live(req'[p].user) \ req'[p].victims) < Cap
  <2>1. CASE p = q
    <3>1. Cardinality(Live(req[q].user) \ Excess(req[q].user)) < Cap
      BY ExcessMakesRoom DEF CapInv
    <3>2. Alone(q) => Alone(q)'
      BY <1>1 DEF Alone
    <3>3. QED
      BY <1>1, <1>2, <2>1, <3>1, <3>2
  <2>2. CASE p # q
    <3>1. req[p].pc = "commit" /\ CommitHolds(p)
      BY <1>1, <1>6, <2>2 DEF CapInv
    <3>2. row'[req'[p].new].owner = req'[p].user
      <4>1. req[p].new \in Tokens /\ row[req[p].new].state = "pending"
        BY <1>a, <3>1 DEF Shape, RequestOK, TypeOK, Request
      <4>2. req[p].new # n
        BY <1>1, <4>1
      <4>3. QED
        BY <1>1, <2>2, <3>1, <4>1, <4>2 DEF CommitHolds
    <3>3. ASSUME ~req'[p].beside PROVE Alone(p)'
      <4>1. Alone(p) /\ req[p].user # req[q].user
        BY <1>2, <2>2, <3>1, <3>3 DEF CommitHolds, Inserting
      <4>2. QED
        BY <1>1, <2>2, <4>1 DEF Alone
    <3>4. ~req'[p].beside => Cardinality(Live(req'[p].user) \ req'[p].victims) < Cap
      BY <1>1, <1>2, <2>2, <3>1 DEF CommitHolds
    <3>5. QED
      BY <3>2, <3>3, <3>4
  <2>3. QED
    BY <2>1, <2>2
<1>7. ASSUME NEW p \in Requests PROVE CommitHolds(p)'
  <2>1. PICK u, V : u = req'[p].user /\ V = req'[p].victims
    OBVIOUS
  <2>2. (Live(req[p].user) \ req[p].victims)' = Live(u) \ V
    <3>1. (Live(req[p].user) \ req[p].victims)' = Live(u)' \ V
      BY <2>1 DEF Live
    <3>2. QED
      BY <1>3, <3>1
  <2>3. QED
    BY <1>6, <2>1, <2>2 DEF CommitHolds
<1>8. QED
  BY <1>4, <1>5, <1>7 DEF CapInv

LEMMA CapCommit ==
  ASSUME CapInv, Shape', NEW q \in Requests, Commit(q)
  PROVE  CapInv'
<1>a. Shape /\ CommitHolds(q)
  BY DEF CapInv
<1> PICK n, u, V : n = req[q].new /\ u = req[q].user /\ V = req[q].victims
  OBVIOUS
<1>1. /\ n \in Tokens /\ row[n].state = "pending" /\ row[n].owner = u /\ u \in Users
      /\ req[q].pc = "commit" /\ req'[q].pc # "commit"
      /\ \A t \in Tokens : row'[t].owner = row[t].owner
      /\ \A t \in Tokens \ {n} : row'[t] = row[t] \/ row'[t].state = "revoked"
      /\ \A p \in Requests \ {q} : req'[p] = req[p]
  <2>1. n \in Tokens /\ row[n].state = "pending" /\ row[n].owner = u /\ u \in Users
    BY <1>a DEF Commit, CommitHolds, Shape, RequestOK, TypeOK, Request
  <2>2. QED
    BY <1>a, <2>1, CommitEffect
<1>2. \A t \in V \ {n} : t \in Tokens => row'[t].state = "revoked"
  BY <1>a DEF Commit, Shape, TypeOK, Row
<1>3. \A t \in Tokens : row'[t].state = "live" =>
        \/ t = n
        \/ row[t].state = "live" /\ t \notin V
  BY <1>1, <1>2
<1>4. IsFiniteSet(Issued')
  <2>1. Issued' \in SUBSET Issued
    BY <1>1, <1>a DEF Issued, Commit, Shape, TypeOK, RequestOK, Row, Settled
  <2>2. QED
    BY <2>1, FS_Subset DEF CapInv
<1>5. ASSUME NEW w, w # u, NEW S
      PROVE  /\ Cardinality(Live(w)' \ S) <= Cardinality(Live(w) \ S)
             /\ Cardinality(Live(w)' \ S) \in Nat /\ Cardinality(Live(w) \ S) \in Nat
  <2>1. Live(w)' \ S \in SUBSET (Live(w) \ S)
    BY <1>1, <1>3, <1>5 DEF Live
  <2>2. Live(w) \ S \in SUBSET Live(w) /\ Live(w)' \ S \in SUBSET Live(w)
    BY <2>1
  <2>3. IsFiniteSet(Live(w) \ S) /\ Cardinality(Live(w) \ S) \in Nat
        /\ Cardinality(Live(w)' \ S) \in Nat
    BY <2>2, LiveFinite DEF CapInv
  <2>4. QED
    BY <2>1, <2>3, FS_Subset
<1>6. ASSUME ~req[q].beside PROVE Cardinality(Live(u)') <= Cap
  <2>1. IsFiniteSet(Live(u) \ V) /\ Cardinality(Live(u) \ V) \in Nat
    <3>1. Live(u) \ V \in SUBSET Live(u)
      OBVIOUS
    <3>2. QED
      BY <3>1, LiveFinite DEF CapInv
  <2>2. Cardinality(Live(u) \ V) < Cap
    BY <1>1, <1>6, <1>a DEF CommitHolds
  <2>3. Live(u)' \in SUBSET ((Live(u) \ V) \union {n})
    BY <1>1, <1>3 DEF Live
  <2>4. /\ IsFiniteSet((Live(u) \ V) \union {n})
        /\ Cardinality((Live(u) \ V) \union {n}) <= Cardinality(Live(u) \ V) + 1
    <3>1. /\ IsFiniteSet((Live(u) \ V) \union {n})
          /\ Cardinality((Live(u) \ V) \union {n})
               = IF n \in Live(u) \ V THEN Cardinality(Live(u) \ V)
                                       ELSE Cardinality(Live(u) \ V) + 1
      BY <2>1, FS_AddElement
    <3>2. QED
      BY <2>1, <3>1
  <2>5. /\ IsFiniteSet(Live(u)')
        /\ Cardinality(Live(u)') <= Cardinality((Live(u) \ V) \union {n})
    BY <2>3, <2>4, FS_Subset
  <2>6. Cardinality(Live(u)') \in Nat /\ Cardinality((Live(u) \ V) \union {n}) \in Nat
    BY <2>4, <2>5, FS_CardinalityType
  <2>7. QED
    BY <2>1, <2>2, <2>4, <2>5, <2>6, TokensAssumption
<1>7. CapUnlessCrowded'
  <2>1. SUFFICES ASSUME NEW w \in Users \ crowded' PROVE Cardinality(Live(w)') <= Cap
    BY DEF CapUnlessCrowded
  <2>2. crowded' = IF req[q].beside THEN crowded \union {u} ELSE crowded \ {u}
    BY DEF Commit
  <2>3. CASE w = u
    BY <1>6, <2>2, <2>3
  <2>4. CASE w # u
    <3>1. Cardinality(Live(w)) <= Cap
      BY <2>2, <2>4 DEF CapInv, CapUnlessCrowded
    <3>2. Live(w) \ {} = Live(w) /\ Live(w)' \ {} = Live(w)'
      OBVIOUS
    <3>3. /\ Cardinality(Live(w)') <= Cardinality(Live(w))
          /\ Cardinality(Live(w)') \in Nat /\ Cardinality(Live(w)) \in Nat
      BY <1>5, <2>4, <3>2
    <3>4. QED
      BY <3>1, <3>3, TokensAssumption
  <2>5. QED
    BY <2>3, <2>4
<1>8. ASSUME NEW p \in Requests PROVE CommitHolds(p)'
  <2>1. SUFFICES ASSUME req'[p].pc = "commit" PROVE CommitHolds(p)'
    BY DEF CommitHolds
  <2>2. p # q /\ req'[p] = req[p] /\ req[p].pc = "commit" /\ CommitHolds(p)
    BY <1>1, <2>1 DEF CapInv
  <2>3. req[p].new \in Tokens /\ row'[req[p].new].owner = req[p].user
    BY <1>1, <1>a, <2>2 DEF CommitHolds, Shape, RequestOK, TypeOK, Request
  <2>4. PICK w, X : w = req[p].user /\ X = req[p].victims
    OBVIOUS
  <2>5. ASSUME ~req[p].beside
        PROVE  Alone(p)' /\ Cardinality((Live(req[p].user) \ req[p].victims)') < Cap
    <3>1. Alone(p) /\ Cardinality(Live(w) \ X) < Cap
      BY <2>2, <2>4, <2>5 DEF CommitHolds
    <3>2. w # u
      BY <1>1, <2>2, <2>4, <3>1 DEF Alone
    <3>3. Alone(p)'
      BY <1>1, <2>2, <3>1 DEF Alone
    <3>4. Cardinality(Live(w)' \ X) < Cap
      BY <1>5, <3>1, <3>2, TokensAssumption
    <3>5. (Live(req[p].user) \ req[p].victims)' = Live(w)' \ X
      BY <2>2, <2>4 DEF Live
    <3>6. QED
      BY <3>3, <3>4, <3>5
  <2>6. QED
    BY <2>2, <2>3, <2>5 DEF CommitHolds
<1>9. QED
  BY <1>4, <1>7, <1>8 DEF CapInv

LEMMA CapStep == CapInv /\ [Next]_vars => CapInv'
<1> SUFFICES ASSUME CapInv, [Next]_vars PROVE CapInv'
  OBVIOUS
<1>a. Shape /\ Shape'
  BY ShapeStep DEF CapInv
<1>b. \A p \in Requests : req[p].pc = "commit" =>
        /\ req[p].new \in Tokens /\ row[req[p].new].state = "pending"
        /\ \A r \in Requests \ {p} : req[r].new # req[p].new
  BY <1>a, TokensAssumption DEF Shape, RequestOK, TypeOK, Request
<1>1. ASSUME NEW q \in Requests, Insert(q) PROVE CapInv'
  BY <1>1, <1>a, CapInsert
<1>2. ASSUME NEW q \in Requests, Commit(q) PROVE CapInv'
  BY <1>2, <1>a, CapCommit
<1>3. ASSUME NEW q \in Requests, Mark(q) PROVE CapInv'
  <2>1. /\ req[q].token \in Tokens /\ row'[req[q].token].state = "revoked"
        /\ \A t \in Tokens : row'[t].owner = row[t].owner
        /\ \A t \in Tokens \ {req[q].token} : row'[t] = row[t]
        /\ req'[q].pc = "check" /\ \A p \in Requests \ {q} : req'[p] = req[p]
        /\ req[q].pc = "mark"
    BY <1>3, <1>a, MarkEffect
  <2>2. row[req[q].token].state # "absent" /\ crowded' = crowded
    BY <1>3, <1>a, <2>1, TokensAssumption DEF Mark, history, Shape, RequestOK, Settled
  <2>3. \A t \in Tokens :
          /\ row'[t].state # "absent" => row[t].state # "absent"
          /\ row'[t].state = "live" => row[t].state = "live" /\ row'[t].owner = row[t].owner
    BY <2>1, <2>2
  <2>4. \A p \in Requests : req'[p].pc = "commit" =>
          req'[p] = req[p] /\ row'[req[p].new].owner = row[req[p].new].owner
    BY <1>b, <2>1
  <2>5. QED
    BY <1>a, <2>2, <2>3, <2>4, CapKept
<1>4. ASSUME UNCHANGED row, crowded' = crowded, \A p \in Requests : req'[p].pc = "commit" =>
               req'[p] = req[p]
      PROVE  CapInv'
  BY <1>4, <1>a, CapKept
<1>5. ASSUME NEW q \in Requests, Check(q) PROVE CapInv'
  <2>1. /\ row' = row /\ crowded' = crowded /\ req'[q].pc # "commit"
        /\ \A p \in Requests \ {q} : req'[p] = req[p]
    BY <1>5, <1>a DEF Check, Goto, history, Shape, TypeOK, Request
  <2>2. QED
    BY <1>4, <2>1
<1>6. ASSUME NEW q \in Requests, Respond(q) PROVE CapInv'
  <2>1. row' = row /\ crowded' = crowded /\ End(q)
    BY <1>6 DEF Respond, history
  <2>2. req'[q].pc # "commit" /\ \A p \in Requests \ {q} : req'[p] = req[p]
    BY <1>a, <2>1, EndEffect DEF Idle
  <2>3. QED
    BY <1>4, <2>1, <2>2
<1>7. ASSUME NEW q \in Requests, NEW l \in {"insert", "family"}, NEW t, NEW u,
             Begin(q, l, t, u), row' = row, crowded' = crowded
      PROVE  CapInv'
  <2>1. req'[q].pc = l /\ \A p \in Requests \ {q} : req'[p] = req[p]
    BY <1>7, <1>a, BeginEffect
  <2>2. QED
    BY <1>4, <1>7, <2>1
<1>8. ASSUME NEW q \in Requests, NEW u \in Users, Login(q, u) PROVE CapInv'
  BY <1>7, <1>8 DEF Login, history
<1>9. ASSUME NEW q \in Requests, NEW t \in Tokens,
             BeginRotation(q, t) \/ DetectReuse(q, t) \/ BeginLogout(q, t)
      PROVE  CapInv'
  BY <1>7, <1>9 DEF BeginRotation, DetectReuse, BeginLogout, history
<1>10. ASSUME NEW S \in SUBSET Tokens, \A t \in S : row[t].state \in Unrevoked,
              row' = Revoked(S), crowded' = crowded,
              \A p \in Requests : req'[p] = req[p] \/ req'[p] = Idle
       PROVE  CapInv'
  <2>1. \A t \in S : row[t].state \in Settled
    BY <1>10 DEF Unrevoked, Settled
  <2>2. /\ \A t \in Tokens : row'[t].owner = row[t].owner
        /\ \A t \in S : row'[t].state = "revoked"
        /\ \A t \in Tokens \ S : row'[t] = row[t]
    BY <1>10, <1>a, <2>1, RevokedRows
  <2>3. \A t \in Tokens :
          /\ row'[t].state # "absent" => row[t].state # "absent"
          /\ row'[t].state = "live" => row[t].state = "live" /\ row'[t].owner = row[t].owner
    BY <2>1, <2>2 DEF Settled
  <2>4. \A p \in Requests : req'[p].pc = "commit" =>
          req'[p] = req[p] /\ row'[req[p].new].owner = row[req[p].new].owner
    BY <1>10, <1>b, <2>2 DEF Idle
  <2>5. QED
    BY <1>10, <1>a, <2>3, <2>4, CapKept
<1>11. ASSUME NEW q \in Requests, RevokeFamily(q) PROVE CapInv'
  <2>1. PICK S \in SUBSET Tokens, f \in Tokens :
           /\ S = {t \in Tokens : row[t].family = f /\ row[t].state \in Unrevoked}
           /\ row' = Revoked(S) /\ Kill({f}) /\ End(q)
    BY <1>11, <1>a, RevokeFamilyEffect
  <2>2. \A p \in Requests : req'[p] = req[p] \/ req'[p] = Idle
    BY <1>a, <2>1, EndEffect
  <2>3. QED
    BY <1>10, <2>1, <2>2 DEF Kill
<1>12. ASSUME NEW u \in Users, Wipe(u), \A p \in Requests : req'[p] = req[p] \/ req'[p] = Idle
       PROVE  CapInv'
  <2>1. PICK S \in SUBSET Tokens, F \in SUBSET Tokens :
           /\ S = {t \in Tokens : row[t].owner = u /\ row[t].state \in Unrevoked}
           /\ row' = Revoked(S) /\ Kill(F)
    BY <1>12, <1>a, WipeEffect
  <2>2. QED
    BY <1>10, <1>12, <2>1 DEF Kill
<1>13. ASSUME NEW q \in Requests, RevokeAll(q) PROVE CapInv'
  <2>1. req[q].user \in Users /\ Wipe(req[q].user) /\ End(q)
    BY <1>13, <1>a DEF RevokeAll, Shape, RequestOK
  <2>2. \A p \in Requests : req'[p] = req[p] \/ req'[p] = Idle
    BY <1>a, <2>1, EndEffect
  <2>3. QED
    BY <1>12, <2>1, <2>2
<1>14. ASSUME NEW u \in Users, LogoutAll(u) PROVE CapInv'
  BY <1>12, <1>14 DEF LogoutAll
<1>15. ASSUME NEW S, S \subseteq Tokens, \A t \in S : row[t].state # "absent",
              row' = [t \in Tokens |-> IF t \in S THEN [NoRow EXCEPT !.state = "gone"]
                                       ELSE row[t]],
              crowded' = crowded,
              \A p \in Requests : req'[p].pc = "commit" =>
                req'[p] = req[p] /\ req[p].new \notin S
       PROVE  CapInv'
  <2>1. /\ \A t \in S : row'[t].state = "gone"
        /\ \A t \in Tokens \ S : row'[t] = row[t]
    BY <1>15 DEF NoRow
  <2>2. \A t \in Tokens :
          /\ row'[t].state # "absent" => row[t].state # "absent"
          /\ row'[t].state = "live" => row[t].state = "live" /\ row'[t].owner = row[t].owner
    BY <1>15, <2>1
  <2>3. \A p \in Requests : req'[p].pc = "commit" =>
          req'[p] = req[p] /\ row'[req[p].new].owner = row[req[p].new].owner
    BY <1>15, <1>b, <2>1
  <2>4. QED
    BY <1>15, <1>a, <2>2, <2>3, CapKept
<1>16. ASSUME NEW q \in Requests, Crash(q) PROVE CapInv'
  <2> DEFINE S == {t \in Tokens : req[q].pc = "commit" /\ t = req[q].new}
  <2>1. row' = [t \in Tokens |-> IF t \in S THEN [NoRow EXCEPT !.state = "gone"] ELSE row[t]]
    BY <1>16 DEF Crash
  <2>2. crowded' = crowded /\ End(q)
    BY <1>16 DEF Crash, history
  <2>3. req'[q].pc # "commit" /\ \A p \in Requests \ {q} : req'[p] = req[p]
    BY <1>a, <2>2, EndEffect DEF Idle
  <2>4. \A p \in Requests : req'[p].pc = "commit" => req'[p] = req[p] /\ req[p].new \notin S
    BY <1>b, <2>3
  <2>5. S \subseteq Tokens /\ \A t \in S : row[t].state # "absent"
    BY <1>b
  <2> HIDE DEF S
  <2>6. QED
    BY <1>15, <2>1, <2>2, <2>4, <2>5
<1>17. ASSUME NEW state \in {"expired", "revoked"}, Cleanup(state) PROVE CapInv'
  <2>1. PICK S \in SUBSET {t \in Tokens : row[t].state = state /\ ~InUse(t)} :
          row' = [t \in Tokens |-> IF t \in S THEN [NoRow EXCEPT !.state = "gone"] ELSE row[t]]
    BY <1>17 DEF Cleanup
  <2>2. crowded' = crowded /\ req' = req
    BY <1>17 DEF Cleanup, history
  <2>3. S \subseteq Tokens /\ \A t \in S : row[t].state = state
    BY <2>1
  <2>4. \A p \in Requests : req'[p].pc = "commit" => req'[p] = req[p] /\ req[p].new \notin S
    BY <1>b, <2>2, <2>3
  <2>5. QED
    BY <1>15, <2>1, <2>2, <2>3, <2>4
<1>18. ASSUME NEW t \in Tokens, Expire(t) PROVE CapInv'
  <2>1. /\ row' = [row EXCEPT ![t].state = "expired"] /\ row[t].state = "live"
        /\ req' = req /\ crowded' = crowded
    BY <1>18 DEF Expire, history
  <2>2. /\ row'[t].state = "expired" /\ row'[t].owner = row[t].owner
        /\ \A s \in Tokens \ {t} : row'[s] = row[s]
    BY <1>a, <2>1 DEF Shape, TypeOK, Row
  <2>3. \A s \in Tokens :
          /\ row'[s].state # "absent" => row[s].state # "absent"
          /\ row'[s].state = "live" => row[s].state = "live" /\ row'[s].owner = row[s].owner
    BY <2>1, <2>2
  <2>4. \A p \in Requests : req'[p].pc = "commit" =>
          req'[p] = req[p] /\ row'[req[p].new].owner = row[req[p].new].owner
    BY <1>b, <2>1, <2>2
  <2>5. QED
    BY <1>a, <2>1, <2>3, <2>4, CapKept
<1>19. ASSUME NEW u \in Users, Disable(u) PROVE CapInv'
  BY <1>4, <1>19 DEF Disable, history
<1>20. CASE UNCHANGED vars
  BY <1>4, <1>20 DEF vars
<1>21. QED
  BY <1>1, <1>2, <1>3, <1>5, <1>6, <1>8, <1>9, <1>11, <1>13, <1>14, <1>16, <1>17, <1>18,
     <1>19, <1>20 DEF Next, Step

(* A user whose last insert ran alone has no more sessions than the cap,   *)
(* whatever overlapped before, for any cap and any number of users.        *)
THEOREM CapHolds == Spec => []CapUnlessCrowded
<1>1. Init => CapInv
  <2> SUFFICES ASSUME Init PROVE CapInv
    OBVIOUS
  <2>1. Issued = {} /\ \A u \in Users : Live(u) = {}
    BY DEF Init, NoRow, Issued, Live
  <2>2. IsFiniteSet(Issued)
    BY <2>1, FS_EmptySet
  <2>3. CapUnlessCrowded
    <3>1. \A u \in Users : Cardinality(Live(u)) = 0
      BY <2>1, FS_EmptySet
    <3>2. QED
      BY <3>1, TokensAssumption DEF CapUnlessCrowded
  <2>4. \A q \in Requests : CommitHolds(q)
    BY DEF Init, Idle, CommitHolds
  <2>5. QED
    BY <2>2, <2>3, <2>4, ShapeInit DEF CapInv
<1>2. CapInv => CapUnlessCrowded
  BY DEF CapInv
<1>3. QED
  BY <1>1, <1>2, CapStep, PTL DEF Spec

-----------------------------------------------------------------------------
(* The endpoints as their clients see them: SessionTokens *)

(* The first token of a session was sent before a later one is.            *)
RootSent ==
  /\ \A t \in delivered : row[t].family \in delivered \union {None}
  /\ \A q \in Requests : req[q].token # None => row[req[q].token].family \in delivered

PromiseInv == FinalInv /\ ClaimInv /\ RootSent

LEMMA RootKept ==
  ASSUME RootSent, delivered' = delivered,
         \A t \in delivered : row'[t].family \in {row[t].family, None},
         \A p \in Requests : req'[p].token # None =>
           /\ req'[p].token = req[p].token
           /\ row'[req[p].token].family = row[req[p].token].family
  PROVE  RootSent'
BY DEF RootSent

(* Tokens that clients hold stay, or cease to be usable. *)
LEMMA Dropped ==
  ASSUME Shape, UNCHANGED <<delivered, killed, overtaken, forked>>,
         \A t \in delivered : row'[t] = row[t] \/ row'[t].state # "live"
  PROVE  Sessions!Next
<1> DEFINE D == {t \in delivered : row'[t].state # "live"}
<1>1. D \in SUBSET Tokens
  BY DEF Shape, TypeOK
<1>2. Usable' = [s \in Tokens |-> Usable[s] \ D]
  <2>1. ASSUME NEW s \in Tokens PROVE Usable'[s] = Usable[s] \ D
    BY DEF Usable
  <2>2. QED
    BY <2>1 DEF Usable
<1>3. Sessions!Drop(D)
  BY <1>2 DEF Sessions!Drop
<1>4. QED
  BY <1>1, <1>3 DEF Sessions!Next

(* A session is given the request's token: its other tokens are spent, or  *)
(* it is forked; and none is usable if the session was killed in time.     *)
LEMMA Answers ==
  ASSUME PromiseInv, PromiseInv', NEW q \in Requests, Respond(q)
  PROVE  Sessions!Next
<1>1. PICK n \in Tokens : n = req[q].new /\ n \notin delivered /\ row[n].family \in Tokens
                          /\ row[n].state \in Settled
  BY TokensAssumption DEF Respond, PromiseInv, FinalInv, Shape, RequestOK, RowsOK, TypeOK,
     Request, Settled
<1>2. /\ row' = row /\ delivered' = delivered \union {n}
      /\ killed' = killed /\ overtaken' = overtaken /\ forked' = forked
  BY <1>1 DEF Respond, history
<1>3. PICK f \in Tokens : f = row[n].family
  BY <1>1
<1>4. f = n \/ f \in delivered
  BY <1>1, <1>3 DEF Respond, PromiseInv, FinalInv, Shape, RequestOK, RootSent
<1>5. \A s \in Tokens \ {f} : Usable'[s] = Usable[s]
  BY <1>2, <1>3 DEF Usable
<1>6. CASE row[n].state = "live"
  <2>1. f \in killed => f \in overtaken
    BY <1>3, <1>6 DEF PromiseInv, FinalInv, FamilyDead, Alive, Unrevoked
  <2>2. Usable'[f] = Usable[f] \union {n}
    BY <1>1, <1>2, <1>3, <1>6 DEF Usable
  <2>3. f \notin forked => Usable'[f] = {n}
    <3>1. SUFFICES ASSUME f \notin forked, NEW t \in delivered, row[t].state = "live",
                          row[t].family = f
                   PROVE  t = n
      BY <2>2 DEF Usable
    <3>2. Claim(t)' /\ Claim(n)' /\ t \in Tokens
      BY <1>1, <1>2, <1>6, <3>1 DEF Claim, PromiseInv, FinalInv, Shape, TypeOK
    <3>3. QED
      BY <1>1, <1>2, <1>3, <3>1, <3>2 DEF PromiseInv, ClaimInv, OneClaim
  <2>4. Usable' = [Usable EXCEPT ![f] = IF f \in forked THEN @ \union {n} ELSE {n}]
    BY <1>5, <2>2, <2>3 DEF Usable
  <2>5. Sessions!Issue(n, f)
    BY <1>1, <1>2, <1>4, <2>1, <2>4 DEF Sessions!Issue
  <2>6. QED
    BY <2>5 DEF Sessions!Next
<1>7. CASE row[n].state # "live"
  <2>1. Usable' = Usable
    BY <1>2, <1>7 DEF Usable
  <2>2. Sessions!Issue(n, f)
    BY <1>1, <1>2, <1>4, <2>1 DEF Sessions!Issue
  <2>3. QED
    BY <2>2 DEF Sessions!Next
<1>8. QED
  BY <1>6, <1>7

(* Families F are killed with every unrevoked row of theirs, and no other. *)
LEMMA Closed ==
  ASSUME Shape, NEW S \in SUBSET Tokens, NEW F \in SUBSET Tokens,
         \A t \in Tokens : t \in S <=> row[t].state \in Unrevoked /\ row[t].family \in F,
         row' = Revoked(S), Kill(F)
  PROVE  Sessions!Next
<1>1. /\ \A t \in Tokens : row'[t].family = row[t].family
      /\ \A t \in S : row'[t].state = "revoked"
      /\ \A t \in Tokens \ S : row'[t] = row[t]
  <2>1. \A t \in S : row[t].state \in Settled
    BY DEF Unrevoked, Settled
  <2>2. QED
    BY <2>1, RevokedRows
<1>2. delivered \subseteq Tokens /\ delivered' = delivered /\ forked' = forked
      /\ killed' = killed \union F
  BY DEF Shape, TypeOK, Kill
<1>3. \A s \in Tokens : Usable'[s] = IF s \in F THEN {} ELSE Usable[s]
  <2>1. ASSUME NEW s \in F PROVE Usable'[s] = {}
    BY <1>1, <1>2, <2>1 DEF Usable, Unrevoked
  <2>2. ASSUME NEW s \in Tokens \ F PROVE Usable'[s] = Usable[s]
    BY <1>1, <1>2, <2>2 DEF Usable
  <2>3. QED
    BY <2>1, <2>2
<1>4. Usable' = [s \in Tokens |-> IF s \in F THEN {} ELSE Usable[s]]
  BY <1>3 DEF Usable
<1>5. \E O \in SUBSET F : overtaken' = overtaken \union O
  BY DEF Kill
<1>6. Sessions!Close(F)
  BY <1>2, <1>4, <1>5 DEF Sessions!Close
<1>7. QED
  BY <1>6 DEF Sessions!Next

LEMMA PromiseInit == Init => PromiseInv /\ Sessions!Init
<1> SUFFICES ASSUME Init PROVE PromiseInv /\ Sessions!Init
  OBVIOUS
<1>1. FinalInv
  BY ShapeInit DEF Init, FinalInv, OneOwner, Idle, NoRow
<1>2. ClaimInv
  BY ShapeInit DEF Init, ClaimInv, OneClaim, RotatorClaims, Claim, Rotating, Idle, NoRow
<1>3. RootSent
  BY DEF Init, RootSent, Idle
<1>4. Usable = [s \in Tokens |-> {}]
  BY DEF Init, Usable
<1>5. QED
  BY <1>1, <1>2, <1>3, <1>4 DEF PromiseInv, Sessions!Init, Init

(* Each step keeps the invariant's new part and is one of the promise.     *)
LEMMA PromiseStep ==
  ASSUME PromiseInv, [Next]_vars
  PROVE  PromiseInv' /\ Sessions!Next
<1>a. Shape /\ RootSent /\ OneOwner
  BY DEF PromiseInv, FinalInv
<1>b. \A p \in Requests : /\ req[p].token # None => req[p].token \in Tokens
                          /\ Idle.token = None
  BY <1>a DEF Shape, TypeOK, Request, Idle
<1>c. /\ \A t \in delivered : t \in Tokens /\ row[t].state \notin {"absent", "pending"}
      /\ delivered \subseteq Tokens
  BY <1>a DEF Shape, RowsOK, TypeOK
<1>d. FinalInv' /\ ClaimInv'
  BY FinalStep, ClaimStep DEF PromiseInv
<1> SUFFICES RootSent' /\ Sessions!Next
  BY <1>d DEF PromiseInv
(* Steps in which only rows are lost, and requests move on or end. *)
<1>0. ASSUME UNCHANGED <<delivered, killed, overtaken, forked>>,
             \A t \in delivered : \/ row'[t] = row[t]
                                  \/ /\ row'[t].state # "live"
                                     /\ row'[t].family \in {row[t].family, None},
             \A p \in Requests : req'[p].token # None =>
               /\ req'[p].token = req[p].token
               /\ row'[req[p].token].family = row[req[p].token].family
      PROVE  RootSent' /\ Sessions!Next
  <2>1. Sessions!Next
    BY <1>0, <1>a, Dropped
  <2>2. \A t \in delivered : row'[t].family \in {row[t].family, None}
    BY <1>0
  <2>3. QED
    BY <1>0, <1>a, <2>1, <2>2, RootKept
<1>1. ASSUME NEW q \in Requests, Insert(q) PROVE RootSent' /\ Sessions!Next
  <2>1. PICK n \in Tokens :
          /\ row[n].state = "absent" /\ \A t \in Tokens \ {n} : row'[t] = row[t]
          /\ req'[q].token = req[q].token
          /\ \A p \in Requests \ {q} : req'[p].token = req[p].token
    BY <1>1, <1>a, InsertEffect
  <2>2. \A p \in Requests : req[p].token # None => req[p].token # n
    BY <1>a, <2>1 DEF Shape, RequestOK, Settled
  <2>3. UNCHANGED <<delivered, killed, overtaken, forked>>
    BY <1>1, Zenon DEF Insert, history
  <2>4. \A t \in delivered : row'[t] = row[t]
    BY <1>c, <2>1
  <2>5. QED
    BY <1>0, <1>b, <2>1, <2>2, <2>3, <2>4
<1>2. ASSUME NEW q \in Requests, Commit(q) PROVE RootSent' /\ Sessions!Next
  <2>1. PICK n \in Tokens :
          /\ n \notin delivered
          /\ \A t \in Tokens : row'[t].family = row[t].family
          /\ \A t \in Tokens \ {n} : row'[t] = row[t] \/ row'[t].state = "revoked"
          /\ req'[q].token = req[q].token
          /\ \A p \in Requests \ {q} : req'[p] = req[p]
    BY <1>2, <1>a, CommitEffect
  <2>2. UNCHANGED <<delivered, killed, overtaken, forked>>
    BY <1>2 DEF Commit
  <2>3. QED
    BY <1>0, <1>b, <1>c, <2>1, <2>2
<1>3. ASSUME NEW q \in Requests, Mark(q) PROVE RootSent' /\ Sessions!Next
  <2>1. /\ row'[req[q].token].state = "revoked"
        /\ \A t \in Tokens : row'[t].family = row[t].family
        /\ \A t \in Tokens \ {req[q].token} : row'[t] = row[t]
        /\ req'[q].token = req[q].token
        /\ \A p \in Requests \ {q} : req'[p] = req[p]
    BY <1>3, <1>a, MarkEffect
  <2>2. UNCHANGED <<delivered, killed, overtaken, forked>>
    BY <1>3 DEF Mark, history
  <2>3. QED
    BY <1>0, <1>b, <1>c, <2>1, <2>2
<1>4. ASSUME NEW q \in Requests, Check(q) PROVE RootSent' /\ Sessions!Next
  <2>1. /\ row' = row /\ UNCHANGED <<delivered, killed, overtaken, forked>>
        /\ \A p \in Requests : req'[p].token = req[p].token
    BY <1>4, <1>a DEF Check, Goto, history, Shape, TypeOK, Request
  <2>2. QED
    BY <1>0, <2>1
<1>5. ASSUME NEW q \in Requests, Respond(q) PROVE RootSent' /\ Sessions!Next
  <2>1. /\ row' = row /\ delivered' = delivered \union {req[q].new}
        /\ req'[q] = Idle /\ \A p \in Requests \ {q} : req'[p] = req[p]
    BY <1>5, <1>a, EndEffect DEF Respond
  <2>2. row[req[q].new].family \in delivered \union {req[q].new}
    BY <1>5, <1>a, TokensAssumption DEF Respond, Shape, RequestOK, RootSent
  <2>3. RootSent'
    BY <1>a, <1>b, <2>1, <2>2 DEF RootSent
  <2>4. QED
    BY <1>5, <1>d, <2>3, Answers DEF PromiseInv
<1>6. ASSUME NEW S \in SUBSET Tokens, NEW F \in SUBSET Tokens, row' = Revoked(S), Kill(F),
             \A t \in Tokens : t \in S <=> row[t].state \in Unrevoked /\ row[t].family \in F,
             \A p \in Requests : req'[p] = req[p] \/ req'[p] = Idle
      PROVE  RootSent' /\ Sessions!Next
  <2>1. \A t \in S : row[t].state \in Settled
    BY <1>6 DEF Unrevoked, Settled
  <2>2. \A t \in Tokens : row'[t].family = row[t].family
    BY <1>6, <1>a, <2>1, RevokedRows
  <2>3. delivered' = delivered
    BY <1>6 DEF Kill
  <2>4. RootSent'
    BY <1>6, <1>a, <1>b, <1>c, <2>2, <2>3, RootKept
  <2>5. QED
    BY <1>6, <1>a, <2>4, Closed
<1>7. ASSUME NEW q \in Requests, RevokeFamily(q) PROVE RootSent' /\ Sessions!Next
  <2>1. PICK S \in SUBSET Tokens, f \in Tokens :
           /\ S = {t \in Tokens : row[t].family = f /\ row[t].state \in Unrevoked}
           /\ row' = Revoked(S) /\ Kill({f}) /\ End(q)
    BY <1>7, <1>a, RevokeFamilyEffect
  <2>2. QED
    BY <1>6, <1>a, <2>1, EndEffect
<1>8. ASSUME NEW u \in Users, Wipe(u), \A p \in Requests : req'[p] = req[p] \/ req'[p] = Idle
      PROVE  RootSent' /\ Sessions!Next
  <2>1. PICK S \in SUBSET Tokens, F \in SUBSET Tokens :
           /\ S = {t \in Tokens : row[t].owner = u /\ row[t].state \in Unrevoked}
           /\ F = {row[t].family : t \in {s \in Committed : row[s].owner = u}}
           /\ row' = Revoked(S) /\ Kill(F)
           /\ \A t \in Tokens : row[t].state \in Unrevoked /\ row[t].family \in F =>
                \E s \in Committed : row[s].owner = u /\ row[s].family = row[t].family
    BY <1>8, <1>a, WipeEffect
  <2>2. ASSUME NEW t \in Tokens, row[t].state \in Unrevoked, row[t].family \in F
        PROVE  t \in S
    <3>1. PICK s \in Committed : row[s].owner = u /\ row[s].family = row[t].family
      BY <2>1, <2>2
    <3>2. s \in Tokens /\ row[t].family # None
      BY <2>1, <2>2, TokensAssumption DEF Committed
    <3>3. QED
      BY <1>a, <2>1, <2>2, <3>1, <3>2 DEF OneOwner
  <2>3. \A t \in S : row[t].state \in Unrevoked /\ row[t].family \in F
    BY <2>1 DEF Committed, Unrevoked
  <2>4. QED
    BY <1>6, <1>8, <2>1, <2>2, <2>3
<1>9. ASSUME NEW q \in Requests, RevokeAll(q) PROVE RootSent' /\ Sessions!Next
  <2>1. req[q].user \in Users /\ Wipe(req[q].user) /\ End(q)
    BY <1>9, <1>a DEF RevokeAll, Shape, RequestOK
  <2>2. QED
    BY <1>8, <1>a, <2>1, EndEffect
<1>10. ASSUME NEW u \in Users, LogoutAll(u) PROVE RootSent' /\ Sessions!Next
  BY <1>8, <1>10 DEF LogoutAll
<1>11. ASSUME NEW q \in Requests, Crash(q) PROVE RootSent' /\ Sessions!Next
  <2>1. UNCHANGED <<delivered, killed, overtaken, forked>>
    BY <1>11 DEF Crash, history
  <2>2. QED
    BY <1>0, <1>11, <1>a, <1>c, <2>1, CrashEffect
(* A request begins: it takes up no token, or one that was sent. *)
<1>12. ASSUME NEW q \in Requests, NEW l, NEW u, NEW t \in delivered \union {None},
              Begin(q, l, t, u), t # None => row[t].family \in Tokens, row' = row, delivered' = delivered
       PROVE  RootSent'
  <2>1. /\ req'[q].token = t /\ \A p \in Requests \ {q} : req'[p] = req[p]
    BY <1>12, <1>a, BeginEffect
  <2>2. t # None => row[t].family \in delivered
    BY <1>12, <1>a, TokensAssumption DEF RootSent
  <2>3. QED
    BY <1>12, <1>a, <2>1, <2>2 DEF RootSent
<1>13. ASSUME NEW q \in Requests, NEW u \in Users, Login(q, u)
       PROVE  RootSent' /\ Sessions!Next
  <2>1. RootSent'
    BY <1>12, <1>13 DEF Login
  <2>2. QED
    BY <1>13, <1>a, <2>1, Dropped DEF Login, history
<1>14. ASSUME NEW q \in Requests, NEW t \in Tokens, BeginRotation(q, t)
       PROVE  RootSent' /\ Sessions!Next
  <2>1. row[t].family \in Tokens /\ t \in delivered /\ row[t].state = "live"
    BY <1>14, <1>a DEF BeginRotation, Shape, RowsOK
  <2>2. RootSent'
    BY <1>12, <1>14, <2>1 DEF BeginRotation
  <2>3. CASE forked' = forked
    BY <1>14, <1>a, <2>2, <2>3, Dropped DEF BeginRotation
  <2>4. CASE forked' # forked
    <3>1. /\ forked' = forked \union {row[t].family} /\ Usable' = Usable
          /\ UNCHANGED <<delivered, killed, overtaken>>
      BY <1>14, <2>4 DEF BeginRotation, Usable
    <3>2. t \in Usable[row[t].family]
      BY <2>1 DEF Usable
    <3>3. Sessions!Fork(row[t].family)
      BY <3>1, <3>2 DEF Sessions!Fork
    <3>4. QED
      BY <2>1, <2>2, <3>3 DEF Sessions!Next
  <2>5. QED
    BY <2>3, <2>4
<1>15. ASSUME NEW q \in Requests, NEW t \in Tokens, DetectReuse(q, t) \/ BeginLogout(q, t)
       PROVE  RootSent' /\ Sessions!Next
  <2>1. row[t].family \in Tokens
    BY <1>15, <1>a DEF DetectReuse, BeginLogout, Unrevoked, Shape, RowsOK
  <2>2. RootSent'
    BY <1>12, <1>15, <2>1 DEF DetectReuse, BeginLogout
  <2>3. QED
    BY <1>15, <1>a, <2>2, Dropped DEF DetectReuse, BeginLogout, history
<1>16. ASSUME NEW t \in Tokens, Expire(t) PROVE RootSent' /\ Sessions!Next
  <2>1. /\ \A s \in Tokens \ {t} : row'[s] = row[s]
        /\ row'[t].family = row[t].family /\ row'[t].state = "expired"
        /\ req' = req /\ UNCHANGED <<delivered, killed, overtaken, forked>>
    BY <1>16, <1>a DEF Expire, history, Shape, TypeOK, Row
  <2>2. QED
    BY <1>0, <1>b, <1>c, <2>1
<1>17. ASSUME NEW state \in {"expired", "revoked"}, Cleanup(state)
       PROVE  RootSent' /\ Sessions!Next
  <2>1. UNCHANGED <<delivered, killed, overtaken, forked>>
    BY <1>17 DEF Cleanup, history
  <2>2. QED
    BY <1>0, <1>17, <1>a, <1>c, <2>1, CleanupEffect
<1>18. ASSUME NEW u \in Users, Disable(u) PROVE RootSent' /\ Sessions!Next
  BY <1>0, <1>18 DEF Disable, history
<1>19. CASE UNCHANGED vars
  BY <1>0, <1>19 DEF vars
<1>20. QED
  BY <1>1, <1>2, <1>3, <1>4, <1>5, <1>7, <1>9, <1>10, <1>11, <1>13, <1>14, <1>15, <1>16,
     <1>17, <1>18, <1>19 DEF Next, Step

(* To its clients the token service is SessionTokens: a session has one    *)
(* usable token and none once it is closed, each is issued once and spent  *)
(* for good, unless rotations of one token overlapped or a revocation came *)
(* between a rotation's steps.                                             *)
THEOREM TokensImplementSessions == Spec => SessionsSpec
BY PromiseInit, PromiseStep, PTL DEF Spec, SessionsSpec, Sessions!Spec
=============================================================================
