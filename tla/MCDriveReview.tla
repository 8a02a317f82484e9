--------------------------- MODULE MCDriveReview ---------------------------
(* MCDriveReview.cfg: two proposals, of changes to one field or of one new *)
(* account, and two decision requests, without mails: the least in which   *)
(* two decisions on a proposal overlap and an applied change makes another *)
(* proposal stale.  Two change rows let one approval be inserted before    *)
(* another and applied after it.                                           *)
(* MCDriveMails.cfg: two proposals of one new account, found by two runs   *)
(* and routed to one reviewer or to two, and two mail passes: the least in *)
(* which passes overlap.  Decisions are left out, which a mail pass meets  *)
(* just as it meets the sweep: a row that is no longer pending.            *)
EXTENDS DriveReview, TLC

(* The field's owner is asked about it; a new account has no reviewer yet. *)
OwnerOfField == CHOOSE o \in [Entities \union Folders -> Staff \union {None}] :
                  \A t \in Entities \union Folders : (o[t] = None) <=> (t \in Folders)
SymReview == Permutations(Proposals) \union Permutations(Requests)
               \union Permutations(Values)

SymMails == Permutations(Proposals) \union Permutations(Runs)
              \union Permutations(Mailers)
=============================================================================
