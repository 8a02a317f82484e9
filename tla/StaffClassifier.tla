-------------------------- MODULE StaffClassifier --------------------------
(***************************************************************************)
(* Which entries of a directory are people: src/modules/staff-classifier,  *)
(* as operators.  Rules set by administrators come first, then two hard    *)
(* filters, then a language model that is asked about the rest, and once   *)
(* more about those it left out.                                           *)
(*                                                                         *)
(* Entries are a function from whatever the caller counts them by, and so  *)
(* are the verdicts: each stands where its entry stood.  An answer of the  *)
(* model is a function from the addresses it chose to speak about, asked   *)
(* about or not, to "person" or "service_account"; the empty one is a      *)
(* failed call.                                                            *)
(*                                                                         *)
(* Abstracted: the display name (an entry without one is treated as one    *)
(* without an address: its email is None); batches of fifty (an answer is  *)
(* about one batch only); the model's confidence and reasons; statistics;  *)
(* upper and lower case.                                                   *)
(***************************************************************************)
CONSTANTS
  Foreign,      \* addresses outside the primary domain
  None

\* A stub: there is no table of rules yet.
FindSyncRule(email) == None

HardFiltered(entry) == entry.email = None \/ entry.email \in Foreign

\* Those whose address the answer does not mention.
Missing(batch, answer) == {e \in batch : e.email \notin DOMAIN answer}

\* Whatever the second answer says, of anybody, replaces the first.
Combined(batch, first, second) ==
  IF Missing(batch, first) = {} THEN first
  ELSE [e \in DOMAIN first \cup DOMAIN second |->
          IF e \in DOMAIN second THEN second[e] ELSE first[e]]

\* Mutant: an entry the model does not mention is passed over.
MutToClassification(entry, items) ==
  IF entry.email \in DOMAIN items /\ items[entry.email] = "person" THEN "person" ELSE "skip"

\* An entry the model does not mention is kept.
ToClassification(entry, items) ==
  IF entry.email \in DOMAIN items /\ items[entry.email] = "service_account"
  THEN "skip" ELSE "person"

\* What is left to the model.
LlmInputs(entries) ==
  {entries[i] : i \in {j \in DOMAIN entries :
     FindSyncRule(entries[j].email) = None /\ ~HardFiltered(entries[j])}}

ClassifyEntries(entries, first, second) ==
  LET items == Combined(LlmInputs(entries), first, second)
  IN  [i \in DOMAIN entries |->
         CASE FindSyncRule(entries[i].email) = "always_skip" -> "skip"
           [] FindSyncRule(entries[i].email) = "always_keep" -> "person"
           [] FindSyncRule(entries[i].email) = None ->
                IF HardFiltered(entries[i]) THEN "skip"
                ELSE ToClassification(entries[i], items)]
=============================================================================
