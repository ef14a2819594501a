------------------------------ MODULE Revision ------------------------------
(***************************************************************************)
(* What upload_file and upload_folder promise about one revision: an       *)
(* upload takes effect as one atomic edit of the current files (its own    *)
(* titles replaced, the deleted ones removed, everything else untouched),  *)
(* it returns only after such an edit and has no effect after returning.   *)
(* An upload that raised may still take effect: the answer to its PUT may  *)
(* have been lost, and the PUT itself may be late.                         *)
(***************************************************************************)
CONSTANTS Writers, Titles, Contents, Files, Deletes, NoFile

VARIABLES
  content,    \* [Titles -> Contents or NoFile]: the files of the revision
  outcome     \* [Writers -> {"pending", "ok", "error"}]: what the call did

Apply(w, c) ==
  [t \in Titles |->
     IF Files[w][t] # NoFile THEN Files[w][t]
     ELSE IF t \in Deletes[w] THEN NoFile ELSE c[t]]

Init ==
  /\ content \in [Titles -> Contents \cup {NoFile}]
  /\ outcome = [w \in Writers |-> "pending"]

Commit(w) ==
  /\ content' = Apply(w, content)
  /\ \/ outcome[w] = "pending" /\ outcome' = [outcome EXCEPT ![w] = "ok"]
     \/ outcome[w] # "ok" /\ UNCHANGED outcome

GiveUp(w) ==
  /\ outcome[w] = "pending"
  /\ outcome' = [outcome EXCEPT ![w] = "error"]
  /\ UNCHANGED content

Next == \E w \in Writers : Commit(w) \/ GiveUp(w)

Spec == Init /\ [][Next]_<<content, outcome>>
=============================================================================
