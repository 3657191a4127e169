----------------------------- MODULE PageSaves -----------------------------
(***************************************************************************)
(* What the segment editor is promised: a save replaces every page it      *)
(* names, all at once and once only, before it is answered; a save that is *)
(* refused replaces none.  SegmentSave implements it on MySQL transactions.*)
(***************************************************************************)
CONSTANTS Sessions, Pages, None

VARIABLES
  owner,    \* for every page, the save whose content it has, or None
  asked,    \* for every session, the pages its save names
  answer    \* for every session, what the editor was told

vars == <<owner, asked, answer>>

Init == /\ owner = [p \in Pages |-> None]
        /\ asked \in [Sessions -> SUBSET Pages]
        /\ answer = [s \in Sessions |-> "open"]

Save(s) == /\ answer[s] = "open"
           /\ answer' = [answer EXCEPT ![s] = "saved"]
           /\ owner' = [p \in Pages |-> IF p \in asked[s] THEN s ELSE owner[p]]
           /\ UNCHANGED asked

Refuse(s) == /\ answer[s] = "open"
             /\ answer' = [answer EXCEPT ![s] = "refused"]
             /\ UNCHANGED <<owner, asked>>

Next == \E s \in Sessions : Save(s) \/ Refuse(s)

Spec == Init /\ [][Next]_vars
============================================================================
