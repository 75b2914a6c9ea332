------------------------------ MODULE BomLedger ------------------------------
(***************************************************************************)
(* What the BOM store promises its clients: a BOM is one value with a      *)
(* version.  It is uploaded at version 1, every edit produces the next     *)
(* version and adds to what is there, and a deleted BOM is gone.  Scores,  *)
(* the list and the order of the object writes do not appear here.         *)
(***************************************************************************)
EXTENDS Naturals

CONSTANTS Boms, Ids, None

VARIABLE ledger

Init == ledger = [b \in Boms |-> None]

Upload(b) ==
  /\ ledger[b] = None
  /\ \E e \in Ids : ledger' = [ledger EXCEPT ![b] = [version |-> 1, edits |-> {e}]]

Edit(b) ==
  /\ ledger[b] # None
  /\ \E e \in Ids \ ledger[b].edits :
       ledger' = [ledger EXCEPT ![b] =
                    [version |-> @.version + 1, edits |-> @.edits \cup {e}]]

Delete(b) ==
  /\ ledger[b] # None
  /\ ledger' = [ledger EXCEPT ![b] = None]

Next == \E b \in Boms : Upload(b) \/ Edit(b) \/ Delete(b)

Spec == Init /\ [][Next]_ledger

============================================================================
