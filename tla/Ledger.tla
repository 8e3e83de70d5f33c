------------------------------- MODULE Ledger -------------------------------
(***************************************************************************)
(* What a result file promises: a ledger of verdicts.  An entry without a  *)
(* verdict may get one; an entry with a verdict is never changed, removed  *)
(* or decided again, whatever happens between two readings of the file.    *)
(***************************************************************************)
CONSTANTS Entries, Verdicts, Open

VARIABLE verdict

Init == verdict = [k \in Entries |-> Open]

Record ==
    /\ verdict' \in [Entries -> Verdicts \cup {Open}]
    /\ \A k \in Entries : verdict[k] # Open => verdict'[k] = verdict[k]

Next == Record
Spec == Init /\ [][Next]_verdict
=============================================================================
