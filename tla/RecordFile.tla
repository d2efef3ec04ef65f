----------------------------- MODULE RecordFile ------------------------------
(***************************************************************************)
(* What the scenes expect of the metadata file of each image: a record is  *)
(* offered and then replaces the stored one as a whole, or is withdrawn.   *)
(* Nothing but whole records is ever stored.  Where the file system cannot *)
(* rename onto an existing file, the old record vanishes first.            *)
(***************************************************************************)
CONSTANTS Images, Records, NoRecord

VARIABLES stored,    \* the record that a load of each image's file returns
          offered    \* the record that is about to replace it

vars == <<stored, offered>>

Init == stored = [i \in Images |-> NoRecord] /\ offered = [i \in Images |-> NoRecord]

Offer(i) == /\ offered[i] = NoRecord
            /\ offered'[i] \in Records /\ offered' = [offered EXCEPT ![i] = offered'[i]]
            /\ UNCHANGED stored

Commit(i) == /\ offered[i] # NoRecord
             /\ stored' = [stored EXCEPT ![i] = offered[i]]
             /\ offered' = [offered EXCEPT ![i] = NoRecord]

Withdraw(i) == offered' = [offered EXCEPT ![i] = NoRecord] /\ UNCHANGED stored

Vanish(i) == offered[i] # NoRecord /\ stored' = [stored EXCEPT ![i] = NoRecord]
             /\ UNCHANGED offered

\* The image is created anew
Delete(i) == offered[i] = NoRecord /\ stored' = [stored EXCEPT ![i] = NoRecord]
             /\ UNCHANGED offered

Next == \E i \in Images : Offer(i) \/ Commit(i) \/ Withdraw(i) \/ Vanish(i) \/ Delete(i)

Spec == Init /\ [][Next]_vars
=============================================================================
