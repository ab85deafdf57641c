-------------------------------- MODULE SeqMap --------------------------------
(***************************************************************************)
(* What the sequence-number table of the server promises to those who use  *)
(* it as meant: a number is handed to one owner at a time, stays that      *)
(* owner's until it is given back, and giving back one number disturbs no  *)
(* other.  SeqTable is the table of server.js and implements this.         *)
(***************************************************************************)
CONSTANTS Numbers,   \* the sequence numbers
          Owners,    \* those who ask for one: requests, forwards
          null

VARIABLE entry       \* the owner of each number, or null

Init == entry = [s \in Numbers |-> null]

\* newSeq: a number nobody has.
New(who) ==
    \E s \in Numbers :
        /\ entry[s] = null
        /\ entry' = [entry EXCEPT ![s] = who]

\* delSeq: the number is nobody's again.
Del(s) ==
    /\ entry[s] # null
    /\ entry' = [entry EXCEPT ![s] = null]

Next == (\E who \in Owners : New(who)) \/ (\E s \in Numbers : Del(s))

Spec == Init /\ [][Next]_entry
===============================================================================
