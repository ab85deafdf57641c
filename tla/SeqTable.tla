------------------------------- MODULE SeqTable -------------------------------
(***************************************************************************)
(* The table of UserMgmr in server.js: newSeq, delSeq and getBySeq, over   *)
(* the arrays seq2index and index2obj.  The objects are kept packed at the *)
(* front of index2obj, so delSeq moves the last one into the hole; an      *)
(* object carries its own sequence number for that.                        *)
(*                                                                         *)
(* The arrays grow on demand in the code.  Here they have their final size *)
(* and an element not there yet is null, which is how the code treats it   *)
(* (null == undefined).                                                    *)
(***************************************************************************)
EXTENDS Integers

CONSTANTS UserMgrMax,   \* userMgrMax: the size of the table
          Owners,       \* those a sequence number is created for
          null

ASSUME SizeAssumption == UserMgrMax \in Nat \ {0}

Numbers == 0..(UserMgrMax - 1)
Objects == [who : Owners, seq : Numbers]

ASSUME NullAssumption ==
    null \notin Owners /\ null \notin Int /\ null \notin Objects

VARIABLES seq, cnt, seq2index, index2obj
vars == <<seq, cnt, seq2index, index2obj>>

\* getBySeq.
getBySeq(s) ==
    IF seq2index[s] = null THEN null ELSE index2obj[seq2index[s]]

\* The number newSeq hands out next: the counter, wrapped.
NextSeq == IF seq >= UserMgrMax THEN 0 ELSE seq

Full == cnt >= UserMgrMax

\* Mutant of newSeq: the number taken from the count of objects, not from the
\* counter.
newSeq_by_count(who) ==
    /\ ~Full
    /\ seq2index' = [seq2index EXCEPT ![cnt] = cnt]
    /\ index2obj' = [index2obj EXCEPT ![cnt] = [who |-> who, seq |-> cnt]]
    /\ cnt' = cnt + 1
    /\ seq' = NextSeq + 1

\* newSeq when the table is not full (it returns null when it is).
newSeq(who) ==
    /\ ~Full
    /\ seq2index' = [seq2index EXCEPT ![NextSeq] = cnt]
    /\ index2obj' = [index2obj EXCEPT ![cnt] = [who |-> who, seq |-> NextSeq]]
    /\ cnt' = cnt + 1
    /\ seq' = NextSeq + 1

\* delSeq throws when it looks for the last object and finds none: it was
\* called for a number that was given back before.
delSeqThrows(s) ==
    /\ seq2index[s] # null
    /\ seq2index[s] # cnt - 1
    /\ cnt <= 0 \/ index2obj[cnt - 1] = null

\* Mutants of delSeq: the moved object's index left as it was, and the hole
\* left in place.
delSeq_stale_index(s) ==
    LET index == seq2index[s]
        last  == cnt - 1
    IN  /\ ~delSeqThrows(s)
        /\ IF index = null
           THEN UNCHANGED <<cnt, seq2index, index2obj>>
           ELSE /\ cnt' = last
                /\ index2obj' = [i \in Numbers |->
                      IF i = last THEN null
                      ELSE IF i = index THEN index2obj[last] ELSE index2obj[i]]
                /\ UNCHANGED seq2index
        /\ UNCHANGED seq
delSeq_leaves_hole(s) ==
    LET index == seq2index[s]
    IN  /\ ~delSeqThrows(s)
        /\ IF index = null
           THEN UNCHANGED <<cnt, seq2index, index2obj>>
           ELSE /\ cnt' = cnt - 1
                /\ index2obj' = [index2obj EXCEPT ![index] = null]
                /\ UNCHANGED seq2index
        /\ UNCHANGED seq

\* delSeq: seq2index[s] itself keeps its old value.
delSeq(s) ==
    LET index == seq2index[s]
        last  == cnt - 1
    IN  /\ ~delSeqThrows(s)
        /\ IF index = null
           THEN UNCHANGED <<cnt, seq2index, index2obj>>
           ELSE /\ cnt' = last
                /\ index2obj' = [i \in Numbers |->
                      IF i = last THEN null
                      ELSE IF i = index THEN index2obj[last] ELSE index2obj[i]]
                /\ seq2index' = IF index = last THEN seq2index
                                ELSE [seq2index EXCEPT ![index2obj[last].seq] = index]
        /\ UNCHANGED seq

Init ==
    /\ seq = 0
    /\ cnt = 0
    /\ seq2index = [s \in Numbers |-> null]
    /\ index2obj = [i \in Numbers |-> null]

-----------------------------------------------------------------------------
(* The table used as meant: an owner gives its number back once, and no    *)
(* number stays taken while the counter goes all the way around to it.     *)
(* TunnelServer shows how the program uses it.                             *)

Taken ==
    {s \in Numbers :
        \E i \in 0..(cnt - 1) : index2obj[i] # null /\ index2obj[i].seq = s}

New(who) == NextSeq \notin Taken /\ newSeq(who)
Del(s)   == s \in Taken /\ delSeq(s)

Next == (\E who \in Owners : New(who)) \/ (\E s \in Numbers : Del(s))

Spec == Init /\ [][Next]_vars

-----------------------------------------------------------------------------

TypeOK ==
    /\ seq \in 0..UserMgrMax
    /\ cnt \in 0..UserMgrMax
    /\ seq2index \in [Numbers -> Numbers \cup {null}]
    /\ index2obj \in [Numbers -> Objects \cup {null}]

\* The objects stay packed at the front of index2obj, which is what delSeq
\* relies on when it takes the one at cnt - 1 for the last.
Packed == \A i \in Numbers : index2obj[i] # null <=> i < cnt

\* Every object is found under its own number, after any series of objects
\* moved into holes by delSeq; so no two share a number.
EachFound ==
    \A i \in Numbers : i < cnt => seq2index[index2obj[i].seq] = i

IndInv == TypeOK /\ Packed /\ EachFound

\* delSeq of a number that is taken never runs into a missing last object.
DelNeverThrows == \A s \in Taken : ~delSeqThrows(s)

\* A number that was given back and not handed out again is looked up as
\* nothing or, through the index it left behind, as an object that is now
\* at that index: never as anything that has left the table.
LookupIsLive ==
    \A s \in Numbers :
        getBySeq(s) # null => \E i \in 0..(cnt - 1) : index2obj[i] = getBySeq(s)

\* newSeq and delSeq do on the arrays what SeqMap says of the numbers: one
\* owner each, and an owner is found until its number is given back.
OwnerOf(s) == IF s \in Taken THEN getBySeq(s).who ELSE null
Map == INSTANCE SeqMap WITH entry <- [s \in Numbers |-> OwnerOf(s)]
ImplementsMap == Map!Spec
===============================================================================
