--------------------------- MODULE SeqTable_proofs ---------------------------
(***************************************************************************)
(* Proofs about SeqTable, for every size of the table and every set of     *)
(* owners: its arrays stay packed and consistent, and it implements        *)
(* SeqMap.                                                                 *)
(***************************************************************************)
EXTENDS SeqTable, TLAPS

\* A number that is taken belongs to exactly one place of index2obj, and
\* getBySeq finds it there.
LEMMA TakenIsFound ==
    ASSUME IndInv, NEW s \in Taken
    PROVE  /\ seq2index[s] \in 0..(cnt - 1)
           /\ getBySeq(s) \in Objects
           /\ getBySeq(s) = index2obj[seq2index[s]]
           /\ getBySeq(s).seq = s
           /\ s \in Numbers
<1>1. PICK i \in 0..(cnt - 1) : index2obj[i].seq = s
    BY DEF Taken
<1>2. i \in Numbers /\ i < cnt
    BY SizeAssumption DEF IndInv, TypeOK, Numbers
<1>3. seq2index[s] = i
    BY <1>1, <1>2 DEF IndInv, EachFound
<1>4. index2obj[i] \in Objects
    BY <1>2 DEF IndInv, TypeOK, Packed
<1>5. getBySeq(s) = index2obj[i]
    BY <1>2, <1>3, NullAssumption DEF getBySeq, Numbers
<1>6. s \in Numbers
    BY DEF Taken
<1> QED
    BY <1>1, <1>2, <1>3, <1>4, <1>5, <1>6

\* The number in each place of index2obj is taken.
LEMMA PlaceIsTaken ==
    ASSUME IndInv, NEW i \in Numbers, i < cnt
    PROVE  /\ index2obj[i] \in Objects
           /\ index2obj[i].seq \in Taken
           /\ OwnerOf(index2obj[i].seq) = index2obj[i].who
           /\ seq2index[index2obj[i].seq] = i
<1>1. index2obj[i] \in Objects
    BY DEF IndInv, TypeOK, Packed
<1>2. index2obj[i].seq \in Numbers
    BY <1>1 DEF Objects
<1>3. i \in 0..(cnt - 1)
    BY DEF Numbers, IndInv, TypeOK
<1>4. index2obj[i].seq \in Taken
    <2>1. index2obj[i] # null
        BY DEF IndInv, Packed
    <2> QED
        BY <1>2, <1>3, <2>1 DEF Taken
<1>5. seq2index[index2obj[i].seq] = i
    BY DEF IndInv, EachFound
<1>6. OwnerOf(index2obj[i].seq) = index2obj[i].who
    BY <1>4, <1>5, TakenIsFound DEF OwnerOf
<1> QED
    BY <1>1, <1>4, <1>5, <1>6

LEMMA InitIndInv == Init => IndInv
BY SizeAssumption DEF Init, IndInv, TypeOK, Packed, EachFound, Numbers

\* newSeq puts the new object behind the others; its number is not taken, so
\* no other object loses its index.
LEMMA NewKeepsIndInv ==
    ASSUME IndInv, NEW who \in Owners, New(who)
    PROVE  IndInv'
<1>1. /\ cnt \in Numbers /\ NextSeq \in Numbers
      /\ NextSeq \notin Taken /\ ~Full
    BY SizeAssumption DEF New, newSeq, Full, IndInv, TypeOK, Numbers, NextSeq
<1>2. [who |-> who, seq |-> NextSeq] \in Objects
    BY <1>1 DEF Objects
<1>3. /\ seq2index' = [seq2index EXCEPT ![NextSeq] = cnt]
      /\ index2obj' = [index2obj EXCEPT ![cnt] = [who |-> who, seq |-> NextSeq]]
      /\ cnt' = cnt + 1 /\ seq' = NextSeq + 1
    BY DEF New, newSeq
<1>4. TypeOK'
    <2>1. seq' \in 0..UserMgrMax /\ cnt' \in 0..UserMgrMax
        BY <1>1, <1>3, SizeAssumption DEF Numbers
    <2>2. seq2index' \in [Numbers -> Numbers \cup {null}]
        BY <1>1, <1>3 DEF IndInv, TypeOK
    <2>3. index2obj' \in [Numbers -> Objects \cup {null}]
        BY <1>1, <1>2, <1>3 DEF IndInv, TypeOK
    <2> QED
        BY <2>1, <2>2, <2>3 DEF TypeOK
<1>5. Packed'
    <2> SUFFICES ASSUME NEW i \in Numbers
                 PROVE  index2obj'[i] # null <=> i < cnt'
        BY DEF Packed
    <2>1. CASE i = cnt
        BY <2>1, <1>1, <1>2, <1>3, NullAssumption DEF IndInv, TypeOK, Numbers
    <2>2. CASE i # cnt
        BY <2>2, <1>1, <1>3 DEF IndInv, TypeOK, Packed, Numbers
    <2> QED
        BY <2>1, <2>2
<1>6. EachFound'
    <2> SUFFICES ASSUME NEW i \in Numbers, i < cnt'
                 PROVE  seq2index'[index2obj'[i].seq] = i
        BY DEF EachFound
    <2>1. CASE i = cnt
        BY <2>1, <1>1, <1>3 DEF IndInv, TypeOK
    <2>2. CASE i # cnt
        <3>1. i < cnt /\ index2obj'[i] = index2obj[i]
            BY <2>2, <1>1, <1>3 DEF IndInv, TypeOK, Numbers
        <3>2. index2obj[i].seq \in Taken /\ seq2index[index2obj[i].seq] = i
            BY <3>1, PlaceIsTaken
        <3>3. index2obj[i].seq # NextSeq /\ index2obj[i].seq \in Numbers
            BY <3>2, <1>1 DEF Taken
        <3> QED
            BY <3>1, <3>2, <3>3, <1>1, <1>3 DEF IndInv, TypeOK
    <2> QED
        BY <2>1, <2>2
<1> QED
    BY <1>4, <1>5, <1>6 DEF IndInv

\* delSeq of a number whose index is that of an object, its own or, when the
\* number was given back before, another's: what it reads and what it writes.
LEMMA DelAt ==
    ASSUME IndInv, NEW s \in Numbers, seq2index[s] \in 0..(cnt - 1), delSeq(s)
    PROVE  /\ cnt \in 1..UserMgrMax
           /\ index2obj[cnt - 1] \in Objects
           /\ cnt' = cnt - 1
           /\ seq' = seq
           /\ index2obj' = [i \in Numbers |->
                 IF i = cnt - 1 THEN null
                 ELSE IF i = seq2index[s] THEN index2obj[cnt - 1]
                 ELSE index2obj[i]]
           /\ seq2index' =
                 IF seq2index[s] = cnt - 1 THEN seq2index
                 ELSE [seq2index EXCEPT ![index2obj[cnt - 1].seq] = seq2index[s]]
<1>1. cnt \in 1..UserMgrMax
    BY SizeAssumption DEF IndInv, TypeOK
<1>2. cnt - 1 \in Numbers /\ cnt - 1 < cnt
    BY <1>1, SizeAssumption DEF Numbers
<1>3. index2obj[cnt - 1] \in Objects
    BY <1>2, PlaceIsTaken
<1>4. seq2index[s] # null
    BY NullAssumption
<1> QED
    BY <1>1, <1>3, <1>4 DEF delSeq

\* delSeq fills the hole with the last object and corrects its index.
LEMMA DelAtKeepsIndInv ==
    ASSUME IndInv, NEW s \in Numbers, seq2index[s] \in 0..(cnt - 1), delSeq(s)
    PROVE  IndInv'
<1> DEFINE index == seq2index[s]
           last  == cnt - 1
<1>1. /\ cnt \in 1..UserMgrMax /\ index \in 0..last
      /\ index2obj[last] \in Objects /\ cnt' = last /\ seq' = seq
      /\ index2obj' = [i \in Numbers |->
            IF i = last THEN null
            ELSE IF i = index THEN index2obj[last] ELSE index2obj[i]]
      /\ seq2index' = IF index = last THEN seq2index
                      ELSE [seq2index EXCEPT ![index2obj[last].seq] = index]
    BY DelAt
<1> HIDE DEF index, last
<1>2. last \in Numbers /\ index \in Numbers /\ last = cnt - 1 /\ last < cnt /\ index < cnt
    BY <1>1, SizeAssumption DEF Numbers, last
<1>3. index2obj[last].seq \in Numbers
    BY <1>1 DEF Objects
<1>4. TypeOK'
    <2>1. seq' \in 0..UserMgrMax /\ cnt' \in 0..UserMgrMax
        BY <1>1, <1>2, SizeAssumption DEF IndInv, TypeOK
    <2>2. seq2index' \in [Numbers -> Numbers \cup {null}]
        BY <1>1, <1>2, <1>3 DEF IndInv, TypeOK
    <2>3. index2obj' \in [Numbers -> Objects \cup {null}]
        BY <1>1, <1>2 DEF IndInv, TypeOK
    <2> QED
        BY <2>1, <2>2, <2>3 DEF TypeOK
<1>5. Packed'
    <2> SUFFICES ASSUME NEW i \in Numbers
                 PROVE  index2obj'[i] # null <=> i < last
        BY <1>1 DEF Packed
    <2>1. index2obj[last] # null
        BY <1>1, NullAssumption
    <2> QED
        BY <2>1, <1>1, <1>2 DEF IndInv, Packed, Numbers
<1>6. EachFound'
    <2> SUFFICES ASSUME NEW i \in Numbers, i < last
                 PROVE  seq2index'[index2obj'[i].seq] = i
        BY <1>1 DEF EachFound
    <2>1. seq2index[index2obj[last].seq] = last
        BY <1>2, PlaceIsTaken
    <2>2. i < cnt /\ i # last
        BY <1>2 DEF Numbers, IndInv, TypeOK
    <2>3. index2obj[i] \in Objects /\ seq2index[index2obj[i].seq] = i
        BY <2>2, PlaceIsTaken
    <2>4. CASE i = index
        <3>1. index2obj'[i] = index2obj[last] /\ index # last
            BY <2>2, <2>4, <1>1
        <3> QED
            BY <3>1, <2>4, <1>1, <1>3 DEF IndInv, TypeOK
    <2>5. CASE i # index
        <3>1. index2obj'[i] = index2obj[i]
            BY <2>2, <2>5, <1>1
        <3>2. index2obj[i].seq # index2obj[last].seq
            BY <2>1, <2>2, <2>3
        <3>3. index2obj[i].seq \in Numbers
            BY <2>3 DEF Objects
        <3> QED
            BY <3>1, <3>2, <3>3, <2>3, <1>1, <1>3 DEF IndInv, TypeOK
    <2> QED
        BY <2>4, <2>5
<1> QED
    BY <1>4, <1>5, <1>6 DEF IndInv

\* delSeq of a number that is taken: the object that goes is its own.
LEMMA DelStep ==
    ASSUME IndInv, NEW s \in Numbers, Del(s)
    PROVE  /\ cnt \in 1..UserMgrMax
           /\ seq2index[s] \in 0..(cnt - 1)
           /\ index2obj[seq2index[s]].seq = s
           /\ index2obj[cnt - 1] \in Objects
           /\ cnt' = cnt - 1
           /\ index2obj' = [i \in Numbers |->
                 IF i = cnt - 1 THEN null
                 ELSE IF i = seq2index[s] THEN index2obj[cnt - 1]
                 ELSE index2obj[i]]
<1>1. s \in Taken /\ delSeq(s)
    BY DEF Del
<1>2. seq2index[s] \in 0..(cnt - 1) /\ getBySeq(s) = index2obj[seq2index[s]]
      /\ getBySeq(s).seq = s
    BY <1>1, TakenIsFound
<1> QED
    BY <1>1, <1>2, DelAt

LEMMA DelKeepsIndInv ==
    ASSUME IndInv, NEW s \in Numbers, Del(s)
    PROVE  IndInv'
<1>1. seq2index[s] \in 0..(cnt - 1) /\ delSeq(s)
    BY DelStep DEF Del
<1> QED
    BY <1>1, DelAtKeepsIndInv

-----------------------------------------------------------------------------
(* The objects in the table, wherever they are.                            *)

InTable == {index2obj[i] : i \in 0..(cnt - 1)}

\* An object in the table is found under its number.
LEMMA ObjectFound ==
    ASSUME IndInv, NEW o \in InTable
    PROVE  /\ o \in Objects /\ o.seq \in Taken
           /\ getBySeq(o.seq) = o
           /\ seq2index[o.seq] \in 0..(cnt - 1) /\ index2obj[seq2index[o.seq]] = o
<1>1. PICK i \in 0..(cnt - 1) : o = index2obj[i]
    BY DEF InTable
<1>2. i \in Numbers /\ i < cnt
    BY SizeAssumption DEF IndInv, TypeOK, Numbers
<1>3. o \in Objects /\ o.seq \in Taken /\ seq2index[o.seq] = i
    BY <1>1, <1>2, PlaceIsTaken
<1>4. getBySeq(o.seq) = o
    BY <1>1, <1>3, NullAssumption DEF getBySeq
<1> QED
    BY <1>1, <1>3, <1>4

\* What a lookup returns is in the table, at the index kept for the number.
LEMMA LookupInTable ==
    ASSUME IndInv, NEW s \in Numbers, getBySeq(s) # null
    PROVE  /\ seq2index[s] \in 0..(cnt - 1)
           /\ getBySeq(s) = index2obj[seq2index[s]]
           /\ getBySeq(s) \in InTable
<1>1. seq2index[s] \in Numbers /\ getBySeq(s) = index2obj[seq2index[s]]
    BY DEF getBySeq, IndInv, TypeOK
<1>2. seq2index[s] < cnt
    BY <1>1 DEF IndInv, Packed
<1>3. seq2index[s] \in 0..(cnt - 1)
    BY <1>1, <1>2 DEF Numbers, IndInv, TypeOK
<1> QED
    BY <1>1, <1>3 DEF InTable

\* newSeq adds its object.
LEMMA NewInTable ==
    ASSUME IndInv, NEW who \in Owners, New(who)
    PROVE  InTable' = InTable \cup {[who |-> who, seq |-> NextSeq]}
<1>1. /\ cnt \in Numbers
      /\ index2obj' = [index2obj EXCEPT ![cnt] = [who |-> who, seq |-> NextSeq]]
      /\ cnt' = cnt + 1
    BY SizeAssumption DEF New, newSeq, Full, IndInv, TypeOK, Numbers
<1>2. 0..(cnt' - 1) = (0..(cnt - 1)) \cup {cnt} /\ 0..(cnt - 1) \subseteq Numbers
    BY <1>1, SizeAssumption DEF Numbers
<1>3. \A i \in 0..(cnt - 1) : index2obj'[i] = index2obj[i]
    BY <1>1, <1>2 DEF IndInv, TypeOK, Numbers
<1>4. index2obj'[cnt] = [who |-> who, seq |-> NextSeq]
    BY <1>1 DEF IndInv, TypeOK
<1> QED
    BY <1>2, <1>3, <1>4 DEF InTable

\* delSeq takes out the object at its index and no other.
LEMMA DelInTable ==
    ASSUME IndInv, NEW s \in Numbers, seq2index[s] \in 0..(cnt - 1), delSeq(s)
    PROVE  InTable' = InTable \ {index2obj[seq2index[s]]}
<1> DEFINE index == seq2index[s]
           last  == cnt - 1
<1>1. /\ cnt \in 1..UserMgrMax /\ index \in 0..last /\ cnt' = last
      /\ index2obj' = [i \in Numbers |->
            IF i = last THEN null
            ELSE IF i = index THEN index2obj[last] ELSE index2obj[i]]
    BY DelAt
<1> HIDE DEF index, last
<1>2. 0..last = (0..(cnt' - 1)) \cup {last} /\ last \in 0..last /\ 0..last \subseteq Numbers
      /\ last = cnt - 1 /\ last \notin 0..(cnt' - 1)
    BY <1>1, SizeAssumption DEF Numbers, last
<1>3. \A i, j \in 0..last : index2obj[i] = index2obj[j] => i = j
    <2> SUFFICES ASSUME NEW i \in 0..last, NEW j \in 0..last, index2obj[i] = index2obj[j]
                 PROVE  i = j
        OBVIOUS
    <2>1. i \in Numbers /\ i < cnt /\ j \in Numbers /\ j < cnt
        BY <1>1, <1>2
    <2>2. seq2index[index2obj[i].seq] = i /\ seq2index[index2obj[j].seq] = j
        BY <2>1, PlaceIsTaken
    <2> QED
        BY <2>2
<1>4. ASSUME NEW i \in 0..(cnt' - 1)
      PROVE  index2obj'[i] \in InTable \ {index2obj[index]}
    <2>1. i \in 0..last /\ i # last /\ i \in Numbers
        BY <1>2
    <2>2. index2obj'[i] = IF i = index THEN index2obj[last] ELSE index2obj[i]
        BY <1>1, <2>1
    <2>3. index2obj'[i] # index2obj[index]
        BY <2>1, <2>2, <1>1, <1>2, <1>3
    <2> QED
        BY <2>1, <2>2, <2>3, <1>2 DEF InTable
<1>5. ASSUME NEW j \in 0..last, index2obj[j] # index2obj[index]
      PROVE  index2obj[j] \in InTable'
    <2>1. CASE j = last
        <3>1. index \in 0..(cnt' - 1) /\ index \in Numbers /\ index # last
            BY <1>1, <1>2, <1>5, <2>1
        <3>2. index2obj'[index] = index2obj[j]
            BY <3>1, <2>1, <1>1
        <3> QED
            BY <3>1, <3>2 DEF InTable
    <2>2. CASE j # last
        <3>1. j \in 0..(cnt' - 1) /\ j \in Numbers /\ j # index
            BY <1>2, <1>5, <2>2
        <3>2. index2obj'[j] = index2obj[j]
            BY <3>1, <2>2, <1>1
        <3> QED
            BY <3>1, <3>2 DEF InTable
    <2> QED
        BY <2>1, <2>2
<1>6. InTable = {index2obj[i] : i \in 0..last}
    BY DEF InTable, last
<1>7. InTable' = {index2obj'[i] : i \in 0..(cnt' - 1)}
    BY DEF InTable
<1>8. InTable' \subseteq InTable \ {index2obj[index]}
    BY <1>4, <1>7
<1>9. InTable \ {index2obj[index]} \subseteq InTable'
    BY <1>5, <1>6
<1> QED
    BY <1>8, <1>9 DEF index

\* delSeq through the index of an object never runs into a missing last one.
LEMMA DelAtGoes ==
    ASSUME IndInv, NEW s \in Numbers, seq2index[s] \in 0..(cnt - 1)
    PROVE  ~delSeqThrows(s)
<1>1. cnt > 0 /\ cnt - 1 \in Numbers /\ cnt - 1 < cnt
    BY SizeAssumption DEF IndInv, TypeOK, Numbers
<1>2. index2obj[cnt - 1] # null
    BY <1>1 DEF IndInv, Packed
<1> QED
    BY <1>1, <1>2 DEF delSeqThrows, IndInv, TypeOK

-----------------------------------------------------------------------------
(* The table by itself.                                                    *)

LEMMA NextIndInv == IndInv /\ [Next]_vars => IndInv'
<1> SUFFICES ASSUME IndInv, [Next]_vars PROVE IndInv'
    OBVIOUS
<1>1. CASE \E who \in Owners : New(who)
    BY <1>1, NewKeepsIndInv
<1>2. CASE \E s \in Numbers : Del(s)
    BY <1>2, DelKeepsIndInv
<1>3. CASE UNCHANGED vars
    BY <1>3 DEF vars, IndInv, TypeOK, Packed, EachFound
<1> QED
    BY <1>1, <1>2, <1>3 DEF Next

\* The arrays of UserMgmr are always well-typed, packed and consistent, as
\* long as the table is used as meant.
THEOREM TableIndInv == Spec => []IndInv
<1>1. Init => IndInv
    BY InitIndInv
<1>2. IndInv /\ [Next]_vars => IndInv'
    BY NextIndInv
<1> QED
    BY <1>1, <1>2, PTL DEF Spec

\* delSeq, called for a number that is taken, never finds the last place
\* empty: its access to index2obj[cnt].seq does not throw.
THEOREM NeverThrows == Spec => []DelNeverThrows
<1>1. IndInv => DelNeverThrows
    <2> SUFFICES ASSUME IndInv, NEW s \in Taken PROVE ~delSeqThrows(s)
        BY DEF DelNeverThrows
    <2>1. seq2index[s] \in 0..(cnt - 1)
        BY TakenIsFound
    <2> QED
        BY <2>1, DelAtGoes DEF Taken
<1> QED
    BY <1>1, TableIndInv, PTL

\* What getBySeq returns is always an object that is in the table now, even
\* for a number that was given back and left its index behind.
THEOREM LookupAlwaysLive == Spec => []LookupIsLive
<1>1. IndInv => LookupIsLive
    <2> SUFFICES ASSUME IndInv, NEW s \in Numbers, getBySeq(s) # null
                 PROVE  \E i \in 0..(cnt - 1) : index2obj[i] = getBySeq(s)
        BY DEF LookupIsLive
    <2>1. seq2index[s] \in Numbers /\ getBySeq(s) = index2obj[seq2index[s]]
        BY DEF getBySeq, IndInv, TypeOK
    <2>2. seq2index[s] < cnt
        BY <2>1 DEF IndInv, Packed
    <2>3. seq2index[s] \in 0..(cnt - 1)
        BY <2>1, <2>2 DEF Numbers, IndInv, TypeOK
    <2> QED
        BY <2>1, <2>3
<1> QED
    BY <1>1, TableIndInv, PTL

\* The owner of a number, as the places of index2obj determine it.
LEMMA OwnerIs ==
    ASSUME IndInv, NEW t \in Numbers
    PROVE  /\ t \in Taken => /\ seq2index[t] \in Numbers
                             /\ seq2index[t] < cnt
                             /\ index2obj[seq2index[t]].seq = t
                             /\ OwnerOf(t) = index2obj[seq2index[t]].who
           /\ t \notin Taken => OwnerOf(t) = null
<1>1. ASSUME t \in Taken
      PROVE  /\ seq2index[t] \in Numbers
             /\ seq2index[t] < cnt
             /\ index2obj[seq2index[t]].seq = t
             /\ OwnerOf(t) = index2obj[seq2index[t]].who
    <2>1. seq2index[t] \in 0..(cnt - 1) /\ getBySeq(t) = index2obj[seq2index[t]]
          /\ getBySeq(t).seq = t
        BY <1>1, TakenIsFound
    <2> QED
        BY <1>1, <2>1, SizeAssumption DEF IndInv, TypeOK, Numbers, OwnerOf
<1>2. ASSUME t \notin Taken PROVE OwnerOf(t) = null
    BY <1>2 DEF OwnerOf
<1> QED
    BY <1>1, <1>2

\* PlaceIsTaken as a formula of one state, to be used of the next one.
PlaceOwner ==
    \A i \in Numbers : i < cnt => OwnerOf(index2obj[i].seq) = index2obj[i].who

LEMMA PlaceOwners == IndInv => PlaceOwner
BY PlaceIsTaken DEF PlaceOwner

\* newSeq takes the next number and leaves every other owner alone.
LEMMA NewOwners ==
    ASSUME IndInv, IndInv', NEW who \in Owners, New(who), NEW t \in Numbers
    PROVE  OwnerOf(t)' = IF t = NextSeq THEN who ELSE OwnerOf(t)
<1>1. /\ cnt \in Numbers /\ NextSeq \in Numbers /\ NextSeq \notin Taken
      /\ index2obj' = [index2obj EXCEPT ![cnt] = [who |-> who, seq |-> NextSeq]]
      /\ cnt' = cnt + 1
    BY SizeAssumption DEF New, newSeq, Full, IndInv, TypeOK, Numbers, NextSeq
<1>2. ASSUME NEW i \in Numbers, i < cnt'
      PROVE  OwnerOf(index2obj[i].seq)' = index2obj'[i].who
    <2>1. PlaceOwner'
        BY PlaceOwners, PTL
    <2> QED
        BY <1>2, <2>1 DEF PlaceOwner
<1>3. CASE t = NextSeq
    <2>1. index2obj'[cnt] = [who |-> who, seq |-> NextSeq] /\ cnt < cnt'
        BY <1>1 DEF IndInv, TypeOK, Numbers
    <2> QED
        BY <2>1, <1>1, <1>2, <1>3
<1>4. CASE t # NextSeq /\ t \in Taken
    <2>1. /\ seq2index[t] \in Numbers /\ seq2index[t] < cnt
          /\ index2obj[seq2index[t]].seq = t
          /\ OwnerOf(t) = index2obj[seq2index[t]].who
        BY <1>4, OwnerIs
    <2>2. index2obj'[seq2index[t]] = index2obj[seq2index[t]] /\ seq2index[t] < cnt'
        BY <2>1, <1>1 DEF IndInv, TypeOK, Numbers
    <2> QED
        BY <2>1, <2>2, <1>2, <1>4
<1>5. CASE t # NextSeq /\ t \notin Taken
    <2>1. ASSUME NEW i \in 0..(cnt' - 1) PROVE index2obj'[i].seq # t
        <3>1. i \in Numbers /\ (i = cnt \/ i \in 0..(cnt - 1))
            BY <1>1, SizeAssumption DEF Numbers, IndInv, TypeOK
        <3>2. CASE i # cnt
            <4>1. index2obj[i].seq \in Taken
                BY <3>1, <3>2, <1>1, PlaceIsTaken DEF Numbers
            <4> QED
                BY <4>1, <3>1, <3>2, <1>1, <1>5 DEF IndInv, TypeOK
        <3> QED
            BY <3>1, <3>2, <1>1, <1>5 DEF IndInv, TypeOK
    <2>2. t \notin Taken'
        BY <2>1 DEF Taken
    <2> QED
        BY <2>2, <1>5 DEF OwnerOf
<1> QED
    BY <1>3, <1>4, <1>5

\* delSeq gives back one number and leaves every other owner alone, the one
\* whose object it moves included.
LEMMA DelOwners ==
    ASSUME IndInv, IndInv', NEW s \in Numbers, Del(s), NEW t \in Numbers
    PROVE  OwnerOf(t)' = IF t = s THEN null ELSE OwnerOf(t)
<1> DEFINE index == seq2index[s]
           last  == cnt - 1
<1>1. /\ cnt \in 1..UserMgrMax /\ index \in 0..last /\ index2obj[index].seq = s
      /\ index2obj[last] \in Objects /\ cnt' = last
      /\ index2obj' = [i \in Numbers |->
            IF i = last THEN null
            ELSE IF i = index THEN index2obj[last] ELSE index2obj[i]]
    BY DelStep
<1> HIDE DEF index, last
<1>2. last \in Numbers /\ index \in Numbers /\ last = cnt - 1 /\ last < cnt /\ index < cnt
    BY <1>1, SizeAssumption DEF Numbers, last
<1>3. ASSUME NEW i \in Numbers, i < last
      PROVE  OwnerOf(index2obj[i].seq)' = index2obj'[i].who
    <2>1. PlaceOwner'
        BY PlaceOwners, PTL
    <2> QED
        BY <1>3, <1>1, <2>1 DEF PlaceOwner
<1>4. CASE t = s
    <2>1. ASSUME NEW i \in 0..(cnt' - 1) PROVE index2obj'[i].seq # s
        <3>1. i \in Numbers /\ i < last /\ i < cnt /\ i # last
            BY <1>1, <1>2, SizeAssumption DEF Numbers
        <3>2. /\ seq2index[index2obj[i].seq] = i
              /\ seq2index[index2obj[last].seq] = last
              /\ seq2index[s] = index
            BY <3>1, <1>2, PlaceIsTaken DEF index
        <3> QED
            BY <3>1, <3>2, <1>1
    <2>2. s \notin Taken'
        BY <2>1 DEF Taken
    <2> QED
        BY <2>2, <1>4 DEF OwnerOf
<1>5. CASE t # s /\ t \in Taken
    <2>1. /\ seq2index[t] \in Numbers /\ seq2index[t] < cnt
          /\ index2obj[seq2index[t]].seq = t
          /\ OwnerOf(t) = index2obj[seq2index[t]].who
        BY <1>5, OwnerIs
    <2>2. seq2index[t] # index
        BY <2>1, <1>1, <1>5
    <2>3. CASE seq2index[t] = last
        <3>1. index < last /\ index2obj'[index] = index2obj[last]
            BY <2>2, <2>3, <1>1, <1>2 DEF Numbers
        <3> QED
            BY <3>1, <2>1, <2>3, <1>2, <1>3, <1>5
    <2>4. CASE seq2index[t] # last
        <3>1. /\ seq2index[t] < last
              /\ index2obj'[seq2index[t]] = index2obj[seq2index[t]]
            BY <2>1, <2>2, <2>4, <1>1, <1>2 DEF Numbers
        <3> QED
            BY <3>1, <2>1, <1>3, <1>5
    <2> QED
        BY <2>3, <2>4
<1>6. CASE t # s /\ t \notin Taken
    <2>1. ASSUME NEW i \in 0..(cnt' - 1) PROVE index2obj'[i].seq # t
        <3>1. i \in Numbers /\ i < last
            BY <1>1, <1>2, SizeAssumption DEF Numbers
        <3>2. i \in 0..(cnt - 1) /\ last \in 0..(cnt - 1) /\ i # last
            BY <3>1, <1>1, <1>2 DEF Numbers
        <3>3. index2obj[i].seq # t /\ index2obj[last].seq # t
            <4>1. index2obj[i].seq \in Taken /\ index2obj[last].seq \in Taken
                BY <3>1, <3>2, <1>1, <1>2, PlaceIsTaken
            <4> QED
                BY <4>1, <1>6
        <3> QED
            BY <3>1, <3>2, <3>3, <1>1
    <2>2. t \notin Taken'
        BY <2>1 DEF Taken
    <2> QED
        BY <2>2, <1>6 DEF OwnerOf
<1> QED
    BY <1>4, <1>5, <1>6

\* The table of server.js implements SeqMap: newSeq and delSeq, with all the
\* moving of objects between places, act on the numbers as a map would.
THEOREM TableImplementsMap == Spec => ImplementsMap
<1> DEFINE owners == [s \in Numbers |-> OwnerOf(s)]
<1>1. Init => Map!Init
    <2> SUFFICES ASSUME Init, NEW s \in Numbers PROVE OwnerOf(s) = null
        BY DEF Map!Init
    <2>1. IndInv
        BY InitIndInv
    <2>2. s \notin Taken
        BY DEF Init, Taken
    <2> QED
        BY <2>1, <2>2, OwnerIs
<1>2. IndInv /\ IndInv' /\ [Next]_vars => [Map!Next]_owners
    <2> SUFFICES ASSUME IndInv, IndInv', [Next]_vars
                 PROVE  Map!Next \/ owners' = owners
        OBVIOUS
    <2>1. ASSUME NEW who \in Owners, New(who) PROVE Map!New(who)
        <3>1. NextSeq \in Numbers /\ NextSeq \notin Taken
            BY <2>1, SizeAssumption DEF New, IndInv, TypeOK, Numbers, NextSeq
        <3>2. OwnerOf(NextSeq) = null
            BY <3>1, OwnerIs
        <3>3. \A t \in Numbers : OwnerOf(t)' = IF t = NextSeq THEN who ELSE OwnerOf(t)
            BY <2>1, NewOwners
        <3>4. owners' = [owners EXCEPT ![NextSeq] = who]
            BY <3>1, <3>3
        <3> QED
            BY <3>1, <3>2, <3>4 DEF Map!New
    <2>2. ASSUME NEW s \in Numbers, Del(s) PROVE Map!Del(s)
        <3>1. s \in Taken
            BY <2>2 DEF Del
        <3>2. /\ seq2index[s] \in Numbers /\ seq2index[s] < cnt
              /\ OwnerOf(s) = index2obj[seq2index[s]].who
            BY <3>1, OwnerIs
        <3>3. OwnerOf(s) # null
            BY <3>2, PlaceIsTaken, NullAssumption DEF Objects
        <3>4. \A t \in Numbers : OwnerOf(t)' = IF t = s THEN null ELSE OwnerOf(t)
            BY <2>2, DelOwners
        <3>5. owners' = [owners EXCEPT ![s] = null]
            BY <3>4
        <3> QED
            BY <3>3, <3>5 DEF Map!Del
    <2>3. CASE UNCHANGED vars
        <3>1. \A t \in Numbers : OwnerOf(t)' = OwnerOf(t)
            BY <2>3 DEF vars, OwnerOf, getBySeq, Taken
        <3> QED
            BY <3>1
    <2> QED
        BY <2>1, <2>2, <2>3 DEF Next, Map!Next
<1> QED
    BY <1>1, <1>2, TableIndInv, PTL DEF Spec, ImplementsMap, Map!Spec, owners
===============================================================================
