------------------------ MODULE ActivityIngestProofs ------------------------
(***************************************************************************)
(* Theorems about ActivityIngest, for every finite set of users and of     *)
(* overlapping flushes, and any sets of events, requests and updates.      *)
(***************************************************************************)
EXTENDS ActivityIngest, FiniteSetTheorems, FunctionTheorems, SequenceTheorems,
        WellFoundedInduction, TLAPS

-----------------------------------------------------------------------------
(* The inductive invariant.  Its parts about the buffer are stated for any *)
(* map, arrays and cycles, and for the cycles C only: FlushNext is handed  *)
(* a state in which the cycle that goes on does not hold anything.         *)

Cycle == [user : Users \cup {Nobody}, array : Arrays \cup {NoArray},
          batch : SUBSET Events, stored : BOOLEAN, crossed : BOOLEAN,
          todo : SUBSET Users]

\* The buffer has its type.
BufferTyped(ks, ent, con, cyc) ==
  /\ ks \in Seq(Users)
  /\ ent \in [Users -> Arrays \cup {NoArray}]
  /\ con \in [Arrays -> SUBSET Events]
  /\ cyc \in [Cycles -> Cycle]

\* The users of the map are those with an array, each once and with his own.
MapOK(ks, ent) ==
  /\ \A u \in Users : ent[u] # NoArray <=> \E i \in DOMAIN ks : ks[i] = u
  /\ \A i, j \in DOMAIN ks : ks[i] = ks[j] => i = j
  /\ \A u, v \in Users : ent[u] = ent[v] => u = v \/ ent[u] = NoArray

\* A running cycle holds an array, that of the map unless it was overlapped; and
\* all but one of several for the same user were.  (All of them were, in fact:
\* a cycle that begins marks the others.)
CyclesOK(ent, cyc, C) ==
  /\ \A c \in C : cyc[c].user = Nobody => cyc[c] = Idle
  /\ \A c \in C : cyc[c].user # Nobody =>
       cyc[c].array \in Arrays /\ (~ cyc[c].crossed => ent[cyc[c].user] = cyc[c].array)
  /\ \A c, d \in C :
       c # d /\ cyc[c].user = cyc[d].user /\ cyc[c].user # Nobody => cyc[c].crossed

\* An event is in one array or in one batch.
Apart(con, cyc, C) ==
  /\ \A a, b \in Arrays : con[a] \cap con[b] # {} => a = b
  /\ \A c, d \in C : cyc[c].batch \cap cyc[d].batch # {} => c = d
  /\ \A a \in Arrays, c \in C : con[a] \cap cyc[c].batch = {}

\* An event that waits, or is in a batch, was sent, and is in the database only
\* when a write was reported failed, or when it is the batch's own write.
CountedOK(con, cyc, C, failed) ==
  /\ \A a \in Arrays : \A e \in con[a] : e \in sent /\ (copies[e] > 0 => e \in failed)
  /\ \A c \in C : \A e \in cyc[c].batch :
       /\ e \in sent
       /\ IF cyc[c].stored THEN copies[e] > 0 ELSE copies[e] > 0 => e \in failed

\* A request is somebody's, and holds events that nothing else holds.
RequestsOK ==
  /\ \A r \in Requests : IF req[r].pc = "free" THEN req[r] = Free ELSE req[r].user \in Users
  /\ \A r, q \in Requests : req[r].events \cap req[q].events # {} => r = q
  /\ \A r \in Requests : \A e \in req[r].events :
       /\ e \in sent /\ copies[e] = 0
       /\ \A a \in Arrays : e \notin content[a]
       /\ \A c \in Cycles : e \notin cycle[c].batch

HistoryOK ==
  /\ \A e \in Events : copies[e] > 0 => e \in sent
  /\ \A e \in Events : copies[e] > 1 => e \in unsure

\* The rest of TypeOK.
RestTyped ==
  /\ copies \in [Events -> 0 .. 2]
  /\ config \in [Users -> Setting \cup {"none"}]
  /\ cache \in [Users -> Setting \cup {"none"}]
  /\ req \in [Requests -> [pc : {"free", "find", "use"}, user : Users \cup {Nobody},
                           events : SUBSET Events, row : Setting \cup {"none"}]]
  /\ update \in [Admins -> Users \cup {Nobody}]
  /\ sent \subseteq Events /\ unsure \subseteq Events
  /\ excused \subseteq Users

\* The buffer, the cycles and the events in them are in order.
BufferOK ==
  /\ BufferTyped(keys, entry, content, cycle)
  /\ MapOK(keys, entry)
  /\ CyclesOK(entry, cycle, Cycles)
  /\ Apart(content, cycle, Cycles)
  /\ CountedOK(content, cycle, Cycles, unsure)

IInv == BufferOK /\ RestTyped /\ RequestsOK /\ HistoryOK

-----------------------------------------------------------------------------
(* Arrays, and the order of the map.                                       *)

\* There is an array for a user who is new to the map.
LEMMA UnusedArray ==
  ASSUME BufferTyped(keys, entry, content, cycle), NEW u \in Users, entry[u] = NoArray
  PROVE  Unused # {}
<1> DEFINE E == {entry[v] : v \in Users \ {u}}
           H == {cycle[c].array : c \in Cycles}
<1>1. /\ IsFiniteSet(Users \ {u})
      /\ Cardinality(Users) \in Nat /\ Cardinality(Cycles) \in Nat
      /\ Cardinality(Users \ {u}) = Cardinality(Users) - 1
  BY SmallAssumption, FS_RemoveElement, FS_CardinalityType
<1>2. IsFiniteSet(E) /\ Cardinality(E) <= Cardinality(Users) - 1
  <2>1. [v \in Users \ {u} |-> entry[v]] \in Surjection(Users \ {u}, E)
    BY DEF Surjection
  <2> HIDE DEF E
  <2> QED BY <1>1, <2>1, FS_Surjection
<1>3. IsFiniteSet(H) /\ Cardinality(H) <= Cardinality(Cycles)
  <2>1. [c \in Cycles |-> cycle[c].array] \in Surjection(Cycles, H)
    BY DEF Surjection
  <2> HIDE DEF H
  <2> QED BY <1>1, <2>1, SmallAssumption, FS_Surjection
<1>4. IsFiniteSet(E \cup H) /\ Cardinality(E \cup H) < Cardinality(Users) + Cardinality(Cycles)
  <2> HIDE DEF E, H
  <2>1. /\ IsFiniteSet(E \cup H)
        /\ Cardinality(E \cup H) = Cardinality(E) + Cardinality(H) - Cardinality(E \cap H)
    BY <1>2, <1>3, FS_Union
  <2>2. IsFiniteSet(E \cap H)
    BY <1>2, FS_Subset
  <2>3. Cardinality(E) \in Nat /\ Cardinality(H) \in Nat /\ Cardinality(E \cap H) \in Nat
    BY <1>2, <1>3, <2>2, FS_CardinalityType
  <2> QED BY <1>1, <1>2, <1>3, <2>1, <2>3
<1>5. Cardinality(Arrays) = Cardinality(Users) + Cardinality(Cycles)
  BY <1>1, FS_Interval DEF Arrays
<1>6. ~ (Arrays \subseteq E \cup H)
  <2> HIDE DEF E, H
  <2> SUFFICES ASSUME Arrays \subseteq E \cup H PROVE FALSE
    OBVIOUS
  <2>1. Cardinality(Arrays) <= Cardinality(E \cup H)
    BY <1>4, FS_Subset
  <2>2. Cardinality(E \cup H) \in Nat
    BY <1>4, FS_CardinalityType
  <2> QED BY <1>1, <1>4, <1>5, <2>1, <2>2
<1>7. NoArray \notin Arrays
  BY <1>1, NoneAssumption DEF Arrays
<1>8. {entry[v] : v \in Users} \subseteq E \cup {NoArray}
  OBVIOUS
<1>9. PICK a \in Arrays : a \notin E \cup H
  BY <1>6
<1> QED BY <1>7, <1>8, <1>9 DEF Unused

\* A set of positions has a first one.
LEMMA FirstPosition ==
  ASSUME NEW S \in SUBSET Nat, S # {}
  PROVE  \E i \in S : \A j \in S : i <= j
<1> DEFINE R == {p \in Nat \X Nat : p[1] < p[2]}
<1>1. IsWellFoundedOn(R, Nat)
  BY NatLessThanWellFounded DEF OpToRel
<1>2. PICK i \in S : \A j \in S : <<j, i>> \notin R
  <2> HIDE DEF R
  <2> QED BY <1>1, WFMin
<1>3. \A j \in S : ~ (j < i)
  BY <1>2
<1> QED BY <1>3

\* RemoveAt closes the gap.
LEMMA RemoveAtProperties ==
  ASSUME NEW S, NEW s \in Seq(S), NEW at \in 1 .. Len(s)
  PROVE  /\ RemoveAt(s, at) \in Seq(S)
         /\ DOMAIN RemoveAt(s, at) = 1 .. Len(s) - 1
         /\ \A i \in 1 .. Len(s) - 1 :
              RemoveAt(s, at)[i] = IF i < at THEN s[i] ELSE s[i + 1]
<1> DEFINE n == Len(s)
           left == SubSeq(s, 1, at - 1)
           right == SubSeq(s, at + 1, n)
           new == left \o right
<1>1. n \in Nat /\ at \in Nat /\ 1 <= at /\ at <= n /\ \A i \in 1 .. n : s[i] \in S
  BY LenProperties, ElementOfSeq
<1> HIDE DEF n
<1>2. left \in Seq(S) /\ Len(left) = at - 1 /\ \A i \in 1 .. at - 1 : left[i] = s[i]
  <2>1. \A i \in 1 .. at - 1 : s[i] \in S
    BY <1>1
  <2>2. 1 \in Int /\ at - 1 \in Int
    BY <1>1
  <2>3. /\ left \in Seq(S)
        /\ Len(left) = IF 1 <= at - 1 THEN (at - 1) - 1 + 1 ELSE 0
        /\ \A i \in 1 .. (at - 1) - 1 + 1 : left[i] = s[1 + i - 1]
    BY <2>1, <2>2, SubSeqProperties
  <2> HIDE DEF left
  <2> QED BY <1>1, <2>3
<1>3. right \in Seq(S) /\ Len(right) = n - at /\ \A i \in 1 .. n - at : right[i] = s[at + i]
  <2>1. \A i \in at + 1 .. n : s[i] \in S
    BY <1>1
  <2>2. at + 1 \in Int /\ n \in Int
    BY <1>1
  <2>3. /\ right \in Seq(S)
        /\ Len(right) = IF at + 1 <= n THEN n - (at + 1) + 1 ELSE 0
        /\ \A i \in 1 .. n - (at + 1) + 1 : right[i] = s[(at + 1) + i - 1]
    BY <2>1, <2>2, SubSeqProperties
  <2> HIDE DEF right
  <2> QED BY <1>1, <2>3
<1> HIDE DEF left, right
<1>4. /\ new \in Seq(S) /\ Len(new) = Len(left) + Len(right)
      /\ \A i \in 1 .. Len(left) + Len(right) :
           new[i] = IF i <= Len(left) THEN left[i] ELSE right[i - Len(left)]
  BY <1>2, <1>3, ConcatProperties
<1>5. DOMAIN new = 1 .. Len(new)
  BY <1>4, LenProperties
<1>6. RemoveAt(s, at) = new
  BY DEF RemoveAt, new, left, right, n
<1> HIDE DEF new
<1>7. Len(new) = n - 1
  BY <1>1, <1>2, <1>3, <1>4
<1>8. ASSUME NEW i \in 1 .. n - 1 PROVE new[i] = IF i < at THEN s[i] ELSE s[i + 1]
  <2>0. new[i] = IF i <= at - 1 THEN left[i] ELSE right[i - (at - 1)]
    BY <1>1, <1>2, <1>3, <1>4
  <2>1. CASE i < at
    BY <1>1, <1>2, <2>0, <2>1
  <2>2. CASE ~ (i < at)
    <3>1. i - (at - 1) \in 1 .. n - at /\ ~ (i <= at - 1)
      BY <1>1, <2>2
    <3>2. right[i - (at - 1)] = s[at + (i - (at - 1))]
      BY <1>3, <3>1
    <3>3. at + (i - (at - 1)) = i + 1
      BY <1>1
    <3> QED BY <2>0, <2>2, <3>1, <3>2, <3>3
  <2> QED BY <2>1, <2>2
<1> QED BY <1>4, <1>5, <1>6, <1>7, <1>8 DEF n

\* Deleting a user leaves the others in the map.
LEMMA DeleteProperties ==
  ASSUME NEW ks \in Seq(Users), NEW u \in Users,
         \A i, j \in DOMAIN ks : ks[i] = ks[j] => i = j
  PROVE  /\ Delete(ks, u) \in Seq(Users)
         /\ \A i, j \in DOMAIN Delete(ks, u) : Delete(ks, u)[i] = Delete(ks, u)[j] => i = j
         /\ \A v : (\E i \in DOMAIN Delete(ks, u) : Delete(ks, u)[i] = v) <=>
                     v # u /\ \E i \in DOMAIN ks : ks[i] = v
<1>1. CASE ~ \E i \in DOMAIN ks : ks[i] = u
  <2>1. Delete(ks, u) = ks
    BY <1>1 DEF Delete
  <2> QED BY <1>1, <2>1
<1>2. CASE \E i \in DOMAIN ks : ks[i] = u
  <2> DEFINE n == Len(ks)
             new == Delete(ks, u)
  <2>1. n \in Nat /\ DOMAIN ks = 1 .. n
    BY LenProperties
  <2>2. PICK at \in 1 .. n : ks[at] = u /\ new = RemoveAt(ks, at)
    BY <1>2, <2>1 DEF Delete
  <2>3. /\ new \in Seq(Users) /\ DOMAIN new = 1 .. n - 1
        /\ \A i \in 1 .. n - 1 : new[i] = IF i < at THEN ks[i] ELSE ks[i + 1]
    BY <2>2, RemoveAtProperties
  <2>a. \A i, j \in 1 .. n : ks[i] = ks[j] => i = j
    BY <2>1
  <2> HIDE DEF new, n
  <2>4. ASSUME NEW i \in 1 .. n - 1
        PROVE  \E k \in 1 .. n : k # at /\ new[i] = ks[k] /\ k = IF i < at THEN i ELSE i + 1
    <3>1. (IF i < at THEN i ELSE i + 1) \in 1 .. n /\ (IF i < at THEN i ELSE i + 1) # at
      BY <2>1, <2>2
    <3> QED BY <2>3, <3>1
  <2>5. ASSUME NEW i \in 1 .. n - 1, NEW j \in 1 .. n - 1, new[i] = new[j]
        PROVE  i = j
    <3>1. PICK k \in 1 .. n : new[i] = ks[k] /\ k = IF i < at THEN i ELSE i + 1
      BY <2>4
    <3>2. PICK m \in 1 .. n : new[j] = ks[m] /\ m = IF j < at THEN j ELSE j + 1
      BY <2>4
    <3>3. k = m
      BY <2>5, <2>a, <3>1, <3>2
    <3> QED BY <2>1, <2>2, <3>1, <3>2, <3>3
  <2>6. ASSUME NEW v, NEW i \in 1 .. n - 1, new[i] = v
        PROVE  v # u /\ \E j \in 1 .. n : ks[j] = v
    BY <2>2, <2>4, <2>6, <2>a
  <2>7. ASSUME NEW v, NEW i \in 1 .. n, ks[i] = v, v # u
        PROVE  \E j \in 1 .. n - 1 : new[j] = v
    <3>1. i # at
      BY <2>2, <2>7
    <3>2. CASE i < at
      <4>1. i \in 1 .. n - 1
        BY <2>1, <2>2, <3>2
      <4> QED BY <2>3, <2>7, <3>2, <4>1
    <3>3. CASE ~ (i < at)
      <4>1. i - 1 \in 1 .. n - 1 /\ ~ (i - 1 < at) /\ (i - 1) + 1 = i
        BY <2>1, <2>2, <3>1, <3>3
      <4>2. new[i - 1] = ks[i]
        BY <2>3, <4>1
      <4> QED BY <2>7, <4>1, <4>2
    <3> QED BY <3>2, <3>3
  <2> QED BY <2>1, <2>3, <2>5, <2>6, <2>7 DEF new
<1> QED BY <1>1, <1>2

-----------------------------------------------------------------------------
(* Flushes.                                                                *)

\* Cycle c drains the array of u, whose turn it is.
Takes(c, u, ks, ent, con, cyc) ==
  /\ u \in Users /\ u \in cyc[c].todo /\ \E i \in DOMAIN ks : ks[i] = u
  /\ ent[u] \in Arrays
  /\ cycle' \in [Cycles -> Cycle]
  /\ cycle'[c].user = u /\ cycle'[c].array = ent[u] /\ cycle'[c].batch = con[ent[u]]
  /\ ~ cycle'[c].stored
  /\ cycle'[c].crossed <=> \E d \in Cycles \ {c} : cyc[d].user = u
  /\ u \notin cycle'[c].todo
  /\ \A d \in Cycles \ {c} :
       cycle'[d] = IF cyc[d].user = u THEN [cyc[d] EXCEPT !.crossed = TRUE] ELSE cyc[d]
  /\ content' \in [Arrays -> SUBSET Events]
  /\ content'[ent[u]] = {}
  /\ \A a \in Arrays : content'[a] \subseteq con[a]
  /\ \A v \in Users : ent[v] # ent[u] /\ ent[v] \in Arrays => content'[ent[v]] = con[ent[v]]

\* Cycle c has come to the end of the map.
Ends(c, ent, con, cyc) ==
  /\ cycle' = [cyc EXCEPT ![c] = Idle]
  /\ content' \in [Arrays -> SUBSET Events]
  /\ \A a \in Arrays : content'[a] \subseteq con[a]
  /\ \A v \in Users : ent[v] \in Arrays => content'[ent[v]] = con[ent[v]]

\* FlushNext does the one or the other.
LEMMA FlushNextCases ==
  ASSUME NEW c \in Cycles, NEW ks, NEW ent, NEW con, NEW cyc,
         BufferTyped(ks, ent, con, cyc), MapOK(ks, ent), FlushNext(c, ks, ent, con, cyc)
  PROVE  /\ keys' = ks /\ entry' = ent
         /\ Ends(c, ent, con, cyc) \/ \E u \in Users : Takes(c, u, ks, ent, con, cyc)
<1> DEFINE todo == cyc[c].todo
           ready == {i \in DOMAIN ks : ks[i] \in todo /\ HasEvents(ks[i], ent, con)}
<1>1. keys' = ks /\ entry' = ent
  BY DEF FlushNext
<1>2. CASE ready = {}
  <2>1. cycle' = [cyc EXCEPT ![c] = Idle] /\ content' = Reachable(ent, cycle', con)
    BY <1>2 DEF FlushNext
  <2>2. Ends(c, ent, con, cyc)
    BY <2>1 DEF Ends, Reachable, BufferTyped
  <2> QED BY <1>1, <2>2
<1>3. CASE ready # {}
  <2> DEFINE i == CHOOSE i \in ready : \A j \in ready : i <= j
             u == ks[i]
             others == {d \in Cycles \ {c} : cyc[d].user = u}
  <2>1. i \in ready
    <3>1. ready \in SUBSET Nat
      BY LenProperties DEF BufferTyped
    <3> HIDE DEF ready
    <3>2. \E m \in ready : \A j \in ready : m <= j
      BY <1>3, <3>1, FirstPosition
    <3> QED BY <3>2
  <2>2. /\ cycle' = [d \in Cycles |->
             CASE d = c -> [user |-> u, array |-> ent[u], batch |-> con[ent[u]],
                            stored |-> FALSE, crossed |-> others # {},
                            todo |-> todo \ {ks[j] : j \in 1 .. i}]
               [] d \in others -> [cyc[d] EXCEPT !.crossed = TRUE]
               [] OTHER -> cyc[d]]
        /\ content' = Reachable(ent, cycle', Drained(ent[u], con))
    BY <1>3 DEF FlushNext
  <2>3. /\ u \in Users /\ u \in todo /\ \E k \in DOMAIN ks : ks[k] = u
        /\ i \in 1 .. i
    <3>1. i \in DOMAIN ks /\ i \in 1 .. Len(ks) /\ Len(ks) \in Nat
      BY <2>1, LenProperties DEF BufferTyped
    <3>2. ks[i] \in Users
      BY <3>1, ElementOfSeq DEF BufferTyped
    <3>3. u \in todo
      BY <2>1
    <3> HIDE DEF i, ready
    <3>4. \E k \in DOMAIN ks : ks[k] = u
      BY <3>1
    <3>5. i \in 1 .. i
      BY <3>1
    <3> QED BY <3>2, <3>3, <3>4, <3>5
  <2> HIDE DEF i, ready
  <2>4. ent[u] \in Arrays
    BY <2>3 DEF BufferTyped, MapOK
  <2>5. u \notin todo \ {ks[j] : j \in 1 .. i}
    BY <2>3
  <2> DEFINE left == todo \ {ks[j] : j \in 1 .. i}
  <2>6. left \subseteq todo /\ u \notin left
    BY <2>5
  <2> HIDE DEF left
  <2>7. cycle' = [d \in Cycles |->
             CASE d = c -> [user |-> u, array |-> ent[u], batch |-> con[ent[u]],
                            stored |-> FALSE, crossed |-> others # {}, todo |-> left]
               [] d \in others -> [cyc[d] EXCEPT !.crossed = TRUE]
               [] OTHER -> cyc[d]]
    BY <2>2 DEF left
  <2> HIDE DEF u
  <2>8. /\ cycle'[c] = [user |-> u, array |-> ent[u], batch |-> con[ent[u]],
                        stored |-> FALSE, crossed |-> others # {}, todo |-> left]
        /\ \A d \in Cycles \ {c} :
             cycle'[d] = IF cyc[d].user = u THEN [cyc[d] EXCEPT !.crossed = TRUE] ELSE cyc[d]
        /\ DOMAIN cycle' = Cycles
    BY <2>7
  <2>9. cycle'[c] \in Cycle
    BY <2>3, <2>4, <2>6, <2>8 DEF BufferTyped, Cycle
  <2>10. ASSUME NEW d \in Cycles \ {c} PROVE cycle'[d] \in Cycle
    <3>1. cyc[d] \in Cycle
      BY DEF BufferTyped
    <3>2. cycle'[d] = cyc[d] \/ cycle'[d] = [cyc[d] EXCEPT !.crossed = TRUE]
      BY <2>8
    <3> QED BY <3>1, <3>2 DEF Cycle
  <2>11. cycle' \in [Cycles -> Cycle]
    BY <2>7, <2>9, <2>10
  <2>12. /\ content' \in [Arrays -> SUBSET Events]
         /\ content'[ent[u]] = {}
         /\ \A a \in Arrays : content'[a] \subseteq con[a]
         /\ \A v \in Users : ent[v] # ent[u] /\ ent[v] \in Arrays =>
              content'[ent[v]] = con[ent[v]]
    BY <2>2, <2>4 DEF BufferTyped, Reachable, Drained, u
  <2>13. /\ cycle'[c].user = u /\ cycle'[c].array = ent[u] /\ cycle'[c].batch = con[ent[u]]
         /\ ~ cycle'[c].stored /\ cycle'[c].todo = left
         /\ cycle'[c].crossed = (others # {})
    <3> HIDE DEF others
    <3> QED BY <2>8
  <2>14. Takes(c, u, ks, ent, con, cyc)
    BY <2>3, <2>4, <2>6, <2>8, <2>11, <2>12, <2>13 DEF Takes
  <2> QED BY <1>1, <2>3, <2>14
<1> QED BY <1>2, <1>3

\* What FlushNext is handed in good order it leaves in good order.
LEMMA FlushKeepsOrder ==
  ASSUME NEW c \in Cycles, NEW ks, NEW ent, NEW con, NEW cyc,
         BufferTyped(ks, ent, con, cyc), MapOK(ks, ent),
         CyclesOK(ent, cyc, Cycles \ {c}), FlushNext(c, ks, ent, con, cyc)
  PROVE  /\ BufferTyped(keys, entry, content, cycle)'
         /\ MapOK(keys, entry)'
         /\ CyclesOK(entry, cycle, Cycles)'
<1>1. keys' = ks /\ entry' = ent
  BY FlushNextCases
<1>2. MapOK(keys, entry)'
  BY <1>1 DEF MapOK
<1>3. CASE Ends(c, ent, con, cyc)
  <2>0. Idle \in Cycle
    BY DEF Idle, Cycle
  <2>1. /\ cycle' \in [Cycles -> Cycle] /\ cycle'[c] = Idle
        /\ \A d \in Cycles \ {c} : cycle'[d] = cyc[d]
    BY <1>3, <2>0 DEF Ends, BufferTyped
  <2>2. BufferTyped(keys, entry, content, cycle)'
    BY <1>1, <1>3, <2>1 DEF BufferTyped, Ends
  <2>3. CyclesOK(entry, cycle, Cycles)'
    BY <1>1, <2>1 DEF CyclesOK, Idle
  <2> QED BY <1>2, <2>2, <2>3
<1>4. ASSUME NEW u \in Users, Takes(c, u, ks, ent, con, cyc)
      PROVE  BufferTyped(keys, entry, content, cycle)' /\ CyclesOK(entry, cycle, Cycles)'
  <2>1. BufferTyped(keys, entry, content, cycle)'
    BY <1>1, <1>4 DEF BufferTyped, Takes
  <2>2. /\ cycle'[c].user = u /\ cycle'[c].array = ent[u] /\ ent[u] \in Arrays
        /\ u # Nobody
        /\ cycle'[c].crossed <=> \E d \in Cycles \ {c} : cyc[d].user = u
    BY <1>4, NoneAssumption DEF Takes
  <2>3. ASSUME NEW d \in Cycles \ {c}
        PROVE  /\ cycle'[d].user = cyc[d].user /\ cycle'[d].array = cyc[d].array
               /\ cycle'[d].crossed <=> cyc[d].crossed \/ cyc[d].user = u
               /\ cyc[d].user = Nobody => cycle'[d] = cyc[d]
    <3>1. cyc[d] \in Cycle
      BY DEF BufferTyped
    <3>2. CASE cyc[d].user = u
      <4>1. cycle'[d] = [cyc[d] EXCEPT !.crossed = TRUE]
        BY <1>4, <3>2 DEF Takes
      <4> QED BY <2>2, <3>1, <3>2, <4>1 DEF Cycle
    <3>3. CASE cyc[d].user # u
      <4>1. cycle'[d] = cyc[d]
        BY <1>4, <3>3 DEF Takes
      <4> QED BY <3>3, <4>1
    <3> QED BY <3>2, <3>3
  <2>4. \A d \in Cycles : cycle'[d].user = Nobody => cycle'[d] = Idle
    BY <2>2, <2>3 DEF CyclesOK
  <2>5. \A d \in Cycles : cycle'[d].user # Nobody =>
          /\ cycle'[d].array \in Arrays
          /\ ~ cycle'[d].crossed => ent[cycle'[d].user] = cycle'[d].array
    BY <2>2, <2>3 DEF CyclesOK
  <2>6. \A d, b \in Cycles :
          d # b /\ cycle'[d].user = cycle'[b].user /\ cycle'[d].user # Nobody => cycle'[d].crossed
    <3> SUFFICES ASSUME NEW d \in Cycles, NEW b \in Cycles, d # b,
                        cycle'[d].user = cycle'[b].user, cycle'[d].user # Nobody
                 PROVE  cycle'[d].crossed
      OBVIOUS
    <3>1. CASE d = c
      BY <2>2, <2>3, <3>1
    <3>2. CASE b = c
      BY <2>2, <2>3, <3>2
    <3>3. CASE d # c /\ b # c
      BY <2>3, <3>3 DEF CyclesOK
    <3> QED BY <3>1, <3>2, <3>3
  <2> QED BY <1>1, <2>1, <2>4, <2>5, <2>6 DEF CyclesOK
<1> QED BY <1>2, <1>3, <1>4, FlushNextCases

\* Where the events are after FlushNext: in the arrays and batches they were in, or
\* in the batch of c, taken out of its array.
LEMMA FlushMoves ==
  ASSUME NEW c \in Cycles, NEW ks, NEW ent, NEW con, NEW cyc,
         BufferTyped(ks, ent, con, cyc), MapOK(ks, ent), FlushNext(c, ks, ent, con, cyc)
  PROVE  /\ \A a \in Arrays : content'[a] \subseteq con[a]
         /\ \A d \in Cycles \ {c} :
              cycle'[d].batch = cyc[d].batch /\ cycle'[d].stored = cyc[d].stored
         /\ \/ cycle'[c] = Idle
            \/ /\ ~ cycle'[c].stored
               /\ \E a \in Arrays : cycle'[c].batch = con[a] /\ content'[a] = {}
<1>1. CASE Ends(c, ent, con, cyc)
  <2>1. cycle'[c] = Idle /\ \A d \in Cycles \ {c} : cycle'[d] = cyc[d]
    BY <1>1 DEF Ends, BufferTyped
  <2> QED BY <1>1, <2>1 DEF Ends
<1>2. ASSUME NEW u \in Users, Takes(c, u, ks, ent, con, cyc)
      PROVE  /\ \A a \in Arrays : content'[a] \subseteq con[a]
             /\ \A d \in Cycles \ {c} :
                  cycle'[d].batch = cyc[d].batch /\ cycle'[d].stored = cyc[d].stored
             /\ ~ cycle'[c].stored
             /\ \E a \in Arrays : cycle'[c].batch = con[a] /\ content'[a] = {}
  <2>1. ASSUME NEW d \in Cycles \ {c}
        PROVE  cycle'[d].batch = cyc[d].batch /\ cycle'[d].stored = cyc[d].stored
    <3>1. cyc[d] \in Cycle
      BY DEF BufferTyped
    <3>2. cycle'[d] = cyc[d] \/ cycle'[d] = [cyc[d] EXCEPT !.crossed = TRUE]
      BY <1>2 DEF Takes
    <3> QED BY <3>1, <3>2 DEF Cycle
  <2> QED BY <1>2, <2>1 DEF Takes
<1> QED BY <1>1, <1>2, FlushNextCases

\* Hence events stay in one place each, and are counted.
LEMMA FlushKeepsEvents ==
  ASSUME NEW c \in Cycles, NEW ks, NEW ent, NEW con, NEW cyc, NEW failed,
         BufferTyped(ks, ent, con, cyc), MapOK(ks, ent), FlushNext(c, ks, ent, con, cyc),
         Apart(con, cyc, Cycles \ {c}), CountedOK(con, cyc, Cycles \ {c}, failed),
         UNCHANGED <<copies, sent>>, unsure' = failed
  PROVE  /\ Apart(content, cycle, Cycles)'
         /\ CountedOK(content, cycle, Cycles, unsure)'
<1>1. /\ \A a \in Arrays : content'[a] \subseteq con[a]
      /\ \A d \in Cycles \ {c} :
           cycle'[d].batch = cyc[d].batch /\ cycle'[d].stored = cyc[d].stored
      /\ \/ cycle'[c] = Idle
         \/ /\ ~ cycle'[c].stored
            /\ \E a \in Arrays : cycle'[c].batch = con[a] /\ content'[a] = {}
  BY FlushMoves
<1>2. CASE cycle'[c] = Idle
  <2>1. cycle'[c].batch = {} /\ cycle'[c].stored = FALSE
    BY <1>2 DEF Idle
  <2>2. Apart(content, cycle, Cycles)'
    BY <1>1, <2>1 DEF Apart
  <2>3. CountedOK(content, cycle, Cycles, unsure)'
    BY <1>1, <2>1 DEF CountedOK
  <2> QED BY <2>2, <2>3
<1>3. ASSUME NEW a \in Arrays, cycle'[c].batch = con[a], content'[a] = {}, ~ cycle'[c].stored
      PROVE  /\ Apart(content, cycle, Cycles)'
             /\ CountedOK(content, cycle, Cycles, unsure)'
  <2>1. Apart(content, cycle, Cycles)'
    <3>1. \A x, y \in Arrays : content'[x] \cap content'[y] # {} => x = y
      BY <1>1 DEF Apart
    <3>2. \A d, b \in Cycles : cycle'[d].batch \cap cycle'[b].batch # {} => d = b
      BY <1>1, <1>3 DEF Apart
    <3>3. \A x \in Arrays, d \in Cycles : content'[x] \cap cycle'[d].batch = {}
      BY <1>1, <1>3 DEF Apart
    <3> QED BY <3>1, <3>2, <3>3 DEF Apart
  <2>2. CountedOK(content, cycle, Cycles, unsure)'
    BY <1>1, <1>3 DEF CountedOK
  <2> QED BY <2>1, <2>2
<1> QED BY <1>1, <1>2, <1>3

-----------------------------------------------------------------------------
(* Batches.                                                                *)

\* A batch goes to an array of its user's: the one there is, or a new one.
LEMMA BufferCases ==
  ASSUME BufferTyped(keys, entry, content, cycle), MapOK(keys, entry),
         NEW u \in Users, NEW es \in SUBSET Events, BufferActivityEvents(u, es)
  PROVE  \/ /\ entry[u] \in Arrays
            /\ content' = [content EXCEPT ![entry[u]] = @ \cup es]
            /\ UNCHANGED <<keys, entry, cycle>>
         \/ /\ entry[u] = NoArray
            /\ \E a \in Unused :
                 entry' = [entry EXCEPT ![u] = a] /\ content' = [content EXCEPT ![a] = es]
            /\ keys' = Append(keys, u)
            /\ cycle' = [c \in Cycles |->
                 IF c \in Running THEN [cycle[c] EXCEPT !.todo = @ \cup {u}] ELSE cycle[c]]
<1>1. CASE entry[u] # NoArray
  BY <1>1 DEF BufferActivityEvents, BufferTyped
<1>2. CASE entry[u] = NoArray
  <2> DEFINE a == CHOOSE a \in Unused : TRUE
  <2>1. a \in Unused
    BY <1>2, UnusedArray
  <2>2. /\ keys' = Append(keys, u)
        /\ entry' = [entry EXCEPT ![u] = a]
        /\ content' = [content EXCEPT ![a] = es]
        /\ cycle' = [c \in Cycles |->
             IF c \in Running THEN [cycle[c] EXCEPT !.todo = @ \cup {u}] ELSE cycle[c]]
    BY <1>2 DEF BufferActivityEvents
  <2> QED BY <1>2, <2>1, <2>2
<1> QED BY <1>1, <1>2

\* The events of the batch are all that comes into the buffer.
LEMMA BufferAdds ==
  ASSUME BufferTyped(keys, entry, content, cycle), MapOK(keys, entry),
         NEW u \in Users, NEW es \in SUBSET Events, BufferActivityEvents(u, es)
  PROVE  /\ \E a \in Arrays :
              /\ content'[a] \subseteq content[a] \cup es
              /\ \A b \in Arrays \ {a} : content'[b] = content[b]
         /\ \A c \in Cycles :
              /\ cycle'[c].user = cycle[c].user /\ cycle'[c].array = cycle[c].array
              /\ cycle'[c].batch = cycle[c].batch /\ cycle'[c].stored = cycle[c].stored
              /\ cycle'[c].crossed = cycle[c].crossed
              /\ cycle[c].user = Nobody => cycle'[c] = cycle[c]
<1>1. Unused \subseteq Arrays
  BY DEF Unused
<1>2. ASSUME NEW c \in Cycles,
             cycle' = [d \in Cycles |->
               IF d \in Running THEN [cycle[d] EXCEPT !.todo = @ \cup {u}] ELSE cycle[d]]
      PROVE  /\ cycle'[c].user = cycle[c].user /\ cycle'[c].array = cycle[c].array
             /\ cycle'[c].batch = cycle[c].batch /\ cycle'[c].stored = cycle[c].stored
             /\ cycle'[c].crossed = cycle[c].crossed
             /\ cycle[c].user = Nobody => cycle'[c] = cycle[c]
             /\ cycle'[c] \in Cycle
  <2>1. cycle[c] \in Cycle
    BY DEF BufferTyped
  <2>2. CASE c \in Running
    <3>1. cycle'[c] = [cycle[c] EXCEPT !.todo = @ \cup {u}]
      BY <1>2, <2>2
    <3> QED BY <2>1, <2>2, <3>1 DEF Cycle, Running
  <2>3. CASE c \notin Running
    <3>1. cycle'[c] = cycle[c]
      BY <1>2, <2>3
    <3> QED BY <2>1, <3>1
  <2> QED BY <2>2, <2>3
<1>3. \E a \in Arrays :
        /\ content'[a] \subseteq content[a] \cup es
        /\ \A b \in Arrays \ {a} : content'[b] = content[b]
  BY <1>1, BufferCases DEF BufferTyped
<1> QED BY <1>2, <1>3, BufferCases

\* The map, the arrays and the cycles stay in order.
LEMMA BufferKeepsOrder ==
  ASSUME BufferTyped(keys, entry, content, cycle), MapOK(keys, entry),
         CyclesOK(entry, cycle, Cycles),
         NEW u \in Users, NEW es \in SUBSET Events, BufferActivityEvents(u, es)
  PROVE  /\ BufferTyped(keys, entry, content, cycle)'
         /\ MapOK(keys, entry)'
         /\ CyclesOK(entry, cycle, Cycles)'
<1>1. CASE /\ entry[u] \in Arrays
           /\ content' = [content EXCEPT ![entry[u]] = @ \cup es]
           /\ UNCHANGED <<keys, entry, cycle>>
  BY <1>1 DEF BufferTyped, MapOK, CyclesOK
<1>2. ASSUME NEW a \in Unused, entry[u] = NoArray,
             entry' = [entry EXCEPT ![u] = a], content' = [content EXCEPT ![a] = es],
             keys' = Append(keys, u),
             cycle' = [c \in Cycles |->
               IF c \in Running THEN [cycle[c] EXCEPT !.todo = @ \cup {u}] ELSE cycle[c]]
      PROVE  /\ BufferTyped(keys, entry, content, cycle)'
             /\ MapOK(keys, entry)'
             /\ CyclesOK(entry, cycle, Cycles)'
  <2>1. a \in Arrays /\ (\A v \in Users : entry[v] # a) /\ (\A c \in Cycles : cycle[c].array # a)
    BY DEF Unused
  <2>2. a # NoArray
    <3>1. Cardinality(Users) \in Nat /\ Cardinality(Cycles) \in Nat
      BY SmallAssumption, FS_CardinalityType
    <3> QED BY <2>1, <3>1, NoneAssumption DEF Arrays
  <2>3. \A c \in Cycles : cycle[c] \in Cycle
    BY DEF BufferTyped
  <2>4. ASSUME NEW c \in Cycles PROVE cycle'[c] \in Cycle
    BY <1>2, <2>3 DEF Cycle
  <2>5. keys' \in Seq(Users)
    BY <1>2, AppendProperties DEF BufferTyped
  <2>6. BufferTyped(keys, entry, content, cycle)'
    BY <1>2, <2>1, <2>4, <2>5 DEF BufferTyped
  <2> DEFINE n == Len(keys)
  <2>7. /\ n \in Nat /\ DOMAIN keys = 1 .. n /\ DOMAIN keys' = 1 .. n + 1
        /\ \A i \in 1 .. n : keys'[i] = keys[i]
        /\ keys'[n + 1] = u
    BY <1>2, <2>5, AppendProperties, LenProperties DEF BufferTyped
  <2>8. \A i \in 1 .. n : keys[i] # u
    BY <1>2, <2>7 DEF MapOK, BufferTyped
  <2> HIDE DEF n
  <2>9. MapOK(keys, entry)'
    <3>1. ASSUME NEW v \in Users
          PROVE  entry'[v] # NoArray <=> \E i \in 1 .. n + 1 : keys'[i] = v
      <4>1. CASE v = u
        <5>1. entry'[v] # NoArray
          BY <1>2, <2>2, <4>1 DEF BufferTyped
        <5>2. n + 1 \in 1 .. n + 1
          BY <2>7
        <5> QED BY <2>7, <4>1, <5>1, <5>2
      <4>2. CASE v # u
        <5>1. entry'[v] = entry[v]
          BY <1>2, <4>2 DEF BufferTyped
        <5>2. entry[v] # NoArray <=> \E i \in 1 .. n : keys[i] = v
          BY <2>7 DEF MapOK
        <5>3. (\E i \in 1 .. n + 1 : keys'[i] = v) <=> \E i \in 1 .. n : keys[i] = v
          <6>1. \A i \in 1 .. n + 1 : i \in 1 .. n \/ i = n + 1
            BY <2>7
          <6>2. \A i \in 1 .. n : i \in 1 .. n + 1
            BY <2>7
          <6> QED BY <2>7, <4>2, <6>1, <6>2
        <5> QED BY <5>1, <5>2, <5>3
      <4> QED BY <4>1, <4>2
    <3>2. ASSUME NEW i \in 1 .. n + 1, NEW j \in 1 .. n + 1, keys'[i] = keys'[j]
          PROVE  i = j
      <4>1. (i \in 1 .. n \/ i = n + 1) /\ (j \in 1 .. n \/ j = n + 1)
        BY <2>7
      <4>2. \A k, m \in 1 .. n : keys[k] = keys[m] => k = m
        BY <2>7 DEF MapOK
      <4> QED BY <2>7, <2>8, <3>2, <4>1, <4>2
    <3>3. \A v, w \in Users : entry'[v] = entry'[w] => v = w \/ entry'[v] = NoArray
      BY <1>2, <2>1 DEF MapOK, BufferTyped
    <3> QED BY <2>7, <3>1, <3>2, <3>3 DEF MapOK
  <2>10. CyclesOK(entry, cycle, Cycles)'
    <3>1. \A c \in Cycles :
            /\ cycle'[c].user = cycle[c].user /\ cycle'[c].array = cycle[c].array
            /\ cycle'[c].crossed = cycle[c].crossed
            /\ cycle[c].user = Nobody => cycle'[c] = cycle[c]
      BY BufferAdds
    <3>2. \A c \in Cycles : cycle[c].user # Nobody /\ ~ cycle[c].crossed =>
            entry'[cycle[c].user] = cycle[c].array
      <4> SUFFICES ASSUME NEW c \in Cycles, cycle[c].user # Nobody, ~ cycle[c].crossed
                   PROVE  entry'[cycle[c].user] = cycle[c].array
        OBVIOUS
      <4>1. entry[cycle[c].user] = cycle[c].array /\ cycle[c].array \in Arrays
        BY DEF CyclesOK
      <4>2. cycle[c].user \in Users
        BY <2>3 DEF Cycle
      <4>3. cycle[c].array # NoArray
        <5>1. Cardinality(Users) \in Nat /\ Cardinality(Cycles) \in Nat
          BY SmallAssumption, FS_CardinalityType
        <5> QED BY <4>1, <5>1, NoneAssumption DEF Arrays
      <4>4. cycle[c].user # u
        BY <1>2, <4>1, <4>3
      <4> QED BY <1>2, <4>1, <4>2, <4>4 DEF BufferTyped
    <3> QED BY <3>1, <3>2 DEF CyclesOK
  <2> QED BY <2>6, <2>9, <2>10
<1> QED BY <1>1, <1>2, BufferCases

\* A batch of events nothing else holds, decided on or not: the buffer stays in
\* order, and takes in no other events.
LEMMA IntakeKeepsBuffer ==
  ASSUME BufferOK, NEW u \in Users, NEW es \in SUBSET Events,
         BufferActivityEvents(u, es) \/ UNCHANGED buffer,
         \A e \in es : /\ e \in sent' /\ copies[e] = 0
                       /\ \A a \in Arrays : e \notin content[a]
                       /\ \A c \in Cycles : e \notin cycle[c].batch,
         sent \subseteq sent', UNCHANGED <<copies, unsure>>
  PROVE  /\ BufferOK'
         /\ \A a \in Arrays : content'[a] \subseteq content[a] \cup es
         /\ \A c \in Cycles : cycle'[c].batch = cycle[c].batch
<1>1. CASE UNCHANGED buffer
  BY <1>1 DEF buffer, BufferOK, BufferTyped, MapOK, CyclesOK, Apart, CountedOK
<1>2. CASE BufferActivityEvents(u, es)
  <2>1. PICK a \in Arrays : /\ content'[a] \subseteq content[a] \cup es
                            /\ \A b \in Arrays \ {a} : content'[b] = content[b]
    BY <1>2, BufferAdds DEF BufferOK
  <2>2. \A c \in Cycles : cycle'[c].batch = cycle[c].batch /\ cycle'[c].stored = cycle[c].stored
    BY <1>2, BufferAdds DEF BufferOK
  <2>3. /\ BufferTyped(keys, entry, content, cycle)'
        /\ MapOK(keys, entry)'
        /\ CyclesOK(entry, cycle, Cycles)'
    BY <1>2, BufferKeepsOrder DEF BufferOK
  <2>4. Apart(content, cycle, Cycles)'
    <3>1. \A x, y \in Arrays : content'[x] \cap content'[y] # {} => x = y
      <4> SUFFICES ASSUME NEW x \in Arrays, NEW y \in Arrays, NEW e,
                          e \in content'[x], e \in content'[y]
                   PROVE  x = y
        OBVIOUS
      <4>1. CASE e \in es
        BY <2>1, <4>1
      <4>2. CASE e \notin es
        <5>1. e \in content[x] /\ e \in content[y]
          BY <2>1, <4>2
        <5> QED BY <5>1 DEF BufferOK, Apart
      <4> QED BY <4>1, <4>2
    <3>2. \A x \in Arrays, c \in Cycles : content'[x] \cap cycle'[c].batch = {}
      <4> SUFFICES ASSUME NEW x \in Arrays, NEW c \in Cycles, NEW e,
                          e \in content'[x], e \in cycle'[c].batch
                   PROVE  FALSE
        OBVIOUS
      <4>1. e \in cycle[c].batch /\ e \notin es
        BY <2>2
      <4>2. e \in content[x]
        BY <2>1, <4>1
      <4> QED BY <4>1, <4>2 DEF BufferOK, Apart
    <3> QED BY <2>2, <3>1, <3>2 DEF BufferOK, Apart
  <2>5. CountedOK(content, cycle, Cycles, unsure)'
    <3>1. \A x \in Arrays : \A e \in content'[x] :
            e \in sent' /\ (copies'[e] > 0 => e \in unsure')
      <4> SUFFICES ASSUME NEW x \in Arrays, NEW e, e \in content'[x]
                   PROVE  e \in sent' /\ (copies'[e] > 0 => e \in unsure')
        OBVIOUS
      <4>1. CASE e \in es
        BY <4>1
      <4>2. CASE e \notin es
        BY <2>1, <4>2 DEF BufferOK, CountedOK
      <4> QED BY <4>1, <4>2
    <3> QED BY <2>2, <3>1 DEF BufferOK, CountedOK
  <2> QED BY <2>1, <2>2, <2>3, <2>4, <2>5 DEF BufferOK
<1> QED BY <1>1, <1>2

\* What IInv says of an event, in a form that says where it is not.
LEMMA NewEvents ==
  ASSUME IInv, NEW e \in Events, e \notin sent
  PROVE  /\ copies[e] = 0
         /\ \A a \in Arrays : e \notin content[a]
         /\ \A c \in Cycles : e \notin cycle[c].batch
         /\ \A r \in Requests : e \notin req[r].events
<1>1. copies[e] = 0
  <2>1. copies[e] \in 0 .. 2 /\ ~ (copies[e] > 0)
    BY DEF IInv, RestTyped, HistoryOK
  <2> QED BY <2>1
<1> QED BY <1>1 DEF IInv, BufferOK, CountedOK, RequestsOK

\* Requests.
LEMMA RequestStep ==
  ASSUME IInv, NEW r \in Requests,
         \/ \E u \in Users, es \in SUBSET Events : LogBatch(r, u, es)
         \/ \E u \in Users : GetMonitoringConfig(r, u)
         \/ ReadConfig(r) \/ ReadNoConfig(r) \/ CreateConfig(r)
         \/ UseConfig(r) \/ RejectBatch(r)
  PROVE  IInv'
<1>a. RestTyped /\ RequestsOK /\ HistoryOK /\ BufferOK
  BY DEF IInv
<1>b. Free.pc = "free" /\ Free.events = {} /\ Free.user = Nobody /\ Free.row = "none"
  BY DEF Free
<1>1. ASSUME NEW u \in Users, NEW es \in SUBSET Events, LogBatch(r, u, es)
      PROVE  IInv'
  <2>1. /\ \A e \in es : /\ e \notin sent /\ e \in sent' /\ copies[e] = 0
                         /\ \A a \in Arrays : e \notin content[a]
                         /\ \A c \in Cycles : e \notin cycle[c].batch
                         /\ \A q \in Requests : e \notin req[q].events
        /\ sent' = sent \cup es /\ UNCHANGED <<copies, config, cache, update, unsure, excused>>
    <3>1. sent' = sent \cup es /\ es \cap sent = {}
      BY <1>1 DEF LogBatch
    <3>2. UNCHANGED <<copies, config, cache, update, unsure, excused>>
      BY <1>1 DEF LogBatch, policy, buffer, Decide, BufferActivityEvents
    <3> QED BY <3>1, <3>2, NewEvents
  <2>2. CASE cache[u] # "none"
    <3>1. UNCHANGED req /\ (BufferActivityEvents(u, es) \/ UNCHANGED buffer)
      BY <1>1, <2>2 DEF LogBatch, Decide
    <3>2. /\ BufferOK'
          /\ \A a \in Arrays : content'[a] \subseteq content[a] \cup es
          /\ \A c \in Cycles : cycle'[c].batch = cycle[c].batch
      BY <1>a, <2>1, <3>1, IntakeKeepsBuffer
    <3>3. RestTyped'
      BY <1>a, <2>1, <3>1 DEF RestTyped
    <3>4. RequestsOK'
      BY <1>a, <2>1, <3>1, <3>2 DEF RequestsOK
    <3>5. HistoryOK'
      BY <1>a, <2>1 DEF HistoryOK
    <3> QED BY <3>2, <3>3, <3>4, <3>5 DEF IInv
  <2>3. CASE cache[u] = "none"
    <3>1. /\ req' = [req EXCEPT ![r] =
                       [pc |-> "find", user |-> u, events |-> es, row |-> "none"]]
          /\ UNCHANGED buffer
      BY <1>1, <2>3 DEF LogBatch
    <3>2. BufferOK'
      BY <1>a, <2>1, <3>1 DEF buffer, BufferOK, BufferTyped, MapOK, CyclesOK, Apart, CountedOK
    <3>3. RestTyped'
      BY <1>a, <2>1, <3>1 DEF RestTyped
    <3>4. RequestsOK'
      <4>1. /\ req'[r].pc = "find" /\ req'[r].user = u /\ req'[r].events = es
            /\ \A q \in Requests \ {r} : req'[q] = req[q]
        BY <1>a, <3>1 DEF RestTyped
      <4> QED BY <1>a, <2>1, <3>1, <4>1 DEF RequestsOK, buffer
    <3>5. HistoryOK'
      BY <1>a, <2>1 DEF HistoryOK
    <3> QED BY <3>2, <3>3, <3>4, <3>5 DEF IInv
  <2> QED BY <2>2, <2>3
<1>2. ASSUME \/ \E u \in Users : GetMonitoringConfig(r, u)
             \/ ReadConfig(r) \/ ReadNoConfig(r) \/ CreateConfig(r) \/ RejectBatch(r)
      PROVE  IInv'
  <2>1. UNCHANGED <<keys, entry, content, cycle, copies, cache, update, sent, unsure, excused>>
    BY <1>2 DEF GetMonitoringConfig, ReadConfig, ReadNoConfig, CreateConfig, RejectBatch,
                buffer, policy
  <2>2. BufferOK' /\ HistoryOK'
    BY <1>a, <2>1 DEF BufferOK, BufferTyped, MapOK, CyclesOK, Apart, CountedOK, HistoryOK
  <2>3. config' \in [Users -> Setting \cup {"none"}]
    BY <1>2, <1>a DEF GetMonitoringConfig, ReadConfig, ReadNoConfig, CreateConfig, RejectBatch,
                      policy, RestTyped, Setting
  <2>4. /\ \A q \in Requests \ {r} : req'[q] = req[q]
        /\ req'[r].pc \in {"free", "find", "use"} /\ req'[r].events \subseteq req[r].events
        /\ IF req'[r].pc = "free" THEN req'[r] = Free ELSE req'[r].user \in Users
        /\ req' \in [Requests -> [pc : {"free", "find", "use"}, user : Users \cup {Nobody},
                                  events : SUBSET Events, row : Setting \cup {"none"}]]
    <3>1. CASE \E u \in Users : GetMonitoringConfig(r, u)
      <4>1. PICK u \in Users : req' = [req EXCEPT ![r] =
                  [pc |-> "find", user |-> u, events |-> {}, row |-> "none"]]
        BY <3>1 DEF GetMonitoringConfig
      <4> QED BY <1>a, <4>1 DEF RestTyped
    <3>2. CASE ReadConfig(r)
      <4>1. /\ req' = [req EXCEPT ![r].pc = "use", ![r].row = config[req[r].user]]
            /\ req[r].pc = "find"
        BY <3>2 DEF ReadConfig
      <4>2. req[r].user \in Users
        BY <1>a, <4>1 DEF RequestsOK
      <4>3. config[req[r].user] \in Setting \cup {"none"}
        BY <1>a, <4>2 DEF RestTyped
      <4> DEFINE row == config[req[r].user]
      <4> HIDE DEF row
      <4>4. req' = [req EXCEPT ![r] = [@ EXCEPT !.pc = "use", !.row = row]]
        BY <4>1 DEF row
      <4>5. row \in Setting \cup {"none"}
        BY <4>3 DEF row
      <4> DEFINE Request == [pc : {"free", "find", "use"}, user : Users \cup {Nobody},
                             events : SUBSET Events, row : Setting \cup {"none"}]
                 new == [req[r] EXCEPT !.pc = "use", !.row = row]
      <4>6. req[r] \in Request /\ req \in [Requests -> Request]
        BY <1>a DEF RestTyped
      <4>7. /\ new \in Request /\ new.pc = "use"
            /\ new.user = req[r].user /\ new.events = req[r].events
        BY <4>5, <4>6
      <4> HIDE DEF Request, new
      <4>8. req' = [req EXCEPT ![r] = new]
        BY <4>4 DEF new
      <4>9. /\ req' \in [Requests -> Request] /\ req'[r] = new
            /\ \A q \in Requests \ {r} : req'[q] = req[q]
        BY <4>6, <4>7, <4>8
      <4> QED BY <4>2, <4>7, <4>9 DEF Request
    <3>3. CASE ReadNoConfig(r)
      BY <1>a, <3>3 DEF ReadNoConfig, RestTyped, RequestsOK
    <3>4. CASE CreateConfig(r)
      BY <1>a, <3>4 DEF CreateConfig, RestTyped, RequestsOK, Setting
    <3>5. CASE RejectBatch(r)
      <4>1. req' = [req EXCEPT ![r] = Free]
        BY <3>5 DEF RejectBatch
      <4> QED BY <1>a, <1>b, <4>1 DEF RestTyped, Free
    <3> QED BY <1>2, <3>1, <3>2, <3>3, <3>4, <3>5
  <2>5. RestTyped'
    BY <1>a, <2>1, <2>3, <2>4 DEF RestTyped
  <2>6. RequestsOK'
    BY <1>a, <2>1, <2>4 DEF RequestsOK
  <2> QED BY <2>2, <2>5, <2>6 DEF IInv
<1>3. ASSUME UseConfig(r)
      PROVE  IInv'
  <2> DEFINE u == req[r].user
             es == req[r].events
  <2>1. u \in Users /\ es \in SUBSET Events
    BY <1>3, <1>a DEF UseConfig, RequestsOK, RestTyped
  <2>2. /\ UNCHANGED <<copies, config, update, sent, unsure>>
        /\ req' = [req EXCEPT ![r] = Free]
        /\ BufferActivityEvents(u, es) \/ UNCHANGED buffer
        /\ cache' = [cache EXCEPT ![u] = req[r].row]
        /\ excused' \in {excused \ {u}, excused \cup {u}}
    BY <1>3 DEF UseConfig, Decide, BufferActivityEvents, buffer
  <2>3. \A e \in es : /\ e \in sent' /\ copies[e] = 0
                      /\ \A a \in Arrays : e \notin content[a]
                      /\ \A c \in Cycles : e \notin cycle[c].batch
    BY <1>a, <2>2 DEF RequestsOK
  <2>4. /\ BufferOK'
        /\ \A a \in Arrays : content'[a] \subseteq content[a] \cup es
        /\ \A c \in Cycles : cycle'[c].batch = cycle[c].batch
    <3> HIDE DEF u, es
    <3> QED BY <1>a, <2>1, <2>2, <2>3, IntakeKeepsBuffer
  <2>5. req'[r] = Free /\ \A q \in Requests \ {r} : req'[q] = req[q]
    BY <1>a, <2>2 DEF RestTyped
  <2>6. RestTyped'
    <3>1. req' \in [Requests -> [pc : {"free", "find", "use"}, user : Users \cup {Nobody},
                                 events : SUBSET Events, row : Setting \cup {"none"}]]
      BY <1>a, <2>2 DEF RestTyped, Free
    <3>2. cache' \in [Users -> Setting \cup {"none"}]
      BY <1>a, <2>2 DEF RestTyped
    <3> QED BY <1>a, <2>1, <2>2, <3>1, <3>2 DEF RestTyped
  <2>7. RequestsOK'
    <3>1. \A q \in Requests : req'[q].events \subseteq req[q].events /\ (q = r => req'[q].events = {})
      BY <1>b, <2>5
    <3>2. \A q \in Requests \ {r} : req[q].events \cap es = {}
      BY <1>a DEF RequestsOK
    <3>3. \A q \in Requests : IF req'[q].pc = "free" THEN req'[q] = Free ELSE req'[q].user \in Users
      BY <1>a, <1>b, <2>5 DEF RequestsOK
    <3>4. \A q, p \in Requests : req'[q].events \cap req'[p].events # {} => q = p
      BY <1>a, <3>1 DEF RequestsOK
    <3>5. \A q \in Requests : \A e \in req'[q].events :
            /\ e \in sent' /\ copies'[e] = 0
            /\ \A a \in Arrays : e \notin content'[a]
            /\ \A c \in Cycles : e \notin cycle'[c].batch
      <4> SUFFICES ASSUME NEW q \in Requests \ {r}, NEW e \in req[q].events
                   PROVE  /\ e \in sent' /\ copies'[e] = 0
                          /\ \A a \in Arrays : e \notin content'[a]
                          /\ \A c \in Cycles : e \notin cycle'[c].batch
        BY <3>1
      <4>1. e \notin es
        BY <3>2
      <4> HIDE DEF es, u
      <4> QED BY <1>a, <2>2, <2>4, <4>1 DEF RequestsOK
    <3> QED BY <3>3, <3>4, <3>5 DEF RequestsOK
  <2>8. HistoryOK'
    BY <1>a, <2>2 DEF HistoryOK
  <2> QED BY <2>4, <2>6, <2>7, <2>8 DEF IInv
<1> QED BY <1>1, <1>2, <1>3

-----------------------------------------------------------------------------
(* The steps of a cycle, and the others.                                   *)

\* FlushNext, from a state in which c holds nothing, on events the requests do not
\* hold.
LEMMA FlushKeepsIInv ==
  ASSUME IInv, NEW c \in Cycles, NEW ks, NEW ent, NEW con, NEW cyc, NEW failed,
         BufferTyped(ks, ent, con, cyc), MapOK(ks, ent), CyclesOK(ent, cyc, Cycles \ {c}),
         Apart(con, cyc, Cycles \ {c}), CountedOK(con, cyc, Cycles \ {c}, failed),
         \A a \in Arrays : con[a] \subseteq content[a] \cup cycle[c].batch,
         \A d \in Cycles \ {c} : cyc[d].batch = cycle[d].batch,
         FlushNext(c, ks, ent, con, cyc),
         unsure' = failed, unsure \subseteq failed, failed \subseteq Events,
         UNCHANGED <<copies, policy, req, sent, excused>>
  PROVE  IInv'
<1>1. /\ BufferTyped(keys, entry, content, cycle)'
      /\ MapOK(keys, entry)'
      /\ CyclesOK(entry, cycle, Cycles)'
  BY FlushKeepsOrder
<1>2. Apart(content, cycle, Cycles)' /\ CountedOK(content, cycle, Cycles, unsure)'
  BY FlushKeepsEvents
<1>3. RestTyped'
  BY DEF IInv, RestTyped, policy
<1>4. HistoryOK'
  BY DEF IInv, HistoryOK
<1>5. RequestsOK'
  <2>1. /\ \A a \in Arrays : content'[a] \subseteq con[a]
        /\ \A d \in Cycles \ {c} : cycle'[d].batch = cyc[d].batch
        /\ cycle'[c] = Idle \/ \E a \in Arrays : cycle'[c].batch = con[a]
    BY FlushMoves
  <2>2. ASSUME NEW r \in Requests, NEW e \in req[r].events
        PROVE  /\ \A a \in Arrays : e \notin content'[a]
               /\ \A d \in Cycles : e \notin cycle'[d].batch
    <3>1. /\ \A a \in Arrays : e \notin content[a]
          /\ \A d \in Cycles : e \notin cycle[d].batch
      BY DEF IInv, RequestsOK
    <3>2. \A a \in Arrays : e \notin con[a]
      BY <3>1
    <3> QED BY <2>1, <3>1, <3>2 DEF Idle
  <2> QED BY <2>2 DEF IInv, RequestsOK
<1> QED BY <1>1, <1>2, <1>3, <1>4, <1>5 DEF IInv, BufferOK

\* A cycle begins.
LEMMA StartStep ==
  ASSUME IInv, NEW c \in Cycles, StartCycle(c)
  PROVE  IInv'
<1> DEFINE cyc == [cycle EXCEPT ![c].todo = {keys[i] : i \in DOMAIN keys}]
<1>1. /\ FlushNext(c, keys, entry, content, cyc)
      /\ UNCHANGED <<copies, policy, req, sent, unsure, excused>>
  BY DEF StartCycle
<1>2. BufferTyped(keys, entry, content, cycle)
  BY DEF IInv, BufferOK
<1>3. \A d \in Cycles \ {c} : cyc[d] = cycle[d]
  BY <1>2 DEF BufferTyped
<1>4. BufferTyped(keys, entry, content, cyc)
  <2>1. {keys[i] : i \in DOMAIN keys} \subseteq Users
    BY <1>2, ElementOfSeq, LenProperties DEF BufferTyped
  <2>2. cyc \in [Cycles -> Cycle]
    BY <1>2, <2>1 DEF BufferTyped, Cycle
  <2> QED BY <1>2, <2>2 DEF BufferTyped
<1>5. /\ MapOK(keys, entry)
      /\ CyclesOK(entry, cyc, Cycles \ {c})
      /\ Apart(content, cyc, Cycles \ {c})
      /\ CountedOK(content, cyc, Cycles \ {c}, unsure)
  <2> HIDE DEF cyc
  <2> QED BY <1>3 DEF IInv, BufferOK, CyclesOK, Apart, CountedOK
<1>6. unsure \subseteq Events
  BY DEF IInv, RestTyped
<1> HIDE DEF cyc
<1> QED BY <1>1, <1>3, <1>4, <1>5, <1>6, FlushKeepsIInv

\* A user's entry is deleted: the map, and what the cycles have to do, stay in order.
LEMMA DeletedInOrder ==
  ASSUME BufferTyped(keys, entry, content, cycle), MapOK(keys, entry), NEW u \in Users
  PROVE  LET ks  == Delete(keys, u)
             ent == [entry EXCEPT ![u] = NoArray]
             cyc == [d \in Cycles |-> [cycle[d] EXCEPT !.todo = @ \ {u}]]
         IN  BufferTyped(ks, ent, content, cyc) /\ MapOK(ks, ent)
<1> DEFINE ks == Delete(keys, u)
           ent == [entry EXCEPT ![u] = NoArray]
           cyc == [d \in Cycles |-> [cycle[d] EXCEPT !.todo = @ \ {u}]]
<1>1. /\ ks \in Seq(Users)
      /\ \A i, j \in DOMAIN ks : ks[i] = ks[j] => i = j
      /\ \A v : (\E i \in DOMAIN ks : ks[i] = v) <=> v # u /\ \E i \in DOMAIN keys : keys[i] = v
  <2>1. keys \in Seq(Users) /\ \A i, j \in DOMAIN keys : keys[i] = keys[j] => i = j
    BY DEF BufferTyped, MapOK
  <2> QED BY <2>1, DeleteProperties
<1>2. /\ ent \in [Users -> Arrays \cup {NoArray}] /\ ent[u] = NoArray
      /\ \A v \in Users \ {u} : ent[v] = entry[v]
  BY DEF BufferTyped
<1>3. cyc \in [Cycles -> Cycle]
  BY DEF BufferTyped, Cycle
<1> HIDE DEF ks, ent, cyc
<1>4. BufferTyped(ks, ent, content, cyc)
  BY <1>1, <1>2, <1>3 DEF BufferTyped
<1>5. MapOK(ks, ent)
  <2>1. \A v \in Users : ent[v] # NoArray <=> \E i \in DOMAIN ks : ks[i] = v
    BY <1>1, <1>2 DEF MapOK
  <2>2. \A v, w \in Users : ent[v] = ent[w] => v = w \/ ent[v] = NoArray
    BY <1>2 DEF MapOK
  <2> QED BY <1>1, <2>1, <2>2 DEF MapOK
<1> QED BY <1>4, <1>5 DEF ks, ent, cyc

\* A write has returned.
LEMMA ReturnStep ==
  ASSUME IInv, NEW c \in Cycles, Return(c)
  PROVE  IInv'
<1> DEFINE u == cycle[c].user
           ks == Delete(keys, u)
           ent == [entry EXCEPT ![u] = NoArray]
           cyc == [d \in Cycles |-> [cycle[d] EXCEPT !.todo = @ \ {u}]]
<1>1. /\ BufferTyped(keys, entry, content, cycle) /\ MapOK(keys, entry)
      /\ CyclesOK(entry, cycle, Cycles)
      /\ Apart(content, cycle, Cycles) /\ CountedOK(content, cycle, Cycles, unsure)
      /\ unsure \subseteq Events
  BY DEF IInv, BufferOK, RestTyped
<1>2. UNCHANGED <<copies, policy, req, sent, unsure, excused>> /\ c \in Running
  BY DEF Return
<1>3. CASE FlushNext(c, keys, entry, content, cycle)
  <2>1. /\ CyclesOK(entry, cycle, Cycles \ {c})
        /\ Apart(content, cycle, Cycles \ {c})
        /\ CountedOK(content, cycle, Cycles \ {c}, unsure)
    BY <1>1 DEF CyclesOK, Apart, CountedOK
  <2> QED BY <1>1, <1>2, <1>3, <2>1, FlushKeepsIInv
<1>4. CASE FlushNext(c, ks, ent, content, cyc)
  <2>0. u \in Users /\ u # Nobody
    BY <1>1, <1>2 DEF BufferTyped, Cycle, Running
  <2>2. /\ ent \in [Users -> Arrays \cup {NoArray}] /\ ent[u] = NoArray
        /\ \A v \in Users \ {u} : ent[v] = entry[v]
    BY <1>1, <2>0 DEF BufferTyped
  <2>3. \A d \in Cycles :
          /\ cyc[d] \in Cycle
          /\ cyc[d].user = cycle[d].user /\ cyc[d].array = cycle[d].array
          /\ cyc[d].batch = cycle[d].batch /\ cyc[d].stored = cycle[d].stored
          /\ cyc[d].crossed = cycle[d].crossed
          /\ cycle[d] = Idle => cyc[d] = Idle
    <3> SUFFICES ASSUME NEW d \in Cycles
                 PROVE  /\ cyc[d] \in Cycle
                        /\ cyc[d].user = cycle[d].user /\ cyc[d].array = cycle[d].array
                        /\ cyc[d].batch = cycle[d].batch /\ cyc[d].stored = cycle[d].stored
                        /\ cyc[d].crossed = cycle[d].crossed
                        /\ cycle[d] = Idle => cyc[d] = Idle
      OBVIOUS
    <3>1. cycle[d] \in Cycle
      BY <1>1 DEF BufferTyped
    <3>2. cyc[d] = [cycle[d] EXCEPT !.todo = @ \ {u}]
      OBVIOUS
    <3> HIDE DEF cyc, u
    <3>3. cycle[d] = Idle => cyc[d] = Idle
      <4>1. [Idle EXCEPT !.todo = @ \ {u}] = Idle
        <5>1. Idle.todo \ {u} = Idle.todo
          BY DEF Idle
        <5> QED BY <5>1 DEF Idle
      <4> QED BY <3>2, <4>1
    <3> QED BY <3>1, <3>2, <3>3 DEF Cycle
  <2>5. BufferTyped(ks, ent, content, cyc) /\ MapOK(ks, ent)
    BY <1>1, <2>0, DeletedInOrder
  <2> HIDE DEF ks, ent, cyc
  <2>7. CyclesOK(ent, cyc, Cycles \ {c})
    <3>1. \A d \in Cycles \ {c} : cyc[d].user = Nobody => cyc[d] = Idle
      BY <1>1, <2>3 DEF CyclesOK
    <3>2. \A d, b \in Cycles \ {c} :
            d # b /\ cyc[d].user = cyc[b].user /\ cyc[d].user # Nobody => cyc[d].crossed
      BY <1>1, <2>3 DEF CyclesOK
    <3>3. ASSUME NEW d \in Cycles \ {c}, cyc[d].user # Nobody
          PROVE  cyc[d].array \in Arrays /\ (~ cyc[d].crossed => ent[cyc[d].user] = cyc[d].array)
      <4>1. cycle[d].array \in Arrays /\ (~ cycle[d].crossed => entry[cycle[d].user] = cycle[d].array)
        BY <1>1, <2>3, <3>3 DEF CyclesOK
      <4>2. cycle[d].user = u => cycle[d].crossed
        BY <1>1, <2>0 DEF CyclesOK
      <4>3. cycle[d].user \in Users
        BY <1>1, <2>3, <3>3 DEF BufferTyped, Cycle
      <4> HIDE DEF u
      <4> QED BY <2>2, <2>3, <4>1, <4>2, <4>3
    <3> QED BY <3>1, <3>2, <3>3 DEF CyclesOK
  <2>8. Apart(content, cyc, Cycles \ {c}) /\ CountedOK(content, cyc, Cycles \ {c}, unsure)
    BY <1>1, <2>3 DEF Apart, CountedOK
  <2>9. \A d \in Cycles \ {c} : cyc[d].batch = cycle[d].batch
    BY <2>3
  <2> QED BY <1>1, <1>2, <1>4, <2>5, <2>7, <2>8, <2>9, FlushKeepsIInv
<1> QED BY <1>3, <1>4 DEF Return

\* A write has failed.
LEMMA ThrowStep ==
  ASSUME IInv, NEW c \in Cycles, Throw(c)
  PROVE  IInv'
<1> DEFINE batch == cycle[c].batch
           home == cycle[c].array
           con == [content EXCEPT ![home] = @ \cup batch]
           failed == IF cycle[c].stored THEN unsure \cup batch ELSE unsure
<1>1. /\ BufferTyped(keys, entry, content, cycle) /\ MapOK(keys, entry)
      /\ CyclesOK(entry, cycle, Cycles)
      /\ Apart(content, cycle, Cycles) /\ CountedOK(content, cycle, Cycles, unsure)
      /\ unsure \subseteq Events
  BY DEF IInv, BufferOK, RestTyped
<1>2. /\ FlushNext(c, keys, entry, con, cycle) /\ unsure' = failed /\ c \in Running
      /\ UNCHANGED <<copies, policy, req, sent, excused>>
  BY DEF Throw
<1>3. batch \subseteq Events /\ home \in Arrays
  BY <1>1, <1>2 DEF BufferTyped, Cycle, CyclesOK, Running
<1>4. /\ con \in [Arrays -> SUBSET Events] /\ con[home] = content[home] \cup batch
      /\ \A a \in Arrays \ {home} : con[a] = content[a]
  BY <1>1, <1>3 DEF BufferTyped
<1> HIDE DEF con
<1>5. BufferTyped(keys, entry, con, cycle)
  BY <1>1, <1>4 DEF BufferTyped
<1>6. CyclesOK(entry, cycle, Cycles \ {c})
  BY <1>1 DEF CyclesOK
<1>7. Apart(con, cycle, Cycles \ {c})
  <2>1. \A a, b \in Arrays : con[a] \cap con[b] # {} => a = b
    BY <1>1, <1>3, <1>4 DEF Apart
  <2>2. \A a \in Arrays, d \in Cycles \ {c} : con[a] \cap cycle[d].batch = {}
    BY <1>1, <1>3, <1>4 DEF Apart
  <2> QED BY <1>1, <2>1, <2>2 DEF Apart
<1>8. unsure \subseteq failed /\ failed \subseteq Events
  BY <1>1, <1>3
<1>9. CountedOK(con, cycle, Cycles \ {c}, failed)
  <2>1. \A e \in batch : e \in sent /\ (copies[e] > 0 => e \in failed)
    BY <1>1 DEF CountedOK
  <2> HIDE DEF failed, batch, home
  <2>2. \A a \in Arrays : \A e \in con[a] : e \in sent /\ (copies[e] > 0 => e \in failed)
    <3> SUFFICES ASSUME NEW a \in Arrays, NEW e \in con[a]
                 PROVE  e \in sent /\ (copies[e] > 0 => e \in failed)
      OBVIOUS
    <3>1. e \in batch \/ e \in content[a]
      BY <1>4
    <3> QED BY <1>1, <1>8, <2>1, <3>1 DEF CountedOK
  <2> QED BY <1>1, <1>8, <2>2 DEF CountedOK
<1>10. \A a \in Arrays : con[a] \subseteq content[a] \cup cycle[c].batch
  BY <1>4
<1> HIDE DEF failed, batch, home
<1> QED BY <1>1, <1>2, <1>5, <1>6, <1>7, <1>8, <1>9, <1>10, FlushKeepsIInv

\* A write has been stored.
LEMMA CommitStep ==
  ASSUME IInv, NEW c \in Cycles, Commit(c)
  PROVE  IInv'
<1>1. /\ BufferTyped(keys, entry, content, cycle) /\ MapOK(keys, entry)
      /\ CyclesOK(entry, cycle, Cycles)
      /\ Apart(content, cycle, Cycles) /\ CountedOK(content, cycle, Cycles, unsure)
      /\ RestTyped /\ RequestsOK /\ HistoryOK
  BY DEF IInv, BufferOK
<1>2. /\ cycle' = [cycle EXCEPT ![c].stored = TRUE]
      /\ c \in Running /\ ~ cycle[c].stored
      /\ UNCHANGED <<keys, entry, content, config, cache, update, req, sent, unsure, excused>>
  BY DEF Commit, policy
<1>3. \A d \in Cycles :
        /\ cycle'[d] \in Cycle
        /\ cycle'[d].user = cycle[d].user /\ cycle'[d].array = cycle[d].array
        /\ cycle'[d].batch = cycle[d].batch /\ cycle'[d].crossed = cycle[d].crossed
        /\ d # c => cycle'[d] = cycle[d]
        /\ d = c => cycle'[d].stored
  <2> SUFFICES ASSUME NEW d \in Cycles
               PROVE  /\ cycle'[d] \in Cycle
                      /\ cycle'[d].user = cycle[d].user /\ cycle'[d].array = cycle[d].array
                      /\ cycle'[d].batch = cycle[d].batch /\ cycle'[d].crossed = cycle[d].crossed
                      /\ d # c => cycle'[d] = cycle[d]
                      /\ d = c => cycle'[d].stored
    OBVIOUS
  <2>1. cycle[d] \in Cycle
    BY <1>1 DEF BufferTyped
  <2>2. cycle'[d] = IF d = c THEN [cycle[d] EXCEPT !.stored = TRUE] ELSE cycle[d]
    BY <1>1, <1>2 DEF BufferTyped
  <2> QED BY <2>1, <2>2 DEF Cycle
<1>4. cycle' \in [Cycles -> Cycle]
  BY <1>1, <1>2, <1>3 DEF BufferTyped
<1>5. /\ copies' \in [Events -> 0 .. 2]
      /\ \A e \in Events \ cycle[c].batch : copies'[e] = copies[e]
      /\ \A e \in cycle[c].batch : copies'[e] > 0 /\ (copies[e] = 0 => copies'[e] = 1)
  <2>1. cycle[c].batch \subseteq Events
    BY <1>1 DEF BufferTyped, Cycle
  <2>2. copies' = [e \in Events |->
          IF e \in cycle[c].batch /\ copies[e] < 2 THEN copies[e] + 1 ELSE copies[e]]
    BY DEF Commit
  <2>3. ASSUME NEW e \in Events
        PROVE  copies[e] \in {0, 1, 2}
    BY <1>1 DEF RestTyped
  <2>4. ASSUME NEW e \in Events
        PROVE  /\ copies'[e] \in 0 .. 2
               /\ e \notin cycle[c].batch => copies'[e] = copies[e]
               /\ e \in cycle[c].batch => copies'[e] > 0 /\ (copies[e] = 0 => copies'[e] = 1)
    BY <2>2, <2>3
  <2> QED BY <2>1, <2>2, <2>4
<1>6. /\ BufferTyped(keys, entry, content, cycle)'
      /\ MapOK(keys, entry)'
      /\ Apart(content, cycle, Cycles)'
  BY <1>1, <1>2, <1>3, <1>4 DEF BufferTyped, MapOK, Apart
<1>7. CyclesOK(entry, cycle, Cycles)'
  <2>1. cycle[c].user # Nobody
    BY <1>2 DEF Running
  <2> QED BY <1>1, <1>2, <1>3, <2>1 DEF CyclesOK
<1>8. CountedOK(content, cycle, Cycles, unsure)'
  <2>1. ASSUME NEW a \in Arrays, NEW e \in content[a]
        PROVE  e \in sent /\ (copies'[e] > 0 => e \in unsure)
    <3>1. e \in Events /\ e \notin cycle[c].batch
      BY <1>1 DEF BufferTyped, Apart
    <3> QED BY <1>1, <1>5, <3>1 DEF CountedOK
  <2>2. ASSUME NEW d \in Cycles, NEW e \in cycle[d].batch
        PROVE  /\ e \in sent
               /\ IF cycle'[d].stored THEN copies'[e] > 0 ELSE copies'[e] > 0 => e \in unsure
    <3>1. CASE d = c
      BY <1>1, <1>3, <1>5, <3>1 DEF CountedOK
    <3>2. CASE d # c
      <4>1. e \in Events /\ e \notin cycle[c].batch
        BY <1>1, <3>2 DEF BufferTyped, Cycle, Apart
      <4> QED BY <1>1, <1>3, <1>5, <3>2, <4>1 DEF CountedOK
    <3> QED BY <3>1, <3>2
  <2> QED BY <1>2, <1>3, <2>1, <2>2 DEF CountedOK
<1>9. RestTyped'
  BY <1>1, <1>2, <1>5 DEF RestTyped
<1>10. RequestsOK'
  <2>1. \A r \in Requests : \A e \in req[r].events : copies'[e] = 0
    <3> SUFFICES ASSUME NEW r \in Requests, NEW e \in req[r].events PROVE copies'[e] = 0
      OBVIOUS
    <3>1. e \in Events /\ e \notin cycle[c].batch /\ copies[e] = 0
      BY <1>1 DEF RestTyped, RequestsOK
    <3> QED BY <1>5, <3>1
  <2> QED BY <1>1, <1>2, <1>3, <2>1 DEF RequestsOK
<1>11. HistoryOK'
  <2> SUFFICES ASSUME NEW e \in Events
               PROVE  (copies'[e] > 0 => e \in sent) /\ (copies'[e] > 1 => e \in unsure)
    BY <1>2 DEF HistoryOK
  <2>1. CASE e \in cycle[c].batch
    <3>1. e \in sent /\ (copies[e] > 0 => e \in unsure)
      BY <1>1, <1>2, <2>1 DEF CountedOK
    <3>2. copies[e] \in {0, 1, 2} /\ copies'[e] \in 0 .. 2
      BY <1>1, <1>5 DEF RestTyped
    <3> QED BY <1>5, <2>1, <3>1, <3>2
  <2>2. CASE e \notin cycle[c].batch
    BY <1>1, <1>5, <2>2 DEF HistoryOK
  <2> QED BY <2>1, <2>2
<1> QED BY <1>6, <1>7, <1>8, <1>9, <1>10, <1>11 DEF IInv, BufferOK

-----------------------------------------------------------------------------
(* The invariant holds.                                                    *)

\* The memory of a process that has just started.
Empty ==
  /\ keys = <<>> /\ entry = [u \in Users |-> NoArray]
  /\ content = [a \in Arrays |-> {}] /\ cycle = [c \in Cycles |-> Idle]
  /\ req = [r \in Requests |-> Free]

\* It is in order, whatever is in the database.
LEMMA EmptyInOrder == Empty => BufferOK /\ RequestsOK
<1> SUFFICES ASSUME Empty PROVE BufferOK /\ RequestsOK
  OBVIOUS
<1>1. BufferTyped(keys, entry, content, cycle)
  <2>1. keys \in Seq(Users)
    BY EmptySeq DEF Empty
  <2> QED BY <2>1 DEF Empty, BufferTyped, Cycle, Idle
<1>2. MapOK(keys, entry)
  <2>1. DOMAIN keys = {}
    BY EmptySeq, LenProperties DEF Empty
  <2> QED BY <2>1 DEF Empty, MapOK
<1>3. /\ CyclesOK(entry, cycle, Cycles)
      /\ Apart(content, cycle, Cycles)
      /\ CountedOK(content, cycle, Cycles, unsure)
  BY DEF Empty, CyclesOK, Apart, CountedOK, Idle
<1>4. RequestsOK
  BY DEF Empty, RequestsOK, Free
<1> QED BY <1>1, <1>2, <1>3, <1>4 DEF BufferOK

LEMMA InitIInv == Init => IInv
<1> SUFFICES ASSUME Init PROVE IInv
  OBVIOUS
<1>1. BufferOK /\ RequestsOK
  BY EmptyInOrder DEF Init, Empty
<1>2. RestTyped
  BY DEF Init, RestTyped, Free
<1>3. HistoryOK
  BY DEF Init, HistoryOK
<1> QED BY <1>1, <1>2, <1>3 DEF IInv

\* The configuration decides nothing about the buffer.
LEMMA PolicyStep ==
  ASSUME IInv,
         \/ \E a \in Admins, u \in Users :
               ToggleEmployeeMonitoring(a, u) \/ UpdateMonitoringConfig(a, u)
         \/ \E a \in Admins : InvalidateCache(a) \/ UpdateFails(a)
         \/ \E u \in Users : ExpireCache(u)
  PROVE  IInv'
<1>1. UNCHANGED <<keys, entry, content, cycle, copies, req, sent, unsure>>
  BY DEF ToggleEmployeeMonitoring, UpdateMonitoringConfig, UpsertConfig, InvalidateCache,
         UpdateFails, ExpireCache, buffer
<1>2. BufferOK' /\ RequestsOK' /\ HistoryOK'
  BY <1>1 DEF IInv, BufferOK, BufferTyped, MapOK, CyclesOK, Apart, CountedOK, RequestsOK,
              HistoryOK
<1>3. /\ config' \in [Users -> Setting \cup {"none"}]
      /\ cache' \in [Users -> Setting \cup {"none"}]
      /\ update' \in [Admins -> Users \cup {Nobody}]
      /\ excused' \subseteq Users
  <2> USE DEF IInv, RestTyped
  <2>1. ASSUME NEW a \in Admins, NEW u \in Users, NEW setting \in Setting \cup {"none"},
               UpsertConfig(a, u, setting)
        PROVE  /\ config' \in [Users -> Setting \cup {"none"}]
               /\ update' \in [Admins -> Users \cup {Nobody}]
               /\ UNCHANGED <<cache, excused>>
    BY <2>1 DEF UpsertConfig
  <2>2. CASE \E a \in Admins, u \in Users : ToggleEmployeeMonitoring(a, u)
    BY <2>1, <2>2 DEF ToggleEmployeeMonitoring
  <2>3. CASE \E a \in Admins, u \in Users : UpdateMonitoringConfig(a, u)
    <3>1. PICK a \in Admins, u \in Users : UpdateMonitoringConfig(a, u)
      BY <2>3
    <3>2. PICK setting \in Setting \cup {"none"} : UpsertConfig(a, u, setting)
      <4>1. config[u] \in Setting \cup {"none"} /\ "on" \in Setting
        BY DEF Setting
      <4> QED BY <3>1, <4>1 DEF UpdateMonitoringConfig
    <3> QED BY <2>1, <3>2
  <2>4. CASE \E a \in Admins : InvalidateCache(a)
    BY <2>4 DEF InvalidateCache
  <2>5. CASE \E a \in Admins : UpdateFails(a)
    BY <2>5 DEF UpdateFails
  <2>6. CASE \E u \in Users : ExpireCache(u)
    BY <2>6 DEF ExpireCache
  <2> QED BY <2>2, <2>3, <2>4, <2>5, <2>6
<1>4. RestTyped'
  BY <1>1, <1>3 DEF IInv, RestTyped
<1> QED BY <1>2, <1>4 DEF IInv

LEMMA RestartStep ==
  ASSUME IInv, Restart
  PROVE  IInv'
<1>1. Empty'
  BY DEF Restart, Empty
<1>2. BufferOK' /\ RequestsOK'
  <2>1. (Empty => BufferOK /\ RequestsOK)'
    BY EmptyInOrder, PTL
  <2> QED BY <1>1, <2>1
<1>3. RestTyped' /\ HistoryOK'
  BY DEF Restart, IInv, RestTyped, HistoryOK, Free
<1> QED BY <1>2, <1>3 DEF IInv

LEMMA NextIInv == IInv /\ [Next]_vars => IInv'
<1> SUFFICES ASSUME IInv, [Next]_vars PROVE IInv'
  OBVIOUS
<1>1. ASSUME NEW r \in Requests,
             \/ \E u \in Users, es \in SUBSET Events : LogBatch(r, u, es)
             \/ \E u \in Users : GetMonitoringConfig(r, u)
             \/ ReadConfig(r) \/ ReadNoConfig(r) \/ CreateConfig(r)
             \/ UseConfig(r) \/ RejectBatch(r)
      PROVE  IInv'
  BY <1>1, RequestStep
<1>2. CASE \/ \E a \in Admins, u \in Users :
                ToggleEmployeeMonitoring(a, u) \/ UpdateMonitoringConfig(a, u)
           \/ \E a \in Admins : InvalidateCache(a) \/ UpdateFails(a)
           \/ \E u \in Users : ExpireCache(u)
  BY <1>2, PolicyStep
<1>3. ASSUME NEW c \in Cycles, StartCycle(c) PROVE IInv'
  BY <1>3, StartStep
<1>4. ASSUME NEW c \in Cycles, Commit(c) PROVE IInv'
  BY <1>4, CommitStep
<1>5. ASSUME NEW c \in Cycles, Return(c) PROVE IInv'
  BY <1>5, ReturnStep
<1>6. ASSUME NEW c \in Cycles, Throw(c) PROVE IInv'
  BY <1>6, ThrowStep
<1>7. CASE Restart
  BY <1>7, RestartStep
<1>8. CASE UNCHANGED vars
  BY <1>8 DEF vars, IInv, BufferOK, BufferTyped, MapOK, CyclesOK, Apart, CountedOK, RestTyped,
              RequestsOK, HistoryOK
<1> QED BY <1>1, <1>2, <1>3, <1>4, <1>5, <1>6, <1>7, <1>8 DEF Next

LEMMA IInvHolds == Spec => []IInv
BY InitIInv, NextIInv, PTL DEF Spec

\* It says what BufferInv says.
LEMMA IInvBuffer == IInv => BufferInv
<1> SUFFICES ASSUME IInv PROVE BufferInv
  OBVIOUS
<1>1. TypeOK
  BY DEF IInv, BufferOK, BufferTyped, RestTyped, Cycle, TypeOK
<1>2. \A c \in Running : ~ cycle[c].crossed => entry[cycle[c].user] = cycle[c].array
  BY DEF IInv, BufferOK, CyclesOK, Running
<1>3. HeldOnce
  BY DEF IInv, BufferOK, Apart, HeldOnce
<1> QED BY <1>1, <1>2, <1>3 DEF IInv, BufferOK, MapOK, BufferInv

\* The map of waiting events and its arrays stay in order: flushEventBuffer and
\* bufferActivityEvents never leave a user in the map twice, two users with one
\* array, or a flush that was not overlapped with an array the map has let go of; and
\* they never put an event into two arrays or batches.
THEOREM BufferInOrder == Spec => []BufferInv
BY IInvHolds, IInvBuffer, PTL

\* Draining before the write is enough for every number of overlapping flushes: an
\* event is stored again, or waits though it is stored, only after a write that was
\* reported failed.
THEOREM EventsStoredOnce == Spec => []StoredOnce
<1>1. IInv => StoredOnce
  <2> SUFFICES ASSUME IInv, NEW e \in Events, copies[e] > 0, copies[e] > 1 \/ Waiting(e)
               PROVE  e \in unsure
    BY DEF StoredOnce
  <2>1. CASE copies[e] > 1
    BY <2>1 DEF IInv, HistoryOK
  <2>2. CASE Waiting(e)
    <3>1. PICK u \in Users : entry[u] # NoArray /\ e \in content[entry[u]]
      BY <2>2 DEF Waiting
    <3>2. entry[u] \in Arrays
      BY <3>1 DEF IInv, BufferOK, BufferTyped
    <3> QED BY <3>1, <3>2 DEF IInv, BufferOK, CountedOK
  <2> QED BY <2>1, <2>2
<1> QED BY <1>1, IInvHolds, PTL

\* A request's events are his who sent them, and a setting in the cache that is not
\* the stored one has its reason.
LEMMA StaleStep == RestTyped /\ RequestsOK /\ StaleForAReason /\ [Next]_vars => StaleForAReason'
<1> SUFFICES ASSUME RestTyped, RequestsOK, StaleForAReason, [Next]_vars
             PROVE  StaleForAReason'
  OBVIOUS
<1>1. /\ config \in [Users -> Setting \cup {"none"}] /\ cache \in [Users -> Setting \cup {"none"}]
      /\ update \in [Admins -> Users \cup {Nobody}]
      /\ \A u \in Users : cache[u] \notin {"none", config[u]} =>
           u \in excused \/ \E a \in Admins : update[a] = u
  BY DEF RestTyped, StaleForAReason
<1>2. CASE UNCHANGED policy /\ UNCHANGED excused
  BY <1>1, <1>2 DEF policy, StaleForAReason
<1>3. ASSUME NEW r \in Requests, CreateConfig(r) PROVE StaleForAReason'
  <2>1. /\ req[r].user \in Users /\ config[req[r].user] = "none"
        /\ config' = [config EXCEPT ![req[r].user] = "on"]
        /\ UNCHANGED <<cache, update, excused>>
    BY <1>3 DEF CreateConfig, RequestsOK, Free
  <2> QED BY <1>1, <2>1 DEF StaleForAReason
<1>4. ASSUME NEW r \in Requests, UseConfig(r) PROVE StaleForAReason'
  <2> DEFINE u == req[r].user
  <2>1. /\ u \in Users /\ UNCHANGED <<config, update>>
        /\ cache' = [cache EXCEPT ![u] = req[r].row]
        /\ excused' = IF config[u] = req[r].row THEN excused \ {u} ELSE excused \cup {u}
    BY <1>4 DEF UseConfig, RequestsOK, Free
  <2> HIDE DEF u
  <2> QED BY <1>1, <2>1 DEF StaleForAReason
<1>5. ASSUME NEW a \in Admins, NEW u \in Users, NEW setting, UpsertConfig(a, u, setting)
      PROVE  StaleForAReason'
  <2>1. /\ config' = [config EXCEPT ![u] = setting] /\ update' = [update EXCEPT ![a] = u]
        /\ update[a] = Nobody /\ UNCHANGED <<cache, excused>>
    BY <1>5 DEF UpsertConfig
  <2>2. update'[a] = u /\ \A b \in Admins \ {a} : update'[b] = update[b]
    BY <1>1, <2>1
  <2>3. \A v \in Users \ {u} : config'[v] = config[v]
    BY <1>1, <2>1
  <2>4. Nobody \notin Users
    BY NoneAssumption
  <2> QED BY <1>1, <2>1, <2>2, <2>3, <2>4 DEF StaleForAReason
<1>6. ASSUME NEW a \in Admins, InvalidateCache(a) PROVE StaleForAReason'
  <2>1. /\ update[a] \in Users /\ UNCHANGED config
        /\ cache' = [cache EXCEPT ![update[a]] = "none"]
        /\ excused' = excused \ {update[a]}
        /\ update' = [update EXCEPT ![a] = Nobody]
    BY <1>1, <1>6 DEF InvalidateCache
  <2>2. cache'[update[a]] = "none" /\ \A v \in Users \ {update[a]} : cache'[v] = cache[v]
    BY <1>1, <2>1
  <2>3. \A b \in Admins \ {a} : update'[b] = update[b]
    BY <1>1, <2>1
  <2> QED BY <1>1, <2>1, <2>2, <2>3 DEF StaleForAReason
<1>7. ASSUME NEW a \in Admins, UpdateFails(a) PROVE StaleForAReason'
  <2>1. /\ UNCHANGED <<config, cache>> /\ excused' = excused \cup {update[a]}
        /\ \A b \in Admins \ {a} : update'[b] = update[b]
    BY <1>1, <1>7 DEF UpdateFails
  <2> QED BY <1>1, <2>1 DEF StaleForAReason
<1>8. ASSUME NEW u \in Users, ExpireCache(u) PROVE StaleForAReason'
  BY <1>1, <1>8 DEF ExpireCache, StaleForAReason
<1>9. CASE Restart
  BY <1>9 DEF Restart, StaleForAReason
<1>10. ASSUME NEW r \in Requests,
              \/ \E u \in Users, es \in SUBSET Events : LogBatch(r, u, es)
              \/ \E u \in Users : GetMonitoringConfig(r, u)
              \/ ReadConfig(r) \/ ReadNoConfig(r) \/ RejectBatch(r)
       PROVE  StaleForAReason'
  BY <1>2, <1>10 DEF LogBatch, GetMonitoringConfig, ReadConfig, ReadNoConfig, RejectBatch
<1>11. ASSUME NEW c \in Cycles, StartCycle(c) \/ Commit(c) \/ Return(c) \/ Throw(c)
       PROVE  StaleForAReason'
  BY <1>2, <1>11 DEF StartCycle, Commit, Return, Throw
<1>12. ASSUME NEW a \in Admins, NEW u \in Users,
              ToggleEmployeeMonitoring(a, u) \/ UpdateMonitoringConfig(a, u)
       PROVE  StaleForAReason'
  BY <1>5, <1>12 DEF ToggleEmployeeMonitoring, UpdateMonitoringConfig
<1>13. CASE UNCHANGED vars
  BY <1>2, <1>13 DEF vars, policy
<1> QED BY <1>3, <1>4, <1>6, <1>7, <1>8, <1>9, <1>10, <1>11, <1>12, <1>13 DEF Next

\* The cache of getMonitoringConfig is never wrong without one of the reasons the
\* model names, however many readers and updates are under way.
THEOREM StaleOnlyForAReason == Spec => []StaleForAReason
<1>1. Init => StaleForAReason
  BY DEF Init, StaleForAReason
<1>2. IInv => RestTyped /\ RequestsOK
  BY DEF IInv
<1> QED BY <1>1, <1>2, IInvHolds, StaleStep, PTL DEF Spec

-----------------------------------------------------------------------------
(* Nothing is forgotten that was not overlapped.                           *)

\* An event waits, or is in the batch of a cycle other than c.
Elsewhere(c, e, ent, con, cyc) ==
  \/ \E u \in Users : ent[u] \in Arrays /\ e \in con[ent[u]]
  \/ \E d \in Cycles \ {c} : e \in cyc[d].batch

\* Then it is still there after FlushNext.
LEMMA FlushKeepsHeld ==
  ASSUME NEW c \in Cycles, NEW ks, NEW ent, NEW con, NEW cyc, NEW e,
         BufferTyped(ks, ent, con, cyc), MapOK(ks, ent), FlushNext(c, ks, ent, con, cyc),
         Elsewhere(c, e, ent, con, cyc)
  PROVE  Held(e)'
<1>0. NoArray \notin Arrays
  <2>1. Cardinality(Users) \in Nat /\ Cardinality(Cycles) \in Nat
    BY SmallAssumption, FS_CardinalityType
  <2> QED BY <2>1, NoneAssumption DEF Arrays
<1>1. entry' = ent
  BY FlushNextCases
<1>2. CASE \E d \in Cycles \ {c} : e \in cyc[d].batch
  BY <1>2, FlushMoves DEF Held
<1>3. ASSUME NEW v \in Users, ent[v] \in Arrays, e \in con[ent[v]]
      PROVE  Held(e)'
  <2>1. CASE Ends(c, ent, con, cyc)
    <3>1. content'[ent[v]] = con[ent[v]]
      BY <1>3, <2>1 DEF Ends
    <3> QED BY <1>0, <1>1, <1>3, <3>1 DEF Held, Waiting
  <2>2. ASSUME NEW u \in Users, Takes(c, u, ks, ent, con, cyc)
        PROVE  Held(e)'
    <3>1. CASE ent[v] = ent[u]
      <4>1. e \in cycle'[c].batch
        BY <1>3, <2>2, <3>1 DEF Takes
      <4> QED BY <4>1 DEF Held
    <3>2. CASE ent[v] # ent[u]
      <4>1. content'[ent[v]] = con[ent[v]]
        BY <1>3, <2>2, <3>2 DEF Takes
      <4> QED BY <1>0, <1>1, <1>3, <4>1 DEF Held, Waiting
    <3> QED BY <3>1, <3>2
  <2> QED BY <2>1, <2>2, FlushNextCases
<1> QED BY <1>2, <1>3 DEF Elsewhere

\* A batch only adds to the buffer.
LEMMA BufferKeepsHeld ==
  ASSUME BufferTyped(keys, entry, content, cycle), MapOK(keys, entry), NEW e, Held(e),
         NEW u \in Users, NEW es \in SUBSET Events, BufferActivityEvents(u, es)
  PROVE  Held(e)'
<1>1. CASE \E c \in Cycles : e \in cycle[c].batch
  BY <1>1, BufferAdds DEF Held
<1>2. ASSUME NEW v \in Users, entry[v] # NoArray, e \in content[entry[v]]
      PROVE  Held(e)'
  <2>1. entry[v] \in Arrays
    BY <1>2 DEF BufferTyped
  <2>2. CASE /\ entry[u] \in Arrays
             /\ content' = [content EXCEPT ![entry[u]] = @ \cup es]
             /\ UNCHANGED <<keys, entry, cycle>>
    <3>1. e \in content'[entry[v]]
      BY <1>2, <2>1, <2>2 DEF BufferTyped
    <3> QED BY <1>2, <2>2, <3>1 DEF Held, Waiting
  <2>3. ASSUME entry[u] = NoArray, NEW a \in Unused,
               entry' = [entry EXCEPT ![u] = a], content' = [content EXCEPT ![a] = es]
        PROVE  Held(e)'
    <3>1. v # u /\ entry[v] # a
      BY <1>2, <2>3 DEF Unused
    <3>2. entry'[v] = entry[v] /\ content'[entry[v]] = content[entry[v]]
      BY <2>1, <2>3, <3>1 DEF BufferTyped
    <3> QED BY <1>2, <3>2 DEF Held, Waiting
  <2> QED BY <2>2, <2>3, BufferCases
<1> QED BY <1>1, <1>2 DEF Held, Waiting

\* A flush that returns or fails keeps what it does not have, and lets go of what it
\* has only when it was overlapped; it then ends, or takes another batch.
LEMMA ReturnKeepsHeld ==
  ASSUME IInv, NEW c \in Cycles, Return(c), NEW e \in Events, Held(e), copies[e] = 0
  PROVE  Held(e)' \/ (cycle[c].crossed /\ cycle'[c] # cycle[c])
<1> DEFINE u == cycle[c].user
           ks == Delete(keys, u)
           ent == [entry EXCEPT ![u] = NoArray]
           cyc == [d \in Cycles |-> [cycle[d] EXCEPT !.todo = @ \ {u}]]
<1>1. /\ BufferTyped(keys, entry, content, cycle) /\ MapOK(keys, entry)
      /\ CyclesOK(entry, cycle, Cycles)
      /\ CountedOK(content, cycle, Cycles, unsure)
      /\ c \in Running /\ cycle[c].stored
  BY DEF IInv, BufferOK, Return
<1>2. e \notin cycle[c].batch
  BY <1>1 DEF CountedOK
<1>3. Elsewhere(c, e, entry, content, cycle)
  BY <1>1, <1>2 DEF Elsewhere, Held, Waiting, BufferTyped
<1>4. CASE FlushNext(c, keys, entry, content, cycle)
  BY <1>1, <1>3, <1>4, FlushKeepsHeld
<1>5. CASE content[cycle[c].array] = {} /\ FlushNext(c, ks, ent, content, cyc)
  <2>0. u \in Users
    BY <1>1 DEF BufferTyped, Cycle, Running
  <2>1. BufferTyped(ks, ent, content, cyc) /\ MapOK(ks, ent)
    BY <1>1, <2>0, DeletedInOrder
  <2>2. \A d \in Cycles : cyc[d].batch = cycle[d].batch
    <3> SUFFICES ASSUME NEW d \in Cycles PROVE cyc[d].batch = cycle[d].batch
      OBVIOUS
    <3>1. cycle[d] \in Cycle /\ cyc[d] = [cycle[d] EXCEPT !.todo = @ \ {u}]
      BY <1>1 DEF BufferTyped
    <3> HIDE DEF cyc
    <3> QED BY <3>1 DEF Cycle
  <2>3. \A v \in Users \ {u} : ent[v] = entry[v]
    BY <1>1 DEF BufferTyped
  <2>4. CASE e \in content[entry[u]] /\ entry[u] \in Arrays
    <3>1. cycle[c].crossed
      BY <1>1, <1>5, <2>4 DEF CyclesOK, Running
    <3>2. cycle'[c] = Idle \/ ~ cycle'[c].stored
      <4> HIDE DEF ks, ent, cyc
      <4> QED BY <1>5, <2>1, FlushMoves
    <3> QED BY <1>1, <3>1, <3>2 DEF Idle
  <2>5. CASE ~ (e \in content[entry[u]] /\ entry[u] \in Arrays)
    <3>1. Elsewhere(c, e, ent, content, cyc)
      <4> HIDE DEF ent, cyc, u
      <4> QED BY <1>3, <2>2, <2>3, <2>5 DEF Elsewhere
    <3> HIDE DEF ks, ent, cyc
    <3> QED BY <1>5, <2>1, <3>1, FlushKeepsHeld
  <2> QED BY <2>4, <2>5
<1> QED BY <1>4, <1>5 DEF Return

LEMMA ThrowKeepsHeld ==
  ASSUME IInv, NEW c \in Cycles, Throw(c), NEW e \in Events, Held(e)
  PROVE  Held(e)' \/ (cycle[c].crossed /\ cycle'[c] # cycle[c])
<1> DEFINE u == cycle[c].user
           batch == cycle[c].batch
           home == cycle[c].array
           con == [content EXCEPT ![home] = @ \cup batch]
<1>1. /\ BufferTyped(keys, entry, content, cycle) /\ MapOK(keys, entry)
      /\ CyclesOK(entry, cycle, Cycles)
      /\ c \in Running /\ FlushNext(c, keys, entry, con, cycle)
  BY DEF IInv, BufferOK, Throw
<1>2. /\ u \in Users /\ batch \subseteq Events /\ home \in Arrays
      /\ ~ cycle[c].crossed => entry[u] = home
      /\ u # Nobody
  BY <1>1 DEF BufferTyped, Cycle, CyclesOK, Running
<1>3. /\ con \in [Arrays -> SUBSET Events] /\ con[home] = content[home] \cup batch
      /\ \A a \in Arrays : content[a] \subseteq con[a]
  BY <1>1, <1>2 DEF BufferTyped
<1>4. BufferTyped(keys, entry, con, cycle)
  BY <1>1, <1>3 DEF BufferTyped
<1> HIDE DEF con
<1>5. CASE Elsewhere(c, e, entry, con, cycle)
  BY <1>1, <1>4, <1>5, FlushKeepsHeld
<1>6. e \in batch \/ Elsewhere(c, e, entry, con, cycle)
  BY <1>1, <1>3 DEF Elsewhere, Held, Waiting, BufferTyped
<1>7. CASE e \in batch /\ ~ cycle[c].crossed
  <2>1. entry[u] \in Arrays /\ e \in con[entry[u]]
    BY <1>2, <1>3, <1>7
  <2> HIDE DEF u
  <2>2. Elsewhere(c, e, entry, con, cycle)
    BY <1>2, <2>1 DEF Elsewhere
  <2> QED BY <1>5, <2>2
<1>8. CASE cycle[c].crossed
  <2>1. CASE Ends(c, entry, con, cycle)
    <3>1. cycle'[c] = Idle
      BY <1>1, <2>1 DEF Ends, BufferTyped
    <3> QED BY <1>2, <1>8, <3>1 DEF Idle
  <2>2. ASSUME NEW v \in Users, Takes(c, v, keys, entry, con, cycle)
        PROVE  cycle'[c] # cycle[c]
    BY <2>2 DEF Takes
  <2> QED BY <1>1, <1>4, <1>8, <2>1, <2>2, FlushNextCases
<1> QED BY <1>5, <1>6, <1>7, <1>8

\* Every step keeps every event that is held and not yet stored, but for a restart and
\* a flush that was overlapped.
LEMMA NextKeepsHeld ==
  ASSUME IInv, [Next]_vars, NEW e \in Events, Held(e), copies[e] = 0, ~ Held(e)'
  PROVE  Restart \/ \E c \in Running : cycle[c].crossed /\ cycle'[c] # cycle[c]
<1> DEFINE Excuse == Restart \/ \E c \in Running : cycle[c].crossed /\ cycle'[c] # cycle[c]
<1>1. /\ BufferTyped(keys, entry, content, cycle) /\ MapOK(keys, entry)
      /\ CyclesOK(entry, cycle, Cycles) /\ RequestsOK /\ RestTyped
  BY DEF IInv, BufferOK
<1>2. ~ UNCHANGED <<entry, content, cycle>>
  BY DEF Held, Waiting
<1>3. ASSUME NEW u \in Users, NEW es \in SUBSET Events, NEW setting, Decide(u, es, setting)
      PROVE  FALSE
  <2>1. CASE BufferActivityEvents(u, es)
    BY <1>1, <2>1, BufferKeepsHeld
  <2>2. CASE UNCHANGED buffer
    BY <2>2 DEF buffer, Held, Waiting
  <2> QED BY <1>3, <2>1, <2>2 DEF Decide
<1>4. ASSUME NEW r \in Requests,
             \/ \E u \in Users, es \in SUBSET Events : LogBatch(r, u, es)
             \/ \E u \in Users : GetMonitoringConfig(r, u)
             \/ ReadConfig(r) \/ ReadNoConfig(r) \/ CreateConfig(r) \/ RejectBatch(r)
      PROVE  FALSE
  BY <1>3, <1>4 DEF LogBatch, GetMonitoringConfig, ReadConfig, ReadNoConfig, CreateConfig,
                    RejectBatch, buffer, Held, Waiting
<1>5. ASSUME NEW r \in Requests, UseConfig(r)
      PROVE  FALSE
  <2>1. req[r].user \in Users /\ req[r].events \in SUBSET Events
    BY <1>1, <1>5 DEF UseConfig, RequestsOK, RestTyped
  <2> QED BY <1>3, <1>5, <2>1 DEF UseConfig, buffer, Held, Waiting
<1>6. ASSUME NEW a \in Admins, NEW u \in Users,
             ToggleEmployeeMonitoring(a, u) \/ UpdateMonitoringConfig(a, u)
      PROVE  FALSE
  BY <1>2, <1>6 DEF ToggleEmployeeMonitoring, UpdateMonitoringConfig, UpsertConfig, buffer
<1>7. ASSUME NEW a \in Admins, InvalidateCache(a) \/ UpdateFails(a)
       PROVE  FALSE
  BY <1>2, <1>7 DEF InvalidateCache, UpdateFails, buffer
<1>8. ASSUME NEW u \in Users, ExpireCache(u)
       PROVE  FALSE
  BY <1>2, <1>8 DEF ExpireCache, buffer
<1>9. ASSUME NEW c \in Cycles, StartCycle(c)
      PROVE  FALSE
  <2> DEFINE cyc == [cycle EXCEPT ![c].todo = {keys[i] : i \in DOMAIN keys}]
  <2>1. FlushNext(c, keys, entry, content, cyc) /\ cycle[c] = Idle
    BY <1>9, <1>1 DEF StartCycle, CyclesOK
  <2>2. \A d \in Cycles \ {c} : cyc[d] = cycle[d]
    BY <1>1 DEF BufferTyped
  <2>3. BufferTyped(keys, entry, content, cyc)
    <3>1. {keys[i] : i \in DOMAIN keys} \subseteq Users
      BY <1>1, ElementOfSeq, LenProperties DEF BufferTyped
    <3>2. cyc \in [Cycles -> Cycle]
      BY <1>1, <3>1 DEF BufferTyped, Cycle
    <3> QED BY <1>1, <3>2 DEF BufferTyped
  <2> HIDE DEF cyc
  <2>4. Elsewhere(c, e, entry, content, cyc)
    BY <1>1, <2>1, <2>2 DEF Elsewhere, Held, Waiting, BufferTyped, Idle
  <2> QED BY <1>1, <2>1, <2>3, <2>4, FlushKeepsHeld
<1>10. ASSUME NEW c \in Cycles, Commit(c)
      PROVE  FALSE
  <2>1. \A d \in Cycles : cycle'[d].batch = cycle[d].batch
    <3> SUFFICES ASSUME NEW d \in Cycles PROVE cycle'[d].batch = cycle[d].batch
      OBVIOUS
    <3>1. cycle[d] \in Cycle
      BY <1>1 DEF BufferTyped
    <3>2. cycle'[d] = IF d = c THEN [cycle[d] EXCEPT !.stored = TRUE] ELSE cycle[d]
      BY <1>1, <1>10 DEF Commit, BufferTyped
    <3> QED BY <3>1, <3>2 DEF Cycle
  <2> QED BY <1>10, <2>1 DEF Commit, Held, Waiting
<1>11. ASSUME NEW c \in Cycles, Return(c) \/ Throw(c)
      PROVE  Excuse
  <2>1. cycle[c].crossed /\ cycle'[c] # cycle[c] /\ c \in Running
    BY <1>11, ReturnKeepsHeld, ThrowKeepsHeld DEF Return, Throw
  <2> QED BY <2>1
<1>12. Next \/ UNCHANGED vars
  OBVIOUS
<1>13. Restart => Excuse
  OBVIOUS
<1>14. ~ UNCHANGED vars
  BY <1>2 DEF vars
<1> SUFFICES Excuse
  OBVIOUS
<1> HIDE DEF Excuse
<1> QED BY <1>4, <1>5, <1>6, <1>9, <1>10, <1>11, <1>12, <1>13, <1>14, <1>7, <1>8 DEF Next

\* An accepted event that is not yet stored is let go of only by a restart, or by a
\* flush of a user that another flush of the same user overlapped: flushes that do not
\* overlap lose nothing, whatever arrives during a write and whichever write fails.
THEOREM ForgottenOnlyOverlapped == Spec => ForgottenOnlyByOverlap
<1>1. IInv /\ [Next]_vars =>
        [\A e \in Events :
           Held(e) /\ copies[e] = 0 /\ ~ Held(e)' =>
             \/ Restart
             \/ \E c \in Running : cycle[c].crossed /\ cycle'[c] # cycle[c]]_vars
  BY NextKeepsHeld
<1> QED BY <1>1, IInvHolds, PTL DEF Spec, ForgottenOnlyByOverlap
=============================================================================
