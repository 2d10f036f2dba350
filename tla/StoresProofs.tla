---------------------------- MODULE StoresProofs -----------------------------
(***************************************************************************)
(* Stores for any names and patches: the profiles stay coherent and the     *)
(* selection stable, config.json is whole and has every patch unless two of *)
(* them overlap.                                                            *)
(***************************************************************************)
EXTENDS Stores, FiniteSetTheorems, FunctionTheorems, TLAPS

-----------------------------------------------------------------------------
(* What a filter loop leaves of a list *)

\* How many indices of K there are up to i.
Rank(K, i) == Cardinality({j \in K : j <= i})

\* The rank counts K through: every number up to its size is the rank of
\* exactly one index.
LEMMA RankIsBijection ==
    ASSUME NEW m \in Nat, NEW K \in SUBSET (1..m)
    PROVE  /\ Cardinality(K) \in Nat /\ Cardinality(K) <= m
           /\ \A i \in K : Rank(K, i) \in 1..Cardinality(K)
           /\ \A i, k \in K : Rank(K, i) = Rank(K, k) => i = k
           /\ \A n \in 1..Cardinality(K) : \E i \in K : Rank(K, i) = n
<1> DEFINE Upto(i) == {j \in K : j <= i}
           r == [i \in K |-> Rank(K, i)]
<1>1. IsFiniteSet(K) /\ Cardinality(K) \in Nat /\ Cardinality(K) <= m
  <2>1. IsFiniteSet(1..m) /\ Cardinality(1..m) = m
    BY FS_Interval
  <2> QED BY <2>1, FS_Subset, FS_CardinalityType
<1>2. \A i \in K : IsFiniteSet(Upto(i)) /\ Cardinality(Upto(i)) \in Nat
                     /\ Cardinality(Upto(i)) <= Cardinality(K)
  BY <1>1, FS_Subset, FS_CardinalityType
<1>3. \A i \in K : Rank(K, i) \in 1..Cardinality(K)
  <2> TAKE i \in K
  <2>1. i \in Upto(i)
    OBVIOUS
  <2>2. Cardinality(Upto(i)) # 0
    BY <1>2, <2>1, FS_EmptySet
  <2> QED BY <1>1, <1>2, <2>2 DEF Rank
<1>4. ASSUME NEW i \in K, NEW k \in K, i < k
      PROVE  Rank(K, i) # Rank(K, k)
  <2>1. Upto(i) \in SUBSET Upto(k) /\ k \in Upto(k) /\ k \notin Upto(i)
    <3>1. \A j \in K : j \in Nat
      OBVIOUS
    <3>2. \A j \in K : j <= i => j <= k
      BY <1>4, <3>1
    <3>3. k <= k /\ ~(k <= i)
      BY <1>4, <3>1
    <3> QED BY <3>2, <3>3
  <2>2. Cardinality(Upto(k)) # Cardinality(Upto(i))
    BY <1>2, <2>1, FS_Subset
  <2> QED BY <2>2 DEF Rank
<1>5. \A i, k \in K : Rank(K, i) = Rank(K, k) => i = k
  <2>1. \A i, k \in K : i < k \/ k < i \/ i = k
    OBVIOUS
  <2> QED BY <1>4, <2>1
<1>6. r \in Injection(K, 1..Cardinality(K))
  BY <1>3, <1>5, Fun_IsInj
<1>7. IsFiniteSet(1..Cardinality(K)) /\ Cardinality(1..Cardinality(K)) = Cardinality(K)
  BY <1>1, FS_Interval
<1>8. r \in Surjection(K, 1..Cardinality(K))
  BY <1>6, <1>7, FS_Injection
<1>9. \A n \in 1..Cardinality(K) : \E i \in K : r[i] = n
  BY <1>8 DEF Surjection
<1> QED BY <1>1, <1>3, <1>5, <1>9

\* A set of indices has a first one.
LEMMA FirstIndex ==
    ASSUME NEW m \in Nat, NEW K \in SUBSET (1..m), K # {}
    PROVE  \E i \in K : \A j \in K : i <= j
<1>1. IsFiniteSet(K) /\ Cardinality(K) \in Nat
  <2>1. IsFiniteSet(1..m)
    BY FS_Interval
  <2> QED BY <2>1, FS_Subset, FS_CardinalityType
<1>2. Cardinality(K) # 0
  BY <1>1, FS_EmptySet
<1>3. PICK i \in K : Rank(K, i) = 1
  BY <1>1, <1>2, RankIsBijection
<1>4. ASSUME NEW j \in K, ~(i <= j) PROVE FALSE
  <2>1. i \in Nat /\ j \in Nat /\ (\A k \in K : k \in Nat)
    OBVIOUS
  <2>2. {k \in K : k <= j} \in SUBSET {k \in K : k <= i}
    <3>1. \A k \in K : k <= j => k <= i
      BY <1>4, <2>1
    <3> QED BY <3>1
  <2>3. IsFiniteSet({k \in K : k <= i})
    BY <1>1, FS_Subset
  <2>4. Rank(K, j) <= Rank(K, i)
    BY <2>2, <2>3, FS_Subset DEF Rank
  <2>5. Rank(K, j) \in 1..Cardinality(K)
    BY RankIsBijection
  <2>6. Rank(K, j) = Rank(K, i)
    BY <1>1, <1>3, <2>4, <2>5
  <2>7. i = j
    BY <2>6, RankIsBijection
  <2> QED BY <1>4, <2>1, <2>7
<1> QED BY <1>4

\* The list t has elements of s only, each from an index of its own in K, and
\* all that are to be kept.
Filters(t, s, K) ==
    \E f \in [DOMAIN t -> K] :
        /\ \A n \in DOMAIN t : t[n] = s[f[n]]
        /\ \A n, m \in DOMAIN t : f[n] = f[m] => n = m
        /\ \A i \in K : \E n \in DOMAIN t : f[n] = i

\* That is what a filter loop leaves.
LEMMA KeptElements ==
    ASSUME NEW S, NEW s \in Seq(S), NEW K \in SUBSET (DOMAIN s)
    PROVE  /\ Kept(s, K) \in Seq(S) /\ Len(Kept(s, K)) <= Len(s)
           /\ Filters(Kept(s, K), s, K)
<1> DEFINE c == Cardinality(K)
           f == [n \in 1..c |-> CHOOSE i \in K : Rank(K, i) = n]
<1>1. Len(s) \in Nat /\ K \in SUBSET (1..Len(s))
  OBVIOUS
<1>2. c \in Nat /\ c <= Len(s)
  BY <1>1, RankIsBijection
<1>3. \A n \in 1..c : f[n] \in K /\ Rank(K, f[n]) = n
  <2>1. \A n \in 1..c : \E i \in K : Rank(K, i) = n
    BY <1>1, RankIsBijection
  <2> QED BY <2>1
<1>4. \A i \in K : Rank(K, i) \in 1..c /\ f[Rank(K, i)] = i
  <2>1. \A i \in K : Rank(K, i) \in 1..c
    BY <1>1, RankIsBijection
  <2>2. \A i, k \in K : Rank(K, i) = Rank(K, k) => i = k
    BY <1>1, RankIsBijection
  <2> QED BY <1>3, <2>1, <2>2
<1>5. Kept(s, K) = [n \in 1..c |-> s[f[n]]]
  BY DEF Kept, Rank
<1> HIDE DEF f, c
<1>6. \A n \in 1..c : s[f[n]] \in S
  BY <1>1, <1>3
<1>7. Kept(s, K) \in Seq(S) /\ DOMAIN Kept(s, K) = 1..c /\ Len(Kept(s, K)) = c
  BY <1>2, <1>5, <1>6
<1>8. f \in [1..c -> K]
  BY <1>3 DEF f
<1> QED BY <1>2, <1>3, <1>4, <1>5, <1>7, <1>8, SMTT(30) DEF Filters

-----------------------------------------------------------------------------
(* profiles.json *)

\* No two profiles share an id.
Unique(pf) == \A i, j \in DOMAIN pf.list : pf.list[i].id = pf.list[j].id => i = j

\* The selected profile exists and is the only one flagged.
Coherent(pf) ==
    /\ Unique(pf)
    /\ pf.selected # NoId => pf.selected \in IdsOf(pf)
    /\ \A i \in DOMAIN pf.list : pf.list[i].selected <=> pf.list[i].id = pf.selected

ProfilesOK(pf) == pf \in Files /\ Len(pf.list) <= MaxProfiles /\ Coherent(pf)

Entries == [id: Ids, selected: BOOLEAN]

\* An id is a pair, no id is not.
LEMMA NoIdIsNoId == NoId \notin Ids
  BY DEF NoId, Ids

\* The ids of a file, as ids of its entries.
LEMMA FileFacts ==
    ASSUME NEW pf \in Files
    PROVE  /\ pf.list \in Seq(Entries) /\ Len(pf.list) \in Nat
           /\ DOMAIN pf.list = 1..Len(pf.list)
           /\ \A i \in DOMAIN pf.list : pf.list[i] \in Entries /\ pf.list[i].id \in Ids
           /\ IdsOf(pf) \subseteq Ids
<1>1. pf.list \in Seq(Entries)
  BY DEF Files, Entries
<1>2. \A i \in DOMAIN pf.list : pf.list[i] \in Entries
  BY <1>1
<1>3. \A i \in DOMAIN pf.list : pf.list[i].id \in Ids
  BY <1>2 DEF Entries
<1> QED BY <1>1, <1>2, <1>3 DEF IdsOf

\* selectProfileByID makes a coherent file of any that has the id, and keeps
\* the profiles.
LEMMA SelectingOK ==
    ASSUME NEW pf, NEW id, pf \in Files, Len(pf.list) <= MaxProfiles, Unique(pf),
           id \in IdsOf(pf)
    PROVE  ProfilesOK(Selecting(pf, id)) /\ Selecting(pf, id).selected = id
<1> DEFINE l == [i \in DOMAIN pf.list |-> [pf.list[i] EXCEPT !.selected = (pf.list[i].id = id)]]
           new == Selecting(pf, id)
<1>1. new = [list |-> l, selected |-> id] /\ id \in Ids
  BY FileFacts DEF Selecting
<1>2. \A i \in DOMAIN pf.list :
        /\ l[i] \in Entries /\ l[i].id = pf.list[i].id
        /\ l[i].selected = (pf.list[i].id = id)
  BY FileFacts, ZenonT(60) DEF Entries
<1>3. l \in Seq(Entries) /\ DOMAIN l = DOMAIN pf.list /\ Len(l) = Len(pf.list)
  <2>1. DOMAIN l = 1..Len(pf.list) /\ DOMAIN pf.list = 1..Len(pf.list) /\ Len(pf.list) \in Nat
    BY FileFacts
  <2>2. \A i \in 1..Len(pf.list) : l[i] \in Entries
    BY <1>2, <2>1
  <2> HIDE DEF l
  <2>3. l = [i \in 1..Len(pf.list) |-> l[i]]
    BY <2>1 DEF l
  <2> QED BY <2>1, <2>2, <2>3
<1> HIDE DEF l
<1>4. new \in Files /\ Len(new.list) <= MaxProfiles
  BY <1>1, <1>3 DEF Files, Entries
<1>5. \A i \in DOMAIN new.list : new.list[i].id = pf.list[i].id
  BY <1>1, <1>2, <1>3
<1>6. Unique(new)
  BY <1>1, <1>3, <1>5 DEF Unique
<1>7. id \in IdsOf(new)
  BY <1>1, <1>3, <1>5 DEF IdsOf
<1>8. \A i \in DOMAIN new.list : new.list[i].selected <=> new.list[i].id = new.selected
  <2>1. new.list = l /\ new.selected = id
    BY <1>1
  <2>2. \A i \in DOMAIN l : l[i].selected <=> l[i].id = id
    BY <1>2, <1>3
  <2> HIDE DEF new
  <2> QED BY <2>1, <2>2
<1>9. new.selected = id
  BY <1>1
<1> HIDE DEF new
<1>10. ProfilesOK(new)
  BY <1>4, <1>6, <1>7, <1>8, <1>9 DEF ProfilesOK, Coherent
<1> QED BY <1>9, <1>10 DEF new

\* A profile is put into the list: in its place or at the end.
Put(pf, id, new) ==
    [pf EXCEPT !.list = IF id \in IdsOf(pf) /\ ~new
                        THEN [i \in DOMAIN @ |-> IF @[i].id = id
                                                 THEN [id |-> id, selected |-> FALSE] ELSE @[i]]
                        ELSE Append(@, [id |-> id, selected |-> FALSE])]

\* That keeps the ids unique and the other profiles as they are.
LEMMA PutOK ==
    ASSUME NEW pf, NEW id \in Ids, NEW new \in BOOLEAN, ProfilesOK(pf),
           new => id \notin IdsOf(pf),
           id \in IdsOf(pf) \/ Len(pf.list) < MaxProfiles
    PROVE  LET nx == Put(pf, id, new)
           IN  /\ nx \in Files /\ Len(nx.list) <= MaxProfiles /\ Unique(nx)
               /\ nx.selected = pf.selected /\ IdsOf(nx) = IdsOf(pf) \cup {id}
               /\ \A i \in DOMAIN nx.list :
                    /\ nx.list[i].id # id =>
                         i \in DOMAIN pf.list /\ nx.list[i] = pf.list[i]
                    /\ nx.list[i].id = id => nx.list[i].selected = FALSE
<1> DEFINE nx == Put(pf, id, new)
           p == [id |-> id, selected |-> FALSE]
<1>0. /\ pf \in Files /\ Len(pf.list) <= MaxProfiles /\ Unique(pf) /\ p \in Entries
      /\ Len(pf.list) \in Nat /\ MaxProfiles \in Nat
  BY FileFacts, StoreAssumption DEF ProfilesOK, Coherent, Entries
<1>1. nx.selected = pf.selected /\ (nx.list \in Seq(Entries) => nx \in Files)
  BY <1>0 DEF Put, Files, Entries
<1>2. CASE id \in IdsOf(pf)
  <2> DEFINE l == [i \in DOMAIN pf.list |-> IF pf.list[i].id = id THEN p ELSE pf.list[i]]
  <2>1. nx.list = l
    BY <1>0, <1>2 DEF Put, Files
  <2>2. \A i \in DOMAIN pf.list : l[i] \in Entries /\ l[i].id = pf.list[i].id
    BY <1>0, FileFacts
  <2>3. l \in Seq(Entries) /\ DOMAIN l = DOMAIN pf.list /\ Len(l) = Len(pf.list)
    <3>1. DOMAIN l = 1..Len(pf.list) /\ Len(pf.list) \in Nat
      BY <1>0, FileFacts
    <3>2. \A i \in 1..Len(pf.list) : l[i] \in Entries
      BY <2>2, <3>1
    <3> HIDE DEF l
    <3>3. l = [i \in 1..Len(pf.list) |-> l[i]]
      BY <3>1 DEF l
    <3> QED BY <1>0, <3>1, <3>2, <3>3, FileFacts
  <2>4. Unique(nx)
    BY <1>0, <2>1, <2>2, <2>3 DEF Unique
  <2>5. IdsOf(nx) = IdsOf(pf) \cup {id}
    <3>1. \A i \in DOMAIN pf.list : nx.list[i].id = pf.list[i].id
      BY <2>1, <2>2
    <3>2. DOMAIN nx.list = DOMAIN pf.list
      BY <2>1, <2>3
    <3>3. IdsOf(nx) = IdsOf(pf)
      BY <3>1, <3>2 DEF IdsOf
    <3> QED BY <1>2, <3>3
  <2>6. \A i \in DOMAIN nx.list :
          /\ nx.list[i].id # id => nx.list[i] = pf.list[i]
          /\ nx.list[i].id = id => nx.list[i].selected = FALSE
    BY <2>1, <2>2, <2>3
  <2> HIDE DEF l, nx
  <2> QED BY <1>0, <1>1, <2>1, <2>3, <2>4, <2>5, <2>6 DEF nx
<1>3. CASE id \notin IdsOf(pf)
  <2>1. nx.list = Append(pf.list, p)
    BY <1>0, <1>3 DEF Put, Files
  <2>2. /\ nx.list \in Seq(Entries) /\ Len(nx.list) = Len(pf.list) + 1
        /\ DOMAIN nx.list = 1..(Len(pf.list) + 1)
        /\ \A i \in 1..Len(pf.list) : nx.list[i] = pf.list[i]
        /\ nx.list[Len(pf.list) + 1] = p
        /\ DOMAIN pf.list = 1..Len(pf.list)
    BY <1>0, <2>1, FileFacts
  <2>3. \A i \in DOMAIN nx.list : i \in DOMAIN pf.list \/ i = Len(pf.list) + 1
    BY <1>0, <2>2
  <2>4. \A i \in DOMAIN pf.list : pf.list[i].id # id
    BY <1>3 DEF IdsOf
  <2>5. Unique(nx)
    BY <1>0, <2>2, <2>3, <2>4, SMTT(30) DEF Unique
  <2>6. IdsOf(nx) = IdsOf(pf) \cup {id}
    <3>1. IdsOf(nx) \subseteq IdsOf(pf) \cup {id}
      BY <2>2, <2>3 DEF IdsOf
    <3>2. IdsOf(pf) \subseteq IdsOf(nx)
      BY <1>0, <2>2 DEF IdsOf
    <3>3. id \in IdsOf(nx)
      BY <1>0, <2>2 DEF IdsOf
    <3> QED BY <3>1, <3>2, <3>3
  <2>7. \A i \in DOMAIN nx.list :
          /\ nx.list[i].id # id => i \in DOMAIN pf.list /\ nx.list[i] = pf.list[i]
          /\ nx.list[i].id = id => nx.list[i].selected = FALSE
    BY <2>2, <2>3, <2>4
  <2>8. Len(nx.list) <= MaxProfiles
    BY <1>0, <1>3, <2>2
  <2> HIDE DEF nx
  <2> QED BY <1>1, <2>2, <2>5, <2>6, <2>7, <2>8 DEF nx
<1> QED BY <1>2, <1>3

\* upsertProfile keeps the file coherent; unless it selects the profile, the
\* selection is the one of before.
LEMMA UpsertOK ==
    ASSUME NEW pf, NEW id \in Ids, NEW new \in BOOLEAN, NEW select \in BOOLEAN,
           ProfilesOK(pf), new => id \notin IdsOf(pf),
           id \in IdsOf(pf) \/ Len(pf.list) < MaxProfiles
    PROVE  LET up1 == upsertProfile(pf, id, new, select)
           IN  /\ ProfilesOK(up1)
               /\ ~select /\ pf.selected # NoId => up1.selected = pf.selected
<1> DEFINE nx == Put(pf, id, new)
           up1 == upsertProfile(pf, id, new, select)
<1>1. up1 = IF select \/ pf.selected \in {NoId, id} THEN Selecting(nx, id) ELSE nx
  BY DEF upsertProfile, Put
<1>2. /\ nx \in Files /\ Len(nx.list) <= MaxProfiles /\ Unique(nx)
      /\ nx.selected = pf.selected /\ IdsOf(nx) = IdsOf(pf) \cup {id}
  BY PutOK
<1>3. \A i \in DOMAIN nx.list :
        /\ nx.list[i].id # id => i \in DOMAIN pf.list /\ nx.list[i] = pf.list[i]
        /\ nx.list[i].id = id => nx.list[i].selected = FALSE
  BY PutOK
<1> HIDE DEF nx, up1
<1>4. CASE select \/ pf.selected \in {NoId, id}
  <2>1. ProfilesOK(Selecting(nx, id)) /\ Selecting(nx, id).selected = id
    BY <1>2, SelectingOK
  <2> QED BY <1>1, <1>4, <2>1 DEF up1
<1>5. CASE ~(select \/ pf.selected \in {NoId, id})
  <2>1. Coherent(pf)
    BY DEF ProfilesOK
  <2>2. \A i \in DOMAIN nx.list : nx.list[i].selected <=> nx.list[i].id = nx.selected
    BY <1>2, <1>3, <1>5, <2>1 DEF Coherent
  <2>3. Coherent(nx)
    BY <1>2, <2>1, <2>2 DEF Coherent
  <2> QED BY <1>1, <1>2, <1>5, <2>3 DEF up1, ProfilesOK
<1> QED BY <1>4, <1>5

\* uniqueProfileID finds an id that is free: there are fewer profiles than numbers.
LEMMA UniqueIdIsFree ==
    ASSUME NEW pf \in Files, NEW name \in Names, Len(pf.list) < MaxProfiles
    PROVE  uniqueProfileID(pf, name) \in Ids /\ uniqueProfileID(pf, name) \notin IdsOf(pf)
<1> DEFINE top == MaxProfiles + 1
           used == {n \in 1..top : <<name, n>> \in IdsOf(pf)}
           free == {n \in 1..top : <<name, n>> \notin IdsOf(pf)}
<1>0. top \in Nat /\ Len(pf.list) \in Nat /\ Len(pf.list) < top /\ DOMAIN pf.list = 1..Len(pf.list)
  BY StoreAssumption, FileFacts
<1>1. free # {}
  <2> SUFFICES ASSUME free = {} PROVE FALSE
    OBVIOUS
  <2> DEFINE at == [n \in 1..top |-> CHOOSE i \in DOMAIN pf.list : pf.list[i].id = <<name, n>>]
  <2>1. \A n \in 1..top : \E i \in DOMAIN pf.list : pf.list[i].id = <<name, n>>
    BY DEF IdsOf
  <2>2. \A n \in 1..top : at[n] \in DOMAIN pf.list /\ pf.list[at[n]].id = <<name, n>>
    BY <2>1
  <2> HIDE DEF at
  <2>3. at \in [1..top -> 1..Len(pf.list)]
    BY <1>0, <2>2 DEF at
  <2>4. /\ IsFiniteSet(1..top) /\ Cardinality(1..top) = top
        /\ IsFiniteSet(1..Len(pf.list)) /\ Cardinality(1..Len(pf.list)) = Len(pf.list)
    <3>1. \A n \in Nat : IsFiniteSet(1..n) /\ Cardinality(1..n) = n
      BY FS_Interval
    <3> QED BY <1>0, <3>1
  <2>5. PICK n \in 1..top, m \in 1..top : n # m /\ at[n] = at[m]
    BY <1>0, <2>3, <2>4, FS_PigeonHole, SMTT(30)
  <2>6. <<name, n>> = <<name, m>>
    BY <2>2, <2>5
  <2> QED BY <2>5, <2>6
<1>2. PICK n \in free : \A m \in free : n <= m
  BY <1>0, <1>1, FirstIndex
<1>3. /\ n \in 1..top /\ <<name, n>> \notin IdsOf(pf)
      /\ \A m \in 1..(n - 1) : <<name, m>> \in IdsOf(pf)
  <2>1. \A m \in 1..(n - 1) : m \in 1..top /\ ~(n <= m)
    BY <1>0, <1>2
  <2> QED BY <1>2, <2>1
<1>4. PICK k \in 1..top : /\ <<name, k>> \notin IdsOf(pf)
                          /\ uniqueProfileID(pf, name) = <<name, k>>
  BY <1>3 DEF uniqueProfileID
<1> QED BY <1>4 DEF Ids

\* A profile is deleted: the others stay, and stay selected.
LEMMA DeletingOK ==
    ASSUME NEW pf, NEW id \in Ids, ProfilesOK(pf)
    PROVE  /\ ProfilesOK(Deleting(pf, id)) /\ id \notin IdsOf(Deleting(pf, id))
           /\ pf.selected # id => Deleting(pf, id).selected = pf.selected
<1> DEFINE K == {i \in DOMAIN pf.list : pf.list[i].id # id}
           l == Kept(pf.list, K)
           new == Deleting(pf, id)
<1>0. pf \in Files /\ Len(pf.list) <= MaxProfiles /\ Coherent(pf) /\ Len(pf.list) \in Nat
  BY FileFacts DEF ProfilesOK
<1>1. new.list = l /\ new.selected = IF pf.selected = id THEN NoId ELSE pf.selected
  BY DEF Deleting
<1>2. l \in Seq(Entries) /\ Len(l) <= Len(pf.list) /\ Filters(l, pf.list, K)
  <2>1. pf.list \in Seq(Entries) /\ K \in SUBSET (DOMAIN pf.list)
    BY <1>0, FileFacts
  <2> HIDE DEF K
  <2> QED BY <2>1, KeptElements
<1>3. PICK f \in [DOMAIN l -> K] :
           /\ \A n \in DOMAIN l : l[n] = pf.list[f[n]]
           /\ \A n, m \in DOMAIN l : f[n] = f[m] => n = m
           /\ \A i \in K : \E n \in DOMAIN l : f[n] = i
  BY <1>2 DEF Filters
<1> HIDE DEF l, new
<1>4. \A n \in DOMAIN l : f[n] \in DOMAIN pf.list /\ pf.list[f[n]].id # id
  BY <1>3
<1>5. Unique(new)
  BY <1>0, <1>1, <1>3, <1>4 DEF Unique, Coherent
<1>6. id \notin IdsOf(new)
  BY <1>1, <1>3, <1>4 DEF IdsOf
<1>7. new.selected # NoId => new.selected \in IdsOf(new)
  <2> SUFFICES ASSUME pf.selected # id, pf.selected # NoId PROVE pf.selected \in IdsOf(new)
    BY <1>1
  <2>1. PICK i \in DOMAIN pf.list : pf.list[i].id = pf.selected
    BY <1>0 DEF Coherent, IdsOf
  <2>2. PICK n \in DOMAIN l : f[n] = i
    BY <1>3, <2>1
  <2>3. l[n].id = pf.selected
    BY <1>3, <2>1, <2>2
  <2> QED BY <1>1, <2>2, <2>3 DEF IdsOf
<1>8. \A n \in DOMAIN new.list : new.list[n].selected <=> new.list[n].id = new.selected
  <2> SUFFICES ASSUME NEW n \in DOMAIN l PROVE l[n].selected <=> l[n].id = new.selected
    BY <1>1
  <2>1. l[n].selected <=> l[n].id = pf.selected
    BY <1>0, <1>3, <1>4 DEF Coherent
  <2>2. l[n].id # id /\ l[n].id \in Ids
    BY <1>0, <1>3, <1>4, FileFacts
  <2>3. l[n].id # NoId
    BY <2>2, NoIdIsNoId
  <2> QED BY <1>1, <2>1, <2>2, <2>3
<1>9. new \in Files /\ Len(new.list) <= MaxProfiles
  <2>1. new.selected \in Ids \cup {NoId}
    BY <1>0, <1>1 DEF Files
  <2>2. new = [list |-> l, selected |-> new.selected]
    BY <1>1 DEF new, Deleting
  <2>3. new \in Files
    BY <1>2, <2>1, <2>2 DEF Files, Entries
  <2>4. Len(l) \in Nat /\ MaxProfiles \in Nat
    BY <1>2, StoreAssumption
  <2> QED BY <1>0, <1>1, <1>2, <2>3, <2>4
<1>10. ProfilesOK(new)
  BY <1>5, <1>7, <1>8, <1>9 DEF ProfilesOK, Coherent
<1> QED BY <1>1, <1>6, <1>10 DEF new

\* A profile that is selected by id is the one in use.
LEMMA SelectedIsInUse ==
    ASSUME NEW pf \in Files, pf.selected # NoId, pf.selected \in IdsOf(pf)
    PROVE  InUse(pf) = pf.selected
<1> DEFINE S == {i \in DOMAIN pf.list : pf.selected # NoId /\ pf.list[i].id = pf.selected}
           first == CHOOSE i \in S : \A j \in S : i <= j
<1>1. S # {} /\ S \in SUBSET (1..Len(pf.list)) /\ Len(pf.list) \in Nat
  BY FileFacts DEF IdsOf
<1>2. first \in S
  <2>1. \E i \in S : \A j \in S : i <= j
    BY <1>1, FirstIndex
  <2> QED BY <2>1
<1>3. first # 0 /\ pf.list[first].id = pf.selected
  <2>1. first \in 1..Len(pf.list) /\ pf.list[first].id = pf.selected
    BY <1>1, <1>2
  <2> HIDE DEF first
  <2> QED BY <1>1, <2>1
<1> HIDE DEF S
<1>4. selectedProfile(pf) = first
  BY <1>1, <1>3 DEF selectedProfile, S
<1> QED BY <1>3, <1>4 DEF InUse

-----------------------------------------------------------------------------
(* The inductive invariant *)

\* A patch has no inode before it opens the temporary file.
InodesOK ==
    \A p \in Patches :
        /\ patch[p].pc \in {"idle", "open"} => patch[p].inode = NoInode
        /\ patch[p].pc \in {"write", "rename", "store"} => patch[p].inode \in Inodes

\* No patch is in progress while the daemon is down.
DownOK == ~up => \A p \in Patches : ~InFlight(p)

\* As long as patches do not overlap: one is in progress at most, on an inode of
\* its own, with the memory's configuration and its own setting; the file is
\* what the memory is, or is about to be.
ConfigOK ==
    ~overlap =>
        /\ \A p, o \in Patches : InFlight(p) /\ InFlight(o) => p = o
        /\ disk.cfg # disk.tmp /\ disk.data[disk.cfg] # Torn
        /\ up /\ (\A p \in Patches : patch[p].pc # "store") => mem = disk.data[disk.cfg]
        /\ \A p \in Patches :
             /\ patch[p].pc \in {"open", "write", "rename"} => patch[p].next = mem \cup {p}
             /\ patch[p].pc \in {"write", "rename"} => patch[p].inode = disk.tmp
             /\ patch[p].pc = "rename" => disk.data[disk.tmp] = patch[p].next
             /\ patch[p].pc = "store" => disk.data[disk.cfg] = patch[p].next
             /\ patch[p].pc \in {"store", "done"} => p \in disk.data[disk.cfg]

Inv ==
    /\ TypeOK /\ Coherent(profiles)
    /\ InodesOK /\ DownOK /\ ConfigOK

\* A configuration is never the torn file.
LEMMA SettingsAreNotTorn == Torn \notin Settings
  BY StoreAssumption DEF Torn, Settings

\* Patches are finitely many, so an inode is free when one is needed: each of
\* the other patches holds one at most, and config.json one.
LEMMA InodesFinite ==
    /\ Cardinality(Patches) \in Nat /\ IsFiniteSet(Inodes)
    /\ Cardinality(Inodes) = Cardinality(Patches) + 1 /\ NoInode \notin Inodes /\ 1 \in Inodes
<1>1. Cardinality(Patches) \in Nat
  BY StoreAssumption, FS_CardinalityType
<1>2. \A n \in Nat : IsFiniteSet(1..n) /\ Cardinality(1..n) = n
  BY FS_Interval
<1> QED BY <1>1, <1>2 DEF Inodes, NoInode

\* There is a free inode for a new temporary file: each patch in flight has at most
\* one, and there is one more for the published file.
LEMMA FreeInode ==
    ASSUME TypeOK, InodesOK, NEW p \in Patches, patch[p].pc = "open"
    PROVE  \E n \in Inodes :
             n # disk.cfg /\ \A o \in Patches : InFlight(o) => patch[o].inode # n
<1> SUFFICES ASSUME \A n \in Inodes :
                      n # disk.cfg => \E o \in Patches : InFlight(o) /\ patch[o].inode = n
             PROVE  FALSE
  OBVIOUS
<1> DEFINE f == [n \in Inodes |-> IF n = disk.cfg THEN p
                                  ELSE CHOOSE o \in Patches : InFlight(o) /\ patch[o].inode = n]
<1>1. \A n \in Inodes : n # disk.cfg => f[n] \in Patches /\ patch[f[n]].inode = n
  OBVIOUS
<1>2. f \in [Inodes -> Patches] /\ \A n \in Inodes : n = disk.cfg => f[n] = p
  BY <1>1
<1> HIDE DEF f
<1>3. Cardinality(Patches) < Cardinality(Inodes)
  BY InodesFinite
<1>4. PICK x \in Inodes, y \in Inodes : x # y /\ f[x] = f[y]
  BY <1>2, <1>3, InodesFinite, StoreAssumption, FS_PigeonHole
<1>5. patch[p].inode = NoInode /\ NoInode \notin Inodes
  BY InodesFinite DEF InodesOK
<1> QED BY <1>1, <1>2, <1>4, <1>5

\* The first start, with whatever files it finds whole, satisfies the invariant.
LEMMA InitInv == Init => Inv
<1> SUFFICES ASSUME Init PROVE Inv
  OBVIOUS
<1> USE DEF Init
<1>1. PICK name \in Names :
        profiles = [list |-> <<[id |-> <<name, 1>>, selected |-> TRUE]>>, selected |-> <<name, 1>>]
  OBVIOUS
<1>2. profiles \in Files /\ Len(profiles.list) = 1 /\ Coherent(profiles)
  <2>1. <<name, 1>> \in Ids
    BY StoreAssumption DEF Ids
  <2>2. profiles \in Files
    BY <1>1, <2>1 DEF Files
  <2>3. /\ DOMAIN profiles.list = {1} /\ profiles.list[1].id = <<name, 1>>
        /\ profiles.list[1].selected = TRUE /\ Len(profiles.list) = 1
        /\ profiles.selected = <<name, 1>>
    BY <1>1
  <2> QED BY <2>2, <2>3 DEF Coherent, Unique, IdsOf
<1>3. TypeOK
  <2>1. disk \in Disks
    BY InodesFinite DEF Disks, Settings
  <2>2. patch \in [Patches -> PatchJobs]
    BY DEF NoPatch, PatchJobs, Settings
  <2>3. mem \in Settings /\ requests \in 0..MaxRequests /\ Len(profiles.list) <= MaxProfiles
    BY <1>2, StoreAssumption DEF Settings
  <2>4. up \in BOOLEAN /\ overlap \in BOOLEAN
    OBVIOUS
  <2> QED BY <1>2, <2>1, <2>2, <2>3, <2>4 DEF TypeOK
<1>4. InodesOK /\ DownOK
  BY DEF InodesOK, DownOK, NoPatch
<1>5. ConfigOK
  <2>1. disk.cfg = 1 /\ disk.tmp = NoInode /\ disk.data[1] = {} /\ mem = {}
    BY InodesFinite
  <2>2. \A p \in Patches : patch[p].pc = "idle"
    BY DEF NoPatch
  <2> QED BY <2>1, <2>2, InodesFinite DEF ConfigOK, InFlight, Torn
<1> QED BY <1>2, <1>3, <1>4, <1>5 DEF Inv

-----------------------------------------------------------------------------
(* The steps *)

\* What the requests about profiles have in common.
ProfileStep ==
    \/ \E id \in Ids : SelectProfile(id) \/ DeleteProfile(id)
    \/ \E id \in Ids, select \in BOOLEAN : SaveProfile(id, select)
    \/ \E name \in Names, select \in BOOLEAN : CreateProfile(name, select)

ConfigStep(p) == ReadConfig(p) \/ OpenTmp(p) \/ WriteTmp(p) \/ Rename(p) \/ StoreConfig(p)

\* Every profile handler leaves the store coherent and within its limit.
LEMMA ProfileStepOK ==
    ASSUME Inv, ProfileStep
    PROVE  ProfilesOK(profiles')
<1>1. ProfilesOK(profiles)
  BY DEF Inv, TypeOK, ProfilesOK
<1>2. ASSUME NEW id \in Ids, SelectProfile(id) PROVE ProfilesOK(profiles')
  BY <1>1, <1>2, SelectingOK DEF SelectProfile, ProfilesOK, Coherent
<1>3. ASSUME NEW id \in Ids, DeleteProfile(id) PROVE ProfilesOK(profiles')
  BY <1>1, <1>3, DeletingOK DEF DeleteProfile
<1>4. ASSUME NEW id \in Ids, NEW select \in BOOLEAN, SaveProfile(id, select)
      PROVE  ProfilesOK(profiles')
  BY <1>1, <1>4, UpsertOK DEF SaveProfile
<1>5. ASSUME NEW name \in Names, NEW select \in BOOLEAN, CreateProfile(name, select)
      PROVE  ProfilesOK(profiles')
  <2> DEFINE id == uniqueProfileID(profiles, name)
  <2>1. id \in Ids /\ id \notin IdsOf(profiles)
    BY <1>1, <1>5, UniqueIdIsFree DEF CreateProfile, ProfilesOK
  <2>2. profiles' = upsertProfile(profiles, id, TRUE, select) /\ Len(profiles.list) < MaxProfiles
    BY <1>5 DEF CreateProfile
  <2> HIDE DEF id
  <2> QED BY <1>1, <2>1, <2>2, UpsertOK
<1> QED BY <1>2, <1>3, <1>4, <1>5 DEF ProfileStep

\* It touches nothing else.
LEMMA ProfileStepInv ==
    ASSUME Inv, ProfileStep
    PROVE  Inv'
<1>1. ProfilesOK(profiles')
  BY ProfileStepOK
<1>2. /\ UNCHANGED <<disk, mem, patch, overlap, up>>
      /\ requests < MaxRequests /\ requests' = requests + 1
  BY DEF ProfileStep, SelectProfile, DeleteProfile, SaveProfile, CreateProfile, Request,
         profileFrame, configVars
<1>3. requests' \in 0..MaxRequests
  BY <1>2, StoreAssumption DEF Inv, TypeOK
<1>4. TypeOK' /\ Coherent(profiles')
  BY <1>1, <1>2, <1>3 DEF Inv, TypeOK, ProfilesOK
<1>5. InodesOK' /\ DownOK' /\ ConfigOK'
  BY <1>2 DEF Inv, InodesOK, DownOK, ConfigOK, InFlight
<1> QED BY <1>4, <1>5 DEF Inv, Coherent, Unique, IdsOf

\* What a patch may change: its own job and the disk, the memory and the history.
LEMMA ConfigFrame ==
    ASSUME Inv, NEW p \in Patches, NEW job \in PatchJobs, patch' = [patch EXCEPT ![p] = job],
           job.pc \in {"idle", "open"} => job.inode = NoInode,
           job.pc \in {"write", "rename", "store"} => job.inode \in Inodes,
           disk' \in Disks, mem' \in Settings, overlap' \in BOOLEAN,
           requests' \in 0..MaxRequests, up, UNCHANGED <<profiles, up>>, ConfigOK'
    PROVE  Inv'
<1>1. TypeOK'
  BY DEF Inv, TypeOK
<1>2. InodesOK'
  BY DEF Inv, TypeOK, InodesOK
<1>3. DownOK' /\ Coherent(profiles)'
  BY DEF Inv, DownOK, Coherent, Unique, IdsOf
<1> QED BY <1>1, <1>2, <1>3 DEF Inv

\* The steps of a patch, one by one.
LEMMA ReadConfigInv ==
    ASSUME Inv, NEW p \in Patches, ReadConfig(p)
    PROVE  Inv'
<1>0. /\ patch \in [Patches -> PatchJobs] /\ patch[p] \in PatchJobs /\ mem \in Settings
      /\ disk \in Disks /\ patch[p].inode = NoInode /\ patch[p].pc = "idle" /\ up
      /\ UNCHANGED <<profiles, disk, mem, up>>
  BY DEF Inv, TypeOK, InodesOK, ReadConfig, Request
<1>1. PICK job \in {[patch[p] EXCEPT !.pc = "open", !.next = mem \cup {p}],
                    [patch[p] EXCEPT !.pc = "failed"]} :
        patch' = [patch EXCEPT ![p] = job]
  BY <1>0 DEF ReadConfig
<1>2. mem \cup {p} \in Settings
  BY <1>0 DEF Settings
<1>3. /\ job \in PatchJobs /\ job.pc \in {"open", "failed"} /\ job.inode = NoInode
      /\ job.pc = "open" => job.next = mem \cup {p}
  BY <1>0, <1>1, <1>2 DEF PatchJobs
<1>4. /\ requests' \in 0..MaxRequests /\ overlap' \in BOOLEAN
  BY StoreAssumption DEF Inv, TypeOK, ReadConfig, Request
<1>5. ConfigOK'
  <2> SUFFICES ASSUME ~overlap' PROVE ConfigOK'
    BY DEF ConfigOK
  <2>1. ~overlap /\ \A o \in Patches : ~InFlight(o)
    BY DEF ReadConfig
  <2>2. \A o \in Patches : o # p => patch'[o] = patch[o] /\ ~InFlight(o)'
    BY <1>0, <1>1, <2>1 DEF InFlight
  <2>3. patch'[p] = job
    BY <1>0, <1>1
  <2> QED BY <1>0, <1>3, <2>1, <2>2, <2>3 DEF Inv, ConfigOK, InFlight
<1> QED BY <1>0, <1>1, <1>3, <1>4, <1>5, ConfigFrame

\* Unless another patch left its temporary file, the one that is opened is new.
LEMMA OpenTmpInv ==
    ASSUME Inv, NEW p \in Patches, OpenTmp(p)
    PROVE  Inv'
<1> DEFINE n == CHOOSE n \in Inodes :
                  n # disk.cfg /\ \A o \in Patches : InFlight(o) => patch[o].inode # n
           i == IF disk.tmp # NoInode THEN disk.tmp ELSE n
           job == [patch[p] EXCEPT !.pc = "write", !.inode = i]
<1>0. /\ patch \in [Patches -> PatchJobs] /\ patch[p] \in PatchJobs /\ mem \in Settings
      /\ disk \in Disks /\ patch[p].pc = "open" /\ up
      /\ requests' \in 0..MaxRequests /\ overlap \in BOOLEAN
      /\ UNCHANGED <<profiles, mem, overlap, up>>
  BY DEF Inv, TypeOK, OpenTmp, patchFrame
<1>1. n \in Inodes /\ n # disk.cfg
  <2>1. \E m \in Inodes :
          m # disk.cfg /\ \A o \in Patches : InFlight(o) => patch[o].inode # m
    BY <1>0, FreeInode DEF Inv
  <2> QED BY <2>1
<1>2. /\ disk' = [disk EXCEPT !.data = [disk.data EXCEPT ![i] = Torn], !.tmp = i]
      /\ patch' = [patch EXCEPT ![p] = job]
  <2>1. disk' = [disk EXCEPT !.data[i] = Torn, !.tmp = i]
    BY DEF OpenTmp
  <2>2. patch' = [patch EXCEPT ![p].pc = "write", ![p].inode = i]
    BY DEF OpenTmp
  <2> HIDE DEF i
  <2> QED BY <1>0, <2>1, <2>2 DEF Disks, PatchJobs
<1> HIDE DEF n
<1>3. i \in Inodes /\ (disk.tmp # disk.cfg => i # disk.cfg)
  BY <1>0, <1>1 DEF Disks
<1> HIDE DEF i
<1>4. job \in PatchJobs /\ job.pc = "write" /\ job.inode = i /\ job.next = patch[p].next
  BY <1>0, <1>3 DEF PatchJobs
<1> HIDE DEF job
<1>5. disk' \in Disks /\ disk'.tmp = i /\ disk'.cfg = disk.cfg
      /\ disk'.data = [disk.data EXCEPT ![i] = Torn] /\ disk.data \in [Inodes -> Settings \cup {Torn}]
      /\ disk.cfg \in Inodes
  <2>1. disk.data \in [Inodes -> Settings \cup {Torn}]
    BY <1>0 DEF Disks
  <2>2. [disk.data EXCEPT ![i] = Torn] \in [Inodes -> Settings \cup {Torn}]
    BY <1>3, <2>1
  <2> QED BY <1>0, <1>2, <1>3, <2>1, <2>2 DEF Disks
<1>6. ConfigOK'
  <2> SUFFICES ASSUME ~overlap PROVE ConfigOK'
    BY <1>0 DEF ConfigOK
  <2>1. \A o \in Patches : o # p => ~InFlight(o) /\ patch'[o] = patch[o]
    BY <1>0, <1>2 DEF Inv, ConfigOK, InFlight
  <2>2. patch'[p] = job
    BY <1>0, <1>2
  <2>3. disk.tmp # disk.cfg
    BY DEF Inv, ConfigOK
  <2>4. i # disk.cfg /\ disk'.data[disk'.cfg] = disk.data[disk.cfg]
    BY <1>3, <1>5, <2>3
  <2> QED BY <1>0, <1>4, <1>5, <2>1, <2>2, <2>4 DEF Inv, ConfigOK, InFlight
<1> QED BY <1>0, <1>2, <1>3, <1>4, <1>5, <1>6, ConfigFrame

\* A patch that meets no other writes only to its own inode, not yet the published one.
LEMMA WriteTmpInv ==
    ASSUME Inv, NEW p \in Patches, WriteTmp(p)
    PROVE  Inv'
<1>0. /\ patch \in [Patches -> PatchJobs] /\ patch[p] \in PatchJobs /\ mem \in Settings
      /\ disk \in Disks /\ patch[p].pc = "write" /\ patch[p].inode \in Inodes /\ up
      /\ requests' \in 0..MaxRequests /\ overlap \in BOOLEAN
      /\ UNCHANGED <<profiles, mem, overlap, up>>
  BY DEF Inv, TypeOK, InodesOK, WriteTmp, patchFrame
<1> DEFINE i == patch[p].inode
<1>1. CASE patch' = [patch EXCEPT ![p].pc = "failed"] /\ UNCHANGED disk
  <2> DEFINE job == [patch[p] EXCEPT !.pc = "failed"]
  <2>1. patch' = [patch EXCEPT ![p] = job] /\ job \in PatchJobs /\ job.pc = "failed"
    BY <1>0, <1>1 DEF PatchJobs
  <2>2. \A o \in Patches : o # p => patch'[o] = patch[o]
    BY <1>0, <2>1
  <2>3. patch'[p].pc = "failed"
    BY <1>0, <2>1
  <2>4. ConfigOK'
    BY <1>0, <1>1, <2>2, <2>3 DEF Inv, ConfigOK, InFlight
  <2> QED BY <1>0, <1>1, <2>1, <2>4, ConfigFrame
<1>2. CASE /\ disk' = [disk EXCEPT !.data[patch[p].inode] = patch[p].next]
           /\ patch' = [patch EXCEPT ![p].pc = "rename"]
  <2> DEFINE job == [patch[p] EXCEPT !.pc = "rename"]
  <2>1. /\ patch' = [patch EXCEPT ![p] = job] /\ job \in PatchJobs /\ job.pc = "rename"
        /\ job.inode = i /\ job.next = patch[p].next /\ patch[p].next \in Settings
    BY <1>0, <1>2 DEF PatchJobs
  <2> HIDE DEF job
  <2>2. disk' \in Disks /\ disk'.tmp = disk.tmp /\ disk'.cfg = disk.cfg
        /\ disk'.data = [disk.data EXCEPT ![i] = patch[p].next]
        /\ disk.data \in [Inodes -> Settings \cup {Torn}] /\ disk.cfg \in Inodes
    <3>1. disk.data \in [Inodes -> Settings \cup {Torn}]
      BY <1>0 DEF Disks
    <3>2. [disk.data EXCEPT ![i] = patch[p].next] \in [Inodes -> Settings \cup {Torn}]
      BY <1>0, <2>1, <3>1
    <3> QED BY <1>0, <1>2, <3>1, <3>2 DEF Disks
  <2>3. ConfigOK'
    <3> SUFFICES ASSUME ~overlap PROVE ConfigOK'
      BY <1>0 DEF ConfigOK
    <3>1. \A o \in Patches : o # p => ~InFlight(o) /\ patch'[o] = patch[o]
      BY <1>0, <2>1 DEF Inv, ConfigOK, InFlight
    <3>2. patch'[p] = job
      BY <1>0, <2>1
    <3>3. disk.tmp # disk.cfg /\ disk.tmp = i
      BY <1>0 DEF Inv, ConfigOK
    <3>4. disk'.data[disk'.cfg] = disk.data[disk.cfg] /\ disk'.data[disk'.tmp] = patch[p].next
      BY <1>0, <2>2, <3>3
    <3> QED BY <1>0, <2>1, <2>2, <3>1, <3>2, <3>3, <3>4 DEF Inv, ConfigOK, InFlight
  <2> QED BY <1>0, <2>1, <2>2, <2>3, ConfigFrame
<1> QED BY <1>1, <1>2 DEF WriteTmp

\* A patch that meets no other publishes what it wrote in full.
LEMMA RenameInv ==
    ASSUME Inv, NEW p \in Patches, Rename(p)
    PROVE  Inv'
<1>0. /\ patch \in [Patches -> PatchJobs] /\ patch[p] \in PatchJobs /\ mem \in Settings
      /\ disk \in Disks /\ patch[p].pc = "rename" /\ patch[p].inode \in Inodes /\ up
      /\ requests' \in 0..MaxRequests /\ overlap \in BOOLEAN
      /\ UNCHANGED <<profiles, mem, overlap, up>>
  BY DEF Inv, TypeOK, InodesOK, Rename, patchFrame
<1>1. CASE disk.tmp = NoInode
  <2> DEFINE job == [patch[p] EXCEPT !.pc = "failed"]
  <2>1. patch' = [patch EXCEPT ![p] = job] /\ job \in PatchJobs /\ job.pc = "failed" /\ disk' = disk
    BY <1>0, <1>1 DEF PatchJobs, Rename
  <2>2. \A o \in Patches : o # p => patch'[o] = patch[o]
    BY <1>0, <2>1
  <2>3. patch'[p].pc = "failed"
    BY <1>0, <2>1
  <2>4. ConfigOK'
    BY <1>0, <2>1, <2>2, <2>3 DEF Inv, ConfigOK, InFlight
  <2> QED BY <1>0, <2>1, <2>4, ConfigFrame
<1>2. CASE disk.tmp # NoInode
  <2> DEFINE job == [patch[p] EXCEPT !.pc = "store"]
  <2>1. /\ patch' = [patch EXCEPT ![p] = job] /\ job \in PatchJobs /\ job.pc = "store"
        /\ job.inode = patch[p].inode /\ job.next = patch[p].next /\ patch[p].next \in Settings
    BY <1>0, <1>2 DEF PatchJobs, Rename
  <2> HIDE DEF job
  <2>2. /\ disk' \in Disks /\ disk'.tmp = NoInode /\ disk'.cfg = disk.tmp
        /\ disk'.data = disk.data /\ disk.tmp \in Inodes
    BY <1>0, <1>2 DEF Disks, Rename
  <2>3. ConfigOK'
    <3> SUFFICES ASSUME ~overlap PROVE ConfigOK'
      BY <1>0 DEF ConfigOK
    <3>1. \A o \in Patches : o # p => ~InFlight(o) /\ patch'[o] = patch[o]
      BY <1>0, <2>1 DEF Inv, ConfigOK, InFlight
    <3>2. patch'[p] = job
      BY <1>0, <2>1
    <3>3. /\ disk.data[disk.tmp] = patch[p].next /\ patch[p].next = mem \cup {p}
          /\ mem = disk.data[disk.cfg]
      BY <1>0, <3>1 DEF Inv, ConfigOK, InFlight
    <3>4. disk'.data[disk'.cfg] = disk.data[disk.cfg] \cup {p} /\ disk'.data[disk'.cfg] # Torn
      BY <2>1, <2>2, <3>3, SettingsAreNotTorn
    <3>5. disk'.cfg # disk'.tmp
      BY <2>2, InodesFinite
    <3>6. \A o \in Patches : patch[o].pc = "done" => o \in disk.data[disk.cfg]
      BY DEF Inv, ConfigOK
    <3> QED BY <1>0, <2>1, <2>2, <3>1, <3>2, <3>3, <3>4, <3>5, <3>6 DEF ConfigOK, InFlight
  <2> QED BY <1>0, <2>1, <2>2, <2>3, ConfigFrame
<1> QED BY <1>1, <1>2

\* The memory follows the published file, when no other patch was in between.
LEMMA StoreConfigInv ==
    ASSUME Inv, NEW p \in Patches, StoreConfig(p)
    PROVE  Inv'
<1>0. /\ patch \in [Patches -> PatchJobs] /\ patch[p] \in PatchJobs /\ mem' = patch[p].next
      /\ disk \in Disks /\ patch[p].pc = "store" /\ up
      /\ requests' \in 0..MaxRequests /\ overlap \in BOOLEAN
      /\ UNCHANGED <<profiles, disk, overlap, up>>
  BY DEF Inv, TypeOK, StoreConfig, patchFrame
<1> DEFINE job == [patch[p] EXCEPT !.pc = "done"]
<1>1. /\ patch' = [patch EXCEPT ![p] = job] /\ job \in PatchJobs /\ job.pc = "done"
      /\ mem' \in Settings
  BY <1>0 DEF PatchJobs, StoreConfig
<1> HIDE DEF job
<1>2. ConfigOK'
  <2> SUFFICES ASSUME ~overlap PROVE ConfigOK'
    BY <1>0 DEF ConfigOK
  <2>1. \A o \in Patches : o # p => ~InFlight(o) /\ patch'[o] = patch[o]
    BY <1>0, <1>1 DEF Inv, ConfigOK, InFlight
  <2>2. patch'[p] = job
    BY <1>0, <1>1
  <2> QED BY <1>0, <1>1, <2>1, <2>2 DEF Inv, ConfigOK, InFlight
<1> QED BY <1>0, <1>1, <1>2, ConfigFrame

\* The daemon dies, wherever a patch is.
LEMMA CrashInv == ASSUME Inv, Crash PROVE Inv'
<1>0. /\ patch \in [Patches -> PatchJobs]
      /\ up /\ up' = FALSE /\ UNCHANGED <<profiles, disk, mem>>
  BY DEF Inv, TypeOK, Crash
<1>1. \A p \in Patches :
        /\ patch'[p] \in PatchJobs /\ ~InFlight(p)'
        /\ patch'[p].inode = patch[p].inode
        /\ patch'[p].pc \in {"idle", "done"} => patch'[p].pc = patch[p].pc
  <2> TAKE p \in Patches
  <2>1. patch'[p] = IF InFlight(p) THEN [patch[p] EXCEPT !.pc = "failed"] ELSE patch[p]
    BY DEF Crash
  <2>2. patch[p] \in PatchJobs
    BY <1>0
  <2> QED BY <2>1, <2>2 DEF PatchJobs, InFlight
<1>2. TypeOK'
  <2>1. patch' \in [Patches -> PatchJobs]
    BY <1>1 DEF Crash
  <2>2. requests' \in 0..MaxRequests /\ overlap' \in BOOLEAN
    BY StoreAssumption DEF Inv, TypeOK, Crash
  <2> QED BY <1>0, <2>1, <2>2 DEF Inv, TypeOK
<1>3. InodesOK' /\ DownOK' /\ Coherent(profiles)'
  BY <1>0, <1>1 DEF Inv, InodesOK, DownOK, InFlight, Coherent, Unique, IdsOf
<1>4. ConfigOK'
  <2>1. overlap' <=> overlap
    BY DEF Crash
  <2> QED BY <1>0, <1>1, <2>1 DEF Inv, ConfigOK, InFlight
<1> QED BY <1>2, <1>3, <1>4 DEF Inv

\* It is started again and reads the file.
LEMMA StartInv == ASSUME Inv, Start PROVE Inv'
<1>0. /\ ~up /\ up' = TRUE /\ mem' = disk.data[disk.cfg] /\ disk.data[disk.cfg] # Torn
      /\ UNCHANGED <<profiles, disk, patch, requests, overlap>> /\ disk \in Disks
  BY DEF Inv, TypeOK, Start
<1>1. mem' \in Settings
  BY <1>0 DEF Disks
<1>2. TypeOK'
  BY <1>0, <1>1 DEF Inv, TypeOK
<1>3. \A p \in Patches : ~InFlight(p)
  BY <1>0 DEF Inv, DownOK
<1>4. ConfigOK'
  BY <1>0, <1>3 DEF Inv, ConfigOK, InFlight
<1>5. InodesOK' /\ DownOK' /\ Coherent(profiles)'
  BY <1>0 DEF Inv, InodesOK, DownOK, Coherent, Unique, IdsOf
<1> QED BY <1>2, <1>4, <1>5 DEF Inv

\* The steps, by the file that they work on.
LEMMA NextCases ==
    [Next]_vars <=> \/ ProfileStep \/ Crash \/ Start \/ UNCHANGED vars
                    \/ \E p \in Patches : ConfigStep(p)
  BY DEF Next, ProfileStep, ConfigStep

\* Every step keeps the invariant.
LEMMA NextInv == Inv /\ [Next]_vars => Inv'
<1> SUFFICES ASSUME Inv, [Next]_vars PROVE Inv'
  OBVIOUS
<1>1. CASE ProfileStep
  BY <1>1, ProfileStepInv
<1>2. CASE \E p \in Patches : ConfigStep(p)
  BY <1>2, ReadConfigInv, OpenTmpInv, WriteTmpInv, RenameInv, StoreConfigInv DEF ConfigStep
<1>3. CASE Crash \/ Start
  BY <1>3, CrashInv, StartInv
<1>4. CASE UNCHANGED vars
  BY <1>4 DEF vars, Inv, TypeOK, Coherent, Unique, IdsOf, InodesOK, DownOK, ConfigOK, InFlight
<1> QED BY <1>1, <1>2, <1>3, <1>4, NextCases

\* The invariant holds of every behaviour.
LEMMA InvHolds == Spec => []Inv
  BY InitInv, NextInv, PTL DEF Spec

-----------------------------------------------------------------------------
(* The theorems *)

\* Every variable keeps its type: there is a free inode and a free profile id
\* whenever the code takes one.
THEOREM TypeCorrect == Spec => []TypeOK
<1>1. Inv => TypeOK
  BY DEF Inv
<1> QED BY <1>1, InvHolds, PTL

\* No sequence of selecting, saving, creating and deleting profiles makes
\* profiles.json incoherent.
THEOREM ProfilesStayCoherent == Spec => []SelectionCoherent
<1>1. Inv => SelectionCoherent
  BY DEF Inv, Coherent, Unique, SelectionCoherent
<1> QED BY <1>1, InvHolds, PTL

\* saveConfig never leaves half a config.json, wherever the daemon dies, unless
\* two patches ran at a time.
THEOREM ConfigStaysWhole == Spec => []ConfigWhole
<1>1. Inv => ConfigWhole
  BY DEF Inv, ConfigOK, ConfigWhole
<1> QED BY <1>1, InvHolds, PTL

\* A patch that was answered with success is in the file and, between patches,
\* in the memory.
THEOREM PatchesAreKept == Spec => []PatchesLand
<1>1. Inv => PatchesLand
  BY DEF Inv, ConfigOK, PatchesLand, InFlight
<1> QED BY <1>1, InvHolds, PTL

\* The profile in use changes only by a selection or its deletion.
THEOREM SelectionStays == Spec => SelectionStable
<1> DEFINE old == profiles.selected
           A == old # NoId /\ InUse(profiles') # old =>
                  \/ old \notin IdsOf(profiles')
                  \/ \E id \in Ids : SelectProfile(id) \/ SaveProfile(id, TRUE)
                  \/ \E name \in Names : CreateProfile(name, TRUE)
<1>1. ASSUME Inv, Inv', [Next]_vars PROVE A
  <2> SUFFICES ASSUME old # NoId, old \in IdsOf(profiles'), InUse(profiles') # old
               PROVE  \/ \E id \in Ids : SelectProfile(id) \/ SaveProfile(id, TRUE)
                      \/ \E name \in Names : CreateProfile(name, TRUE)
    OBVIOUS
  <2>1. ProfilesOK(profiles) /\ profiles' \in Files
    BY <1>1 DEF Inv, TypeOK, ProfilesOK
  <2>2. profiles'.selected # old
    BY <2>1, SelectedIsInUse
  <2>3. ProfileStep
    BY <1>1, <2>2, NextCases
    DEF ConfigStep, ReadConfig, OpenTmp, WriteTmp, Rename, StoreConfig, patchFrame, Crash, Start,
        vars
  <2>4. ASSUME NEW id \in Ids, DeleteProfile(id) PROVE FALSE
    <3>1. profiles' = Deleting(profiles, id)
      BY <2>4 DEF DeleteProfile
    <3> QED BY <2>1, <2>2, <3>1, DeletingOK
  <2>5. ASSUME NEW id \in Ids, SaveProfile(id, FALSE) PROVE FALSE
    <3>1. /\ profiles' = upsertProfile(profiles, id, FALSE, FALSE)
          /\ id \in IdsOf(profiles) \/ Len(profiles.list) < MaxProfiles
      BY <2>5 DEF SaveProfile
    <3> QED BY <2>1, <2>2, <3>1, UpsertOK
  <2>6. ASSUME NEW name \in Names, CreateProfile(name, FALSE) PROVE FALSE
    <3> DEFINE id == uniqueProfileID(profiles, name)
    <3>1. /\ profiles' = upsertProfile(profiles, id, TRUE, FALSE)
          /\ Len(profiles.list) < MaxProfiles
      BY <2>6 DEF CreateProfile
    <3>2. id \in Ids /\ id \notin IdsOf(profiles)
      BY <2>1, <3>1, UniqueIdIsFree DEF ProfilesOK
    <3> HIDE DEF id
    <3> QED BY <2>1, <2>2, <3>1, <3>2, UpsertOK
  <2> QED BY <2>3, <2>4, <2>5, <2>6 DEF ProfileStep
<1>2. Inv /\ Inv' /\ [Next]_vars => [A]_vars
  BY <1>1
<1> QED BY <1>2, InvHolds, PTL DEF Spec, SelectionStable
=============================================================================
