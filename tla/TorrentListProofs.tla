------------------------- MODULE TorrentListProofs --------------------------
(***************************************************************************)
(* What holds of the torrent list for any torrents, filters and groups,    *)
(* and that the list without filters implements TorrentLibrary.            *)
(***************************************************************************)
EXTENDS TorrentList, SequenceTheorems, FiniteSetTheorems, TLAPS

LEMMA CardinalityUpTo ==
    ASSUME NEW n \in Nat
    PROVE  IsFiniteSet(1 .. n) /\ Cardinality(1 .. n) = n
<1>1. 1 \in Int /\ n \in Int
  OBVIOUS
<1>2. /\ IsFiniteSet(1 .. n)
      /\ Cardinality(1 .. n) = IF 1 > n THEN 0 ELSE n - 1 + 1
  BY <1>1, FS_Interval
<1>3. (IF 1 > n THEN 0 ELSE n - 1 + 1) = n
  OBVIOUS
<1> QED BY <1>2, <1>3

(* The ranks of the members of a finite set of numbers are 1 .. its size,  *)
(* each the rank of exactly one member.                                    *)
LEMMA RanksOfSet ==
    ASSUME NEW n \in Nat, NEW I \in SUBSET (1 .. n)
    PROVE  /\ Cardinality(I) \in Nat
           /\ \A i \in I : Rank(I, i) \in 1 .. Cardinality(I)
           /\ \A i, j \in I : Rank(I, i) = Rank(I, j) => i = j
           /\ \A k \in 1 .. Cardinality(I) : \E i \in I : Rank(I, i) = k
<1> DEFINE UpTo(i) == {m \in I : m <= i}
           f == [i \in I |-> Rank(I, i)]
<1>1. IsFiniteSet(I) /\ Cardinality(I) \in Nat
  <2>1. IsFiniteSet(1 .. n)
    BY CardinalityUpTo
  <2>2. IsFiniteSet(I)
    BY <2>1, FS_Subset
  <2> QED BY <2>2, FS_CardinalityType
<1>2. ASSUME NEW i \in I
      PROVE  IsFiniteSet(UpTo(i)) /\ Rank(I, i) \in 1 .. Cardinality(I)
  <2>1. UpTo(i) \in SUBSET I /\ i \in UpTo(i)
    OBVIOUS
  <2> HIDE DEF UpTo
  <2>2. IsFiniteSet(UpTo(i)) /\ Cardinality(UpTo(i)) <= Cardinality(I)
    BY <1>1, <2>1, FS_Subset
  <2>3. Cardinality(UpTo(i)) \in Nat
    BY <2>2, FS_CardinalityType
  <2>4. Cardinality(UpTo(i)) # 0
    BY <2>1, <2>2, FS_EmptySet
  <2>5. Rank(I, i) = Cardinality(UpTo(i))
    BY DEF Rank, UpTo
  <2> QED BY <1>1, <2>2, <2>3, <2>4, <2>5
<1>3. ASSUME NEW i \in I, NEW j \in I, i < j
      PROVE  Rank(I, i) # Rank(I, j)
  <2>0. \A m \in I : m \in Nat
    OBVIOUS
  <2>1. UpTo(i) \in SUBSET UpTo(j) /\ j \in UpTo(j) /\ j \notin UpTo(i)
    <3>1. i \in Nat /\ j \in Nat /\ i <= j /\ ~ (j <= i)
      BY <1>3, <2>0
    <3>2. \A m \in I : m <= i => m <= j
      BY <2>0, <3>1
    <3>3. UpTo(i) \in SUBSET UpTo(j)
      BY <3>2
    <3>4. j \in UpTo(j) /\ j \notin UpTo(i)
      BY <3>1
    <3> QED BY <3>3, <3>4
  <2>2. IsFiniteSet(UpTo(j))
    BY <1>2
  <2>3. Rank(I, i) = Cardinality(UpTo(i)) /\ Rank(I, j) = Cardinality(UpTo(j))
    BY DEF Rank
  <2> HIDE DEF UpTo
  <2> QED BY <2>1, <2>2, <2>3, FS_Subset
<1>4. \A i, j \in I : Rank(I, i) = Rank(I, j) => i = j
  <2> SUFFICES ASSUME NEW i \in I, NEW j \in I, Rank(I, i) = Rank(I, j)
               PROVE  i = j
    OBVIOUS
  <2>1. ~ (i < j) /\ ~ (j < i)
    BY <1>3
  <2>2. i \in Int /\ j \in Int
    OBVIOUS
  <2> QED BY <2>1, <2>2
<1>5. f \in Injection(I, 1 .. Cardinality(I))
  <2>1. f \in [I -> 1 .. Cardinality(I)]
    BY <1>2
  <2> QED BY <1>4, <2>1 DEF Injection, IsInjective
<1>6. f \in Surjection(I, 1 .. Cardinality(I))
  <2>1. /\ IsFiniteSet(1 .. Cardinality(I))
        /\ Cardinality(1 .. Cardinality(I)) = Cardinality(I)
    BY <1>1, CardinalityUpTo
  <2> HIDE DEF f
  <2> QED BY <1>5, <2>1, FS_Injection
<1>7. \A k \in 1 .. Cardinality(I) : \E i \in I : Rank(I, i) = k
  BY <1>6 DEF Surjection
<1> QED BY <1>1, <1>2, <1>4, <1>7

(* What remove and filterData leave: the elements that are in S, each as   *)
(* often as before.                                                        *)
LEMMA KeepProperties ==
    ASSUME NEW T, NEW q \in Seq(T), NEW S
    PROVE  /\ Keep(q, S) \in Seq(T)
           /\ Range(Keep(q, S)) = Range(q) \cap S
           /\ IsInjective(q) => IsInjective(Keep(q, S))
<1> DEFINE I == KeptAt(q, S)
           at(k) == CHOOSE i \in I : Rank(I, i) = k
           r == Keep(q, S)
<1>1. /\ Len(q) \in Nat /\ DOMAIN q = 1 .. Len(q) /\ I \in SUBSET (1 .. Len(q))
      /\ \A i \in 1 .. Len(q) : q[i] \in T
      /\ \A i \in I : q[i] \in S
      /\ \A i \in DOMAIN q : q[i] \in S => i \in I
  BY DEF KeptAt
<1> HIDE DEF I
<1>2. /\ Cardinality(I) \in Nat
      /\ \A i \in I : Rank(I, i) \in 1 .. Cardinality(I)
      /\ \A i, j \in I : Rank(I, i) = Rank(I, j) => i = j
      /\ \A k \in 1 .. Cardinality(I) : \E i \in I : Rank(I, i) = k
  BY <1>1, RanksOfSet
<1>3. \A k \in 1 .. Cardinality(I) : at(k) \in I /\ Rank(I, at(k)) = k
  BY <1>2
<1>4. \A i \in I : at(Rank(I, i)) = i
  BY <1>2, <1>3
<1>5. r = [k \in 1 .. Cardinality(I) |-> q[at(k)]]
  BY DEF Keep, I
<1> HIDE DEF at, r
<1>6. r \in Seq(T) /\ DOMAIN r = 1 .. Cardinality(I)
  <2>1. \A k \in 1 .. Cardinality(I) : q[at(k)] \in T
    BY <1>1, <1>3
  <2>2. [k \in 1 .. Cardinality(I) |-> q[at(k)]] \in [1 .. Cardinality(I) -> T]
    BY <2>1
  <2> QED BY <1>2, <1>5, <2>2 DEF Seq
<1>7. Range(r) = Range(q) \cap S
  <2>1. ASSUME NEW x \in Range(r)
        PROVE  x \in Range(q) \cap S
    <3>1. PICK k \in 1 .. Cardinality(I) : x = q[at(k)]
      BY <1>5 DEF Range
    <3> QED BY <1>1, <1>3, <3>1 DEF Range
  <2>2. ASSUME NEW x \in Range(q) \cap S
        PROVE  x \in Range(r)
    <3>1. PICK i \in DOMAIN q : x = q[i]
      BY DEF Range
    <3>2. i \in I
      BY <1>1, <2>2, <3>1
    <3>3. Rank(I, i) \in DOMAIN r /\ r[Rank(I, i)] = x
      BY <1>2, <1>4, <1>5, <3>1, <3>2
    <3> QED BY <3>3 DEF Range
  <2> QED BY <2>1, <2>2
<1>8. ASSUME IsInjective(q)
      PROVE  IsInjective(r)
  <2> SUFFICES ASSUME NEW k \in DOMAIN r, NEW l \in DOMAIN r, r[k] = r[l]
               PROVE  k = l
    BY DEF IsInjective
  <2>1. k \in 1 .. Cardinality(I) /\ l \in 1 .. Cardinality(I)
    BY <1>6
  <2>2. at(k) \in DOMAIN q /\ at(l) \in DOMAIN q /\ q[at(k)] = q[at(l)]
    BY <1>1, <1>3, <1>5, <2>1
  <2>3. at(k) = at(l)
    BY <1>8, <2>2 DEF IsInjective
  <2> QED BY <1>3, <2>1, <2>3
<1> QED BY <1>6, <1>7, <1>8 DEF r

(* A filter that every torrent passes leaves the order alone. *)
LEMMA KeepAll ==
    ASSUME NEW T, NEW q \in Seq(T), NEW S, T \subseteq S
    PROVE  Keep(q, S) = q
<1> DEFINE n == Len(q)
           I == KeptAt(q, S)
<1>1. n \in Nat /\ DOMAIN q = 1 .. n /\ q = [k \in 1 .. n |-> q[k]]
  <2>1. n \in Nat /\ DOMAIN q = 1 .. n /\ q \in [1 .. n -> T]
    BY LenProperties
  <2> HIDE DEF n
  <2> QED BY <2>1
<1>2. I = 1 .. n
  <2>1. \A i \in 1 .. n : q[i] \in T
    BY ElementOfSeq
  <2> HIDE DEF n
  <2> QED BY <1>1, <2>1 DEF KeptAt
<1>3. Cardinality(1 .. n) = n
  <2> HIDE DEF n
  <2> QED BY <1>1, CardinalityUpTo
<1>4. ASSUME NEW k \in 1 .. n
      PROVE  Rank(1 .. n, k) = k
  <2>1. {j \in 1 .. n : j <= k} = 1 .. k
    BY <1>1
  <2>2. Cardinality(1 .. k) = k
    <3>1. k \in Nat
      BY <1>1
    <3> QED BY <3>1, CardinalityUpTo
  <2> QED BY <2>1, <2>2 DEF Rank
<1>5. \A k \in 1 .. n : (CHOOSE i \in 1 .. n : Rank(1 .. n, i) = k) = k
  BY <1>4
<1>6. Keep(q, S) = [k \in 1 .. n |-> q[CHOOSE i \in 1 .. n : Rank(1 .. n, i) = k]]
  BY <1>2, <1>3 DEF Keep
<1> QED BY <1>1, <1>5, <1>6

(* What initSession leaves: the torrents it found, in some order. *)
LEMMA SetToSeqsProperties ==
    ASSUME NEW S \in SUBSET Torrents, NEW q \in SetToSeqs(S)
    PROVE  q \in Seq(Torrents) /\ Range(q) = S /\ IsInjective(q)
<1> DEFINE D == 1 .. Cardinality(S)
<1>1. IsFiniteSet(S)
  BY FS_Subset, ConstantsAssumption
<1>2. Cardinality(S) \in Nat
  BY <1>1, FS_CardinalityType
<1>3. q \in [D -> S] /\ \A i, j \in D : i # j => q[i] # q[j]
  BY DEF SetToSeqs
<1>4. IsFiniteSet(D) /\ Cardinality(D) = Cardinality(S)
  BY <1>2, CardinalityUpTo
<1>5. q \in Seq(Torrents)
  <2>1. q \in [D -> Torrents]
    BY <1>3
  <2> QED BY <1>2, <2>1 DEF Seq
<1> HIDE DEF D
<1>6. q \in Injection(D, S)
  BY <1>3 DEF Injection, IsInjective
<1>7. q \in Surjection(D, S)
  BY <1>1, <1>4, <1>6, FS_Injection
<1> QED BY <1>3, <1>5, <1>6, <1>7 DEF Injection, Surjection, Range

(* Appending a torrent that is not there. *)
LEMMA AppendNew ==
    ASSUME NEW T, NEW q \in Seq(T), NEW t \in T
    PROVE  /\ Append(q, t) \in Seq(T) /\ Len(Append(q, t)) = Len(q) + 1
           /\ \A i \in 1 .. Len(q) : Append(q, t)[i] = q[i]
           /\ Range(Append(q, t)) = Range(q) \cup {t}
           /\ IsInjective(q) /\ t \notin Range(q) => IsInjective(Append(q, t))
<1> DEFINE r == Append(q, t)
           n == Len(q)
<1>1. /\ r \in Seq(T) /\ Len(r) = n + 1 /\ r[n + 1] = t
      /\ \A i \in 1 .. n : r[i] = q[i]
  BY AppendProperties
<1>2. n \in Nat /\ DOMAIN q = 1 .. n /\ DOMAIN r = 1 .. n + 1
  BY <1>1, LenProperties
<1> HIDE DEF r, n
<1>3. \A i \in DOMAIN r : i \in DOMAIN q \/ i = n + 1
  BY <1>2
<1>4. \A i \in DOMAIN q : i \in DOMAIN r /\ r[i] = q[i]
  BY <1>1, <1>2
<1>5. n + 1 \in DOMAIN r
  BY <1>2
<1>6. Range(r) = Range(q) \cup {t}
  BY <1>1, <1>3, <1>4, <1>5 DEF Range
<1>7. ASSUME IsInjective(q), t \notin Range(q)
      PROVE  IsInjective(r)
  <2> SUFFICES ASSUME NEW i \in DOMAIN r, NEW j \in DOMAIN r, r[i] = r[j]
               PROVE  i = j
    BY DEF IsInjective
  <2>1. \A k \in DOMAIN q : q[k] # t
    BY <1>7 DEF Range
  <2> QED BY <1>1, <1>3, <1>4, <1>7, <2>1 DEF IsInjective
<1> QED BY <1>1, <1>6, <1>7 DEF r, n
-----------------------------------------------------------------------------
IInv == TypeOK /\ ViewOfList

(* The two sequences, apart from the rest. *)
Lists ==
    /\ list \in Seq(Torrents) /\ view \in Seq(Torrents)
    /\ ViewOfList

Others ==
    /\ filterType \in {"torrent", "group", "other"}
    /\ torrentFilter \in AllFilters /\ groupFilter \in Groups
    /\ status \in [Torrents -> Statuses] /\ group \in [Torrents -> Groups]
    /\ selection \subseteq Nat /\ selectedRow \in Nat \cup {-1}
    /\ current \in Torrents \cup {NoTorrent}
    /\ box \in BOOLEAN /\ rows \subseteq Nat /\ asked \subseteq Torrents
    /\ posted \in Seq(Torrents) /\ dead \subseteq Torrents /\ crashed \in BOOLEAN

LEMMA IInvParts ==
    (IInv <=> Lists /\ Others) /\ (IInv' <=> Lists' /\ Others')
<1>1. IInv <=> Lists /\ Others
  BY DEF IInv, TypeOK, Lists, Others
<1>2. IInv' <=> Lists' /\ Others'
  BY DEF IInv, TypeOK, Lists, Others
<1> QED BY <1>1, <1>2

(* remove keeps the rows within the list, whatever it takes off. *)
LEMMA StorageRemoveKeepsLists ==
    ASSUME Lists, NEW S, StorageRemove(S)
    PROVE  Lists' /\ Listed' = Listed \ S
<1> DEFINE R == Torrents \ S
<1>1. list' = Keep(list, R) /\ view' = Keep(view, R)
  BY DEF StorageRemove
<1>2. /\ list \in Seq(Torrents) /\ view \in Seq(Torrents)
      /\ Range(view) \subseteq Range(list) /\ IsInjective(list) /\ IsInjective(view)
  BY DEF Lists, ViewOfList, Listed
<1>3. Range(list) \subseteq Torrents
  BY <1>2 DEF Range
<1>4. /\ Keep(list, R) \in Seq(Torrents) /\ Range(Keep(list, R)) = Range(list) \cap R
      /\ IsInjective(Keep(list, R))
  BY <1>2, KeepProperties
<1>5. /\ Keep(view, R) \in Seq(Torrents) /\ Range(Keep(view, R)) = Range(view) \cap R
      /\ IsInjective(Keep(view, R))
  BY <1>2, KeepProperties
<1>6. Range(list') = Range(list) \ S
  BY <1>1, <1>3, <1>4
<1>7. Range(view') \subseteq Range(list')
  BY <1>1, <1>2, <1>4, <1>5
<1> HIDE DEF R
<1> QED BY <1>1, <1>4, <1>5, <1>6, <1>7 DEF Lists, ViewOfList, Listed

(* Any filter leaves rows of the list. *)
LEMMA FilteredKeepsLists ==
    ASSUME Lists, NEW type, NEW f, NEW g,
           view' = Filtered(type, f, g), list' = list
    PROVE  Lists'
<1> DEFINE R == {t \in Torrents : Shown(t, type, f, g)}
<1>1. view' = Keep(list, R)
  BY DEF Filtered
<1> HIDE DEF R
<1>2. list \in Seq(Torrents) /\ IsInjective(list)
  BY DEF Lists, ViewOfList
<1>3. /\ Keep(list, R) \in Seq(Torrents) /\ Range(Keep(list, R)) = Range(list) \cap R
      /\ IsInjective(Keep(list, R))
  BY <1>2, KeepProperties
<1> QED BY <1>1, <1>2, <1>3 DEF Lists, ViewOfList, Listed

(* A row shows a torrent of the list. *)
LEMMA RowShows ==
    ASSUME Lists, NEW r \in RowsOf(view)
    PROVE  r \in Nat /\ r + 1 \in 1 .. Len(view) /\ view[r + 1] \in Torrents /\ view[r + 1] \in Listed
<1>1. view \in Seq(Torrents) /\ Range(view) \subseteq Listed
  BY DEF Lists, ViewOfList
<1>2. Len(view) \in Nat /\ DOMAIN view = 1 .. Len(view)
  BY <1>1, LenProperties
<1>3. r \in Nat /\ r + 1 \in 1 .. Len(view)
  BY <1>2 DEF RowsOf
<1>4. view[r + 1] \in Torrents
  BY <1>1, <1>3, ElementOfSeq
<1>5. view[r + 1] \in Range(view)
  BY <1>2, <1>3 DEF Range
<1> QED BY <1>1, <1>3, <1>4, <1>5

LEMMA AppendKeepsIInv ==
    ASSUME IInv, NEW t \in Torrents, NEW s \in Statuses, NEW g \in Groups,
           AppendTorrent(t, s, g)
    PROVE  IInv'
<1>1. Lists /\ Others
  BY IInvParts
<1>2. /\ list \in Seq(Torrents) /\ view \in Seq(Torrents)
      /\ Range(view) \subseteq Range(list) /\ IsInjective(list) /\ IsInjective(view)
  BY <1>1 DEF Lists, ViewOfList, Listed
<1>3. t \notin Range(list) /\ t \notin Range(view)
  BY <1>2 DEF AppendTorrent, Listed
<1>4. /\ list' \in Seq(Torrents) /\ IsInjective(list')
      /\ Range(list') = Range(list) \cup {t}
  <2>1. list' = Append(list, t)
    BY DEF AppendTorrent
  <2> QED BY <1>2, <1>3, <2>1, AppendNew
<1>5. /\ view' \in Seq(Torrents) /\ IsInjective(view')
      /\ Range(view') \subseteq Range(view) \cup {t}
  <2>1. CASE view' = Append(view, t)
    BY <1>2, <1>3, <2>1, AppendNew
  <2>2. CASE view' = view
    BY <1>2, <2>2
  <2> QED BY <2>1, <2>2 DEF AppendTorrent
<1>6. Lists'
  BY <1>2, <1>4, <1>5 DEF Lists, ViewOfList, Listed
<1>7. Others'
  BY <1>1 DEF AppendTorrent, Others, filterVars, selectVars, boxVars
<1> QED BY <1>6, <1>7, IInvParts

LEMMA FiltersKeepIInv ==
    ASSUME IInv,
           \/ FilterData
           \/ \E f \in Filters : SetTorrentFilter(f)
           \/ \E g \in Groups : SetGroupFilter(g)
    PROVE  IInv'
<1>1. Lists /\ Others
  BY IInvParts
<1>2. CASE FilterData
  <2>1. Lists'
    BY <1>1, <1>2, FilteredKeepsLists DEF FilterData
  <2>2. Others'
    BY <1>1, <1>2 DEF FilterData, Others, filterVars, torrentVars, selectVars, boxVars
  <2> QED BY <2>1, <2>2, IInvParts
<1>3. ASSUME NEW f \in Filters, SetTorrentFilter(f)
      PROVE  IInv'
  <2>1. Lists'
    BY <1>1, <1>3, FilteredKeepsLists DEF SetTorrentFilter
  <2>2. f \in AllFilters /\ NoGroup \in Groups
    BY ConstantsAssumption
  <2>3. Others'
    BY <1>1, <1>3, <2>2 DEF SetTorrentFilter, Others, torrentVars, selectVars, boxVars
  <2> QED BY <2>1, <2>3, IInvParts
<1>4. ASSUME NEW g \in Groups, SetGroupFilter(g)
      PROVE  IInv'
  <2>1. Lists'
    BY <1>1, <1>4, FilteredKeepsLists DEF SetGroupFilter
  <2>2. Others'
    BY <1>1, <1>4 DEF SetGroupFilter, Others, torrentVars, selectVars, boxVars
  <2> QED BY <2>1, <2>2, IInvParts
<1> QED BY <1>2, <1>3, <1>4

LEMMA SelectionKeepsIInv ==
    ASSUME IInv, NEW S \in SUBSET (selection \cup RowsOf(view)), UpdateSelectedIndex(S)
    PROVE  IInv'
<1>1. Lists /\ Others
  BY IInvParts
<1>2. Lists'
  BY <1>1 DEF UpdateSelectedIndex, Lists, ViewOfList, Listed
<1>3. \A r \in RowsOf(view) : r \in Nat /\ view[r + 1] \in Torrents
  BY <1>1, RowShows
<1>4. selection' \subseteq Nat /\ selectedRow' \in Nat \cup {-1}
      /\ current' \in Torrents \cup {NoTorrent}
  <2> DEFINE New == S \ selection
  <2>1. New \subseteq RowsOf(view)
    BY DEF UpdateSelectedIndex
  <2>2. CASE Cardinality(New) = 1
    <3>1. New # {}
      <4> HIDE DEF New
      <4> QED BY <2>2, FS_EmptySet
    <3>2. selectedRow' \in New
      BY <2>2, <3>1 DEF UpdateSelectedIndex
    <3>3. selection' = S /\ current' = view[selectedRow' + 1]
      BY <2>2 DEF UpdateSelectedIndex
    <3>4. S \subseteq Nat
      BY <1>1, <1>3 DEF Others
    <3> QED BY <1>3, <2>1, <3>2, <3>3, <3>4
  <2>3. CASE Cardinality(New) # 1
    BY <2>3 DEF UpdateSelectedIndex
  <2> QED BY <2>2, <2>3
<1>5. Others'
  BY <1>1, <1>4 DEF UpdateSelectedIndex, Others, filterVars, torrentVars, boxVars
<1> QED BY <1>2, <1>5, IInvParts

(* The actions that leave both sequences alone. *)
LEMMA OtherActionsKeepIInv ==
    ASSUME IInv,
           \/ ContextualMenuOnNothing \/ SwitchModels \/ AskRemove \/ AnswerCancel
           \/ \E t \in Torrents : WebRemove(t) \/ \E s \in Statuses : StatusChanges(t, s)
           \/ \E t \in Torrents : CancelMagnetLink(t)
           \/ \E g \in Groups : ChangeGroup(g)
    PROVE  IInv'
<1> USE DEF filterVars, torrentVars, selectVars, boxVars
<1>1. Lists /\ Others
  BY IInvParts
<1>2. list' = list /\ view' = view
  BY DEF ContextualMenuOnNothing, SwitchModels, AskRemove, AnswerCancel, WebRemove,
         CancelMagnetLink, StatusChanges, ChangeGroup
<1>3. Lists'
  BY <1>1, <1>2 DEF Lists, ViewOfList, Listed
<1>4. ASSUME ContextualMenuOnNothing
      PROVE  Others'
  BY <1>1, <1>4 DEF ContextualMenuOnNothing, Others
<1>5. ASSUME SwitchModels
      PROVE  Others'
  BY <1>1, <1>5 DEF SwitchModels, Others
<1>6. ASSUME AskRemove
      PROVE  Others'
  <2>1. \A r \in SelectedRows : r \in Nat /\ view[r + 1] \in Torrents
    BY <1>1, RowShows DEF SelectedRows
  <2>2. rows' \subseteq Nat /\ asked' \subseteq Torrents /\ box' \in BOOLEAN
    BY <1>6, <2>1 DEF AskRemove
  <2> QED BY <1>1, <1>6, <2>2 DEF AskRemove, Others
<1>7. ASSUME AnswerCancel
      PROVE  Others'
  BY <1>1, <1>7 DEF AnswerCancel, CloseBox, Others
<1>8. ASSUME NEW t \in Torrents, WebRemove(t)
      PROVE  Others'
  <2>1. posted \in Seq(Torrents)
    BY <1>1 DEF Others
  <2>2. Append(posted, t) \in Seq(Torrents)
    BY <2>1, AppendNew
  <2> QED BY <1>1, <1>8, <2>2 DEF WebRemove, Others
<1>9. ASSUME NEW t \in Torrents, NEW s \in Statuses, StatusChanges(t, s)
      PROVE  Others'
  BY <1>1, <1>9 DEF StatusChanges, Others
<1>10. ASSUME NEW g \in Groups, ChangeGroup(g)
       PROVE  Others'
  BY <1>1, <1>10 DEF ChangeGroup, Others
<1>11. ASSUME NEW t \in Torrents, CancelMagnetLink(t)
       PROVE  Others'
  BY <1>1, <1>11 DEF CancelMagnetLink, Others
<1>12. Others'
  BY <1>4, <1>5, <1>6, <1>7, <1>8, <1>9, <1>10, <1>11
<1> QED BY <1>3, <1>12, IInvParts

(* removeRow on all the sampled rows. *)
LEMMA RemoveAllKeepsLists ==
    ASSUME IInv, NEW S, RemoveAll(S)
    PROVE  /\ Lists' /\ Listed \ S \subseteq Listed'
           /\ selection' \subseteq Nat
           /\ current' \in Torrents \cup {NoTorrent}
           /\ selectedRow' = selectedRow
           /\ current' \in Listed => current' = current /\ current \notin S
<1>1. Lists /\ Others
  BY IInvParts
<1>2. PICK deaf \in SUBSET Deaf(S) : StorageRemove(S \ deaf)
  BY DEF RemoveAll
<1>3. Lists' /\ Listed' = Listed \ (S \ deaf)
  BY <1>1, <1>2, StorageRemoveKeepsLists
<1>4. Listed \subseteq Torrents
  <2>1. list \in Seq(Torrents)
    BY <1>1 DEF Lists
  <2> QED BY <2>1, ElementOfSeq, LenProperties DEF Listed, Range
<1>5. NoTorrent \notin Listed
  BY <1>4, ConstantsAssumption
<1>6. /\ selection' \subseteq Nat
      /\ current' \in Torrents \cup {NoTorrent}
      /\ selectedRow' = selectedRow
  BY <1>1 DEF RemoveAll, Others
<1>7. current' \in Listed => current' = current /\ current \notin S
  BY <1>5 DEF RemoveAll
<1> QED BY <1>3, <1>6, <1>7

LEMMA RemovalsKeepIInv ==
    ASSUME IInv, AnswerOk \/ OnTorrentRemove
    PROVE  IInv'
<1> USE DEF filterVars, torrentVars, selectVars, boxVars
<1>1. Lists /\ Others
  BY IInvParts
<1>2. ASSUME OnTorrentRemove
      PROVE  IInv'
  <2>1. Lists'
    BY <1>1, <1>2, StorageRemoveKeepsLists DEF OnTorrentRemove
  <2>2. posted' \in Seq(Torrents)
    <3>1. posted \in Seq(Torrents) /\ posted # <<>>
      BY <1>1, <1>2 DEF Others, OnTorrentRemove
    <3> QED BY <1>2, <3>1, HeadTailProperties DEF OnTorrentRemove
  <2>3. Others'
    BY <1>1, <1>2, <2>2 DEF OnTorrentRemove, Others
  <2> QED BY <2>1, <2>3, IInvParts
<1>3. ASSUME AnswerOk
      PROVE  IInv'
  <2>1. /\ Lists' /\ selection' \subseteq Nat
        /\ current' \in Torrents \cup {NoTorrent}
        /\ selectedRow' = selectedRow
        /\ crashed' \in BOOLEAN
    <3>1. ASSUME NEW S, RemoveAll(S), UNCHANGED crashed
          PROVE  /\ Lists' /\ selection' \subseteq Nat
                 /\ current' \in Torrents \cup {NoTorrent}
                 /\ selectedRow' = selectedRow
                 /\ crashed' \in BOOLEAN
      BY <1>1, <3>1, RemoveAllKeepsLists DEF Others
    <3>2. ASSUME crashed' = TRUE, UNCHANGED <<list, view, selectVars>>
          PROVE  /\ Lists' /\ selection' \subseteq Nat
                 /\ current' \in Torrents \cup {NoTorrent}
                 /\ selectedRow' = selectedRow
                 /\ crashed' \in BOOLEAN
      BY <1>1, <3>2 DEF Lists, ViewOfList, Listed, Others
    <3> QED BY <1>3, <3>1, <3>2 DEF AnswerOk
  <2>2. Others'
    BY <1>1, <1>3, <2>1 DEF AnswerOk, CloseBox, Others
  <2> QED BY <2>1, <2>2, IInvParts
<1> QED BY <1>2, <1>3

LEMMA IInvInductive ==
    (Init => IInv) /\ (IInv /\ [Next]_vars => IInv')
<1>1. ASSUME Init
      PROVE  IInv
  <2>1. PICK S \in SUBSET Torrents : list \in SetToSeqs(S) /\ view \in SetToSeqs(S)
    BY <1>1 DEF Init
  <2>2. list \in Seq(Torrents) /\ Range(list) = S /\ IsInjective(list)
    BY <2>1, SetToSeqsProperties
  <2>3. view \in Seq(Torrents) /\ Range(view) = S /\ IsInjective(view)
    BY <2>1, SetToSeqsProperties
  <2>4. Lists
    BY <2>2, <2>3 DEF Lists, ViewOfList, Listed
  <2>5. posted \in Seq(Torrents) /\ NoGroup \in Groups
    BY <1>1, EmptySeq, ConstantsAssumption DEF Init
  <2>6. Others
    BY <1>1, <2>5 DEF Init, InitFilters, Others, AllFilters
  <2> QED BY <2>4, <2>6, IInvParts
<1>2. ASSUME IInv, [Next]_vars
      PROVE  IInv'
  <2>1. CASE UNCHANGED vars
    BY <1>2, <2>1 DEF vars, filterVars, torrentVars, selectVars, boxVars, IInv, TypeOK,
                      ViewOfList, Listed
  <2>2. CASE Next
    BY <1>2, <2>2, AppendKeepsIInv, FiltersKeepIInv, SelectionKeepsIInv,
       OtherActionsKeepIInv, RemovalsKeepIInv DEF Next
  <2> QED BY <1>2, <2>1, <2>2
<1> QED BY <1>1, <1>2

LEMMA IInvariance == Spec => []IInv
BY IInvInductive, PTL DEF Spec

(* The type invariant of the list and its selection. *)
THEOREM TypeCorrect == Spec => []TypeOK
<1>1. IInv => TypeOK
  BY DEF IInv
<1> QED BY IInvariance, <1>1, PTL

(* Every row shows a torrent of the list, and none is listed or shown      *)
(* twice: for any torrents, filters and groups, and any interleaving of    *)
(* append, remove, filterData and the web server's removals.               *)
THEOREM RowsShowTheList == Spec => []ViewOfList
<1>1. IInv => ViewOfList
  BY DEF IInv
<1> QED BY IInvariance, <1>1, PTL

(* The answer to the question never leaves a torrent current that it took  *)
(* off the list: removeRow resets CurrentTorrent whichever rows it is      *)
(* called with, also rows that have moved or are one too far.              *)
THEOREM RemovedIsNotCurrent == Spec => CurrentFollowsRemoval
<1>1. ASSUME IInv, [Next]_vars, box, ~box', ~crashed', current' \in Listed
      PROVE  current' \in Listed'
  <2> USE DEF filterVars, torrentVars, selectVars, boxVars
  <2>1. AnswerCancel \/ AnswerOk
    BY <1>1 DEF Next, vars, FilterData, ContextualMenuOnNothing, SwitchModels, AskRemove,
       OnTorrentRemove, SetTorrentFilter, SetGroupFilter, ChangeGroup, UpdateSelectedIndex,
       WebRemove, CancelMagnetLink, StatusChanges, AppendTorrent
  <2>2. CASE AnswerCancel
    BY <1>1, <2>2 DEF AnswerCancel, Listed
  <2>3. CASE AnswerOk
    <3>1. PICK S : RemoveAll(S)
      BY <1>1, <2>3 DEF AnswerOk
    <3>2. Listed \ S \subseteq Listed' /\ current' = current /\ current \notin S
      BY <1>1, <3>1, RemoveAllKeepsLists
    <3> QED BY <1>1, <3>2
  <2> QED BY <2>1, <2>2, <2>3
<1>2. IInv /\ [Next]_vars =>
        [box /\ ~box' /\ ~crashed' /\ current' \in Listed => current' \in Listed']_vars
  BY <1>1
<1> QED BY IInvariance, <1>2, PTL DEF Spec, CurrentFollowsRemoval
-----------------------------------------------------------------------------
(* What is true between two steps when there is no filter but NONE, no     *)
(* group and no web server: the rows are the list itself, and the rows     *)
(* that were sampled still show what the question is about.                *)
PlainInv ==
    /\ IInv
    /\ view = list
    /\ torrentFilter = "NONE" /\ groupFilter = NoGroup
    /\ posted = <<>>
    /\ rows \subseteq RowsOf(list)
    /\ asked = {list[r + 1] : r \in rows}
    /\ box \/ rows = {}

Plain == Filters \subseteq {"NONE"} /\ Groups = {NoGroup} /\ WebServer = FALSE

(* Without a filter every torrent is shown, in the list's order. *)
LEMMA PlainFilter ==
    ASSUME list \in Seq(Torrents), NEW type
    PROVE  Filtered(type, "NONE", NoGroup) = list
<1>1. \A t \in Torrents : Shown(t, type, "NONE", NoGroup)
  BY DEF Shown, Matches
<1>2. Torrents \subseteq {t \in Torrents : Shown(t, type, "NONE", NoGroup)}
  BY <1>1
<1> QED BY <1>2, KeepAll DEF Filtered

(* append adds a torrent behind the rows that were sampled. *)
LEMMA PlainAppend ==
    ASSUME PlainInv, NEW t \in Torrents, NEW s \in Statuses, NEW g \in Groups,
           AppendTorrent(t, s, g)
    PROVE  PlainInv' /\ Library!Next
<1> USE DEF filterVars, torrentVars, selectVars, boxVars
<1>1. IInv'
  BY AppendKeepsIInv DEF PlainInv
<1>2. list \in Seq(Torrents) /\ list' = Append(list, t) /\ t \notin Listed
  BY DEF PlainInv, IInv, TypeOK, AppendTorrent
<1>3. /\ Len(list') = Len(list) + 1 /\ Len(list) \in Nat
      /\ \A i \in 1 .. Len(list) : list'[i] = list[i]
      /\ Range(list') = Range(list) \cup {t}
  BY <1>2, AppendNew, LenProperties
<1>4. view' = list'
  BY DEF PlainInv, AppendTorrent, AppendShows, Matches
<1>5. rows' = rows /\ asked' = asked /\ box' = box
  BY DEF AppendTorrent
<1>6. \A r \in rows : r \in RowsOf(list') /\ list'[r + 1] = list[r + 1]
  <2>1. \A r \in rows : r \in 0 .. Len(list) - 1
    BY DEF PlainInv, RowsOf
  <2>2. \A r \in rows : r \in 0 .. Len(list') - 1 /\ r + 1 \in 1 .. Len(list)
    BY <1>3, <2>1
  <2> QED BY <1>3, <2>2 DEF RowsOf
<1>7. PlainInv'
  <2>1. asked' = {list'[r + 1] : r \in rows'}
    BY <1>5, <1>6 DEF PlainInv
  <2>2. rows' \subseteq RowsOf(list')
    BY <1>5, <1>6
  <2>3. torrentFilter' = "NONE" /\ groupFilter' = NoGroup /\ posted' = <<>>
    BY DEF PlainInv, AppendTorrent
  <2>4. (box \/ rows = {})'
    BY <1>5 DEF PlainInv
  <2> QED BY <1>1, <1>4, <2>1, <2>2, <2>3, <2>4 DEF PlainInv
<1>8. Library!Add(t)
  <2>1. dead' = dead \ {t}
    BY DEF AppendTorrent
  <2> QED BY <1>2, <1>3, <1>5, <2>1 DEF Library!Add, Listed
<1> QED BY <1>7, <1>8 DEF Library!Next

(* The refreshes leave the rows as they are. *)
LEMMA PlainRefresh ==
    ASSUME Plain, PlainInv,
           \/ FilterData
           \/ \E f \in Filters : SetTorrentFilter(f)
           \/ \E g \in Groups : SetGroupFilter(g)
    PROVE  PlainInv' /\ UNCHANGED <<list, asked, dead>>
<1> USE DEF filterVars, torrentVars, selectVars, boxVars
<1>1. IInv'
  BY FiltersKeepIInv DEF PlainInv
<1>2. list \in Seq(Torrents)
  BY DEF PlainInv, IInv, TypeOK
<1>3. /\ list' = list /\ box' = box /\ rows' = rows /\ asked' = asked /\ posted' = posted
      /\ dead' = dead
      /\ torrentFilter' = "NONE" /\ groupFilter' = NoGroup
  BY DEF Plain, PlainInv, FilterData, SetTorrentFilter, SetGroupFilter
<1>4. \E type : view' = Filtered(type, "NONE", NoGroup)
  BY DEF Plain, PlainInv, FilterData, SetTorrentFilter, SetGroupFilter
<1>5. view' = list'
  BY <1>2, <1>3, <1>4, PlainFilter
<1>6. RowsOf(list') = RowsOf(list) /\ \A r \in rows : list'[r + 1] = list[r + 1]
  BY <1>3
<1>7. asked' = {list'[r + 1] : r \in rows'} /\ rows' \subseteq RowsOf(list')
  BY <1>3, <1>6 DEF PlainInv
<1>8. (box \/ rows = {})' /\ posted' = <<>>
  BY <1>3 DEF PlainInv
<1> QED BY <1>1, <1>3, <1>5, <1>7, <1>8 DEF PlainInv

(* The question is about the torrents the selected rows show. *)
LEMMA PlainAsk ==
    ASSUME PlainInv, AskRemove
    PROVE  PlainInv' /\ Library!Next
<1> USE DEF filterVars, torrentVars, selectVars, boxVars
<1>1. IInv'
  BY OtherActionsKeepIInv DEF PlainInv
<1>2. /\ list' = list /\ view' = view /\ torrentFilter' = torrentFilter
      /\ groupFilter' = groupFilter /\ posted' = posted /\ box' = TRUE /\ dead' = dead
      /\ rows' = SelectedRows /\ asked' = {list[r + 1] : r \in SelectedRows}
  BY DEF AskRemove, PlainInv
<1>3. rows' \subseteq RowsOf(list)
  BY <1>2 DEF SelectedRows, PlainInv
<1>4. PlainInv'
  BY <1>1, <1>2, <1>3 DEF PlainInv, RowsOf
<1>5. asked = {} /\ asked' \in SUBSET Listed
  <2>1. asked = {}
    BY DEF PlainInv, AskRemove
  <2>2. Lists
    BY IInvParts DEF PlainInv
  <2>3. \A r \in SelectedRows : view[r + 1] \in Listed
    BY <2>2, RowShows DEF SelectedRows
  <2> QED BY <1>2, <2>1, <2>3 DEF PlainInv
<1>6. Library!Ask(asked')
  BY <1>2, <1>5 DEF Library!Ask, Listed
<1> QED BY <1>4, <1>5, <1>6 DEF Library!Next

LEMMA PlainCancel ==
    ASSUME PlainInv, AnswerCancel
    PROVE  PlainInv' /\ Library!Next
<1> USE DEF filterVars, torrentVars, selectVars, boxVars
<1>1. IInv'
  BY OtherActionsKeepIInv DEF PlainInv
<1>2. PlainInv'
  BY <1>1 DEF PlainInv, AnswerCancel, CloseBox, RowsOf
<1>3. Library!SayNo
  BY DEF AnswerCancel, CloseBox, Library!SayNo, Listed
<1> QED BY <1>2, <1>3 DEF Library!Next

(* removeRow on the sampled rows takes off what was asked and no more, and *)
(* leaves none of it but what has died.                                    *)
LEMMA PlainOk ==
    ASSUME PlainInv, AnswerOk
    PROVE  PlainInv' /\ Library!Next
<1> USE DEF filterVars, torrentVars, selectVars, boxVars
<1>1. IInv'
  BY RemovalsKeepIInv DEF PlainInv
<1>2. Lists
  BY IInvParts DEF PlainInv
<1>3. ~OneTooFar
  <2>1. Len(view) \in Nat
    BY <1>2, LenProperties DEF Lists
  <2>2. Len(view) \notin RowsOf(list)
    BY <2>1 DEF PlainInv, RowsOf
  <2> QED BY <2>2 DEF OneTooFar, PlainInv
<1>4. RemovedBy = asked
  BY DEF RemovedBy, PlainInv
<1>5. RemoveAll(asked)
  BY <1>3, <1>4 DEF AnswerOk
<1>6. Deaf(asked) = asked \cap dead
  <2>1. Range(posted) = {}
    BY DEF PlainInv, Range
  <2> QED BY <2>1 DEF Deaf
<1>7. PICK stay \in SUBSET (asked \cap dead) : StorageRemove(asked \ stay)
  BY <1>5, <1>6 DEF RemoveAll
<1>8. Listed' = Listed \ (asked \ stay)
  BY <1>2, <1>7, StorageRemoveKeepsLists
<1>9. view' = list'
  BY <1>7 DEF StorageRemove, PlainInv
<1>10. /\ rows' = {} /\ asked' = {} /\ posted' = posted /\ dead' = dead
       /\ torrentFilter' = torrentFilter /\ groupFilter' = groupFilter
  BY DEF AnswerOk, CloseBox
<1>11. PlainInv'
  BY <1>1, <1>9, <1>10 DEF PlainInv
<1>12. Library!SayYes
  BY <1>7, <1>8, <1>10 DEF Library!SayYes
<1> QED BY <1>11, <1>12 DEF Library!Next

(* A cancelled magnet link leaves the entry of its torrent where it is. *)
LEMMA PlainDie ==
    ASSUME PlainInv, NEW t \in Torrents, CancelMagnetLink(t)
    PROVE  PlainInv' /\ Library!Next
<1> USE DEF filterVars, torrentVars, selectVars, boxVars
<1>1. IInv'
  BY OtherActionsKeepIInv DEF PlainInv
<1>2. UNCHANGED <<list, view, torrentFilter, groupFilter, posted, rows, asked, box>>
  BY DEF CancelMagnetLink
<1>3. PlainInv'
  BY <1>1, <1>2 DEF PlainInv, RowsOf
<1>4. Library!Die(t)
  BY <1>2 DEF CancelMagnetLink, Library!Die, Listed
<1> QED BY <1>3, <1>4 DEF Library!Next

(* The rest changes neither the list nor the question. *)
LEMMA PlainOther ==
    ASSUME PlainInv,
           \/ ContextualMenuOnNothing \/ SwitchModels
           \/ \E t \in Torrents : \E s \in Statuses : StatusChanges(t, s)
           \/ \E g \in Groups : ChangeGroup(g)
           \/ \E S \in SUBSET (selection \cup RowsOf(view)) : UpdateSelectedIndex(S)
    PROVE  PlainInv' /\ UNCHANGED <<list, asked, dead>>
<1> USE DEF filterVars, torrentVars, selectVars, boxVars
<1>1. IInv'
  BY OtherActionsKeepIInv, SelectionKeepsIInv DEF PlainInv
<1>2. UNCHANGED <<list, view, torrentFilter, groupFilter, posted, dead, rows, asked, box>>
  BY DEF ContextualMenuOnNothing, SwitchModels, StatusChanges, ChangeGroup, UpdateSelectedIndex
<1> QED BY <1>1, <1>2 DEF PlainInv, RowsOf

(* Without filters, groups and the web server the list is the library its  *)
(* user was promised: of whatever size, and whatever is added and          *)
(* refreshed while the question is open, the answer removes the torrents   *)
(* that were selected when it was asked and no other one, and of those     *)
(* only what CancelMagnetLink has killed may stay.                         *)
THEOREM ListImplementsLibrary ==
    ASSUME Plain
    PROVE  SettledSpec => ImplementsLibrary
<1>1. ASSUME SettledInit
      PROVE  PlainInv /\ Library!Init
  <2>1. IInv
    BY <1>1, IInvInductive DEF SettledInit
  <2>2. PlainInv
    BY <1>1, <2>1 DEF PlainInv, SettledInit, Init, InitFilters
  <2>3. Listed \in SUBSET Torrents
    <3>1. list \in Seq(Torrents)
      BY <2>1 DEF IInv, TypeOK
    <3> QED BY <3>1, ElementOfSeq, LenProperties DEF Listed, Range
  <2> QED BY <1>1, <2>2, <2>3 DEF SettledInit, Init, Library!Init
<1>2. ASSUME PlainInv, [Next]_vars
      PROVE  PlainInv' /\ [Library!Next]_(Library!vars)
  <2>1. CASE UNCHANGED vars
    <3>1. IInv'
      BY <1>2, <2>1, IInvInductive DEF PlainInv
    <3> QED BY <1>2, <2>1, <3>1 DEF vars, filterVars, torrentVars, selectVars, boxVars, PlainInv,
                                    RowsOf, Listed, Library!vars
  <2>2. CASE Next
    <3>1. ASSUME PlainInv' /\ UNCHANGED <<list, asked, dead>>
          PROVE  PlainInv' /\ [Library!Next]_(Library!vars)
      BY <3>1 DEF Listed, Library!vars
    <3>2. ~ \E t \in Torrents : WebRemove(t)
      BY DEF Plain, WebRemove
    <3>3. ~ OnTorrentRemove
      BY <1>2 DEF PlainInv, OnTorrentRemove
    <3> QED BY <1>2, <2>2, <3>1, <3>2, <3>3, PlainAppend, PlainRefresh, PlainAsk, PlainCancel,
               PlainOk, PlainDie, PlainOther DEF Next
  <2> QED BY <1>2, <2>1, <2>2
<1> QED BY <1>1, <1>2, PTL DEF SettledSpec, ImplementsLibrary, Library!Spec
=============================================================================
