-------------------------- MODULE NameCache_proofs --------------------------
(* The stack of name caches, for any names, heights and histories: it      *)
(* implements the plain name databases of FlatNames, no cache is ever      *)
(* incoherent, and the nested iterators list just what the caches show.    *)
EXTENDS NameCache, FiniteSetTheorems, WellFoundedInduction, TLAPS

(* Most leaves are first-order, so Zenon is the default prover; a leaf that  *)
(* needs arithmetic, records or function application says SMT.              *)
USE Zenon

DataOrNone == NameData \cup {NoData}

Names ==
  [data : [Name -> DataOrNone], history : [Name -> Seq(NameData)],
   expireIndex : SUBSET ExpireEntry]

Caches ==
  [entries : [Name -> DataOrNone], deleted : SUBSET Name,
   history : [Name -> Seq(NameData) \cup {NoHistory}],
   expireIndex : [ExpireEntry -> {"none", "add", "drop"}]]

(* A name is not both set and deleted, and nothing about a name that is    *)
(* neither is in the cache.                                                *)
Coherent(c) ==
  \A n \in Name :
    /\ n \in c.deleted => c.entries[n] = NoData
    /\ (n \notin c.deleted /\ c.entries[n] = NoData) =>
         c.history[n] = NoHistory /\ \A h \in 1 .. MaxHeight : c.expireIndex[<<h, n>>] = "none"

CacheOK(c) == c \in Caches /\ Coherent(c)

CacheInv == dbNames \in Names /\ CacheOK(tipNames) /\ CacheOK(viewNames)

-----------------------------------------------------------------------------
(* One cache c over base.                                                  *)

(* Two name databases with the same entries are the same.                  *)
LEMMA NamesEqual ==
  ASSUME NEW a \in Names, NEW b \in Names,
         \A n \in Name : a.data[n] = b.data[n] /\ a.history[n] = b.history[n],
         \A e \in ExpireEntry : e \in a.expireIndex <=> e \in b.expireIndex
  PROVE  a = b
<1>1. a.data = b.data
  BY SMT DEF Names
<1>2. a.history = b.history
  BY SMT DEF Names
<1>3. a.expireIndex = b.expireIndex
  BY DEF Names
<1> QED BY <1>1, <1>2, <1>3, SMT DEF Names

(* What a cache over a name database shows.                                *)
LEMMA OverlayFields ==
  ASSUME NEW c \in Caches, NEW base \in Names
  PROVE  /\ Overlay(c, base) \in Names
         /\ \A n \in Name :
              /\ Overlay(c, base).data[n] = IF n \in c.deleted THEN NoData
                                            ELSE IF c.entries[n] # NoData THEN c.entries[n]
                                            ELSE base.data[n]
              /\ Overlay(c, base).history[n] = IF c.history[n] # NoHistory THEN c.history[n]
                                                                         ELSE base.history[n]
         /\ \A e \in ExpireEntry :
              e \in Overlay(c, base).expireIndex <=>
                c.expireIndex[e] = "add" \/ (c.expireIndex[e] = "none" /\ e \in base.expireIndex)
<1> DEFINE o == Overlay(c, base)
<1>1. \A n \in Name : o.data[n] = IF n \in c.deleted THEN NoData
                                  ELSE IF c.entries[n] # NoData THEN c.entries[n]
                                  ELSE base.data[n]
  BY DEF Overlay
<1>2. \A n \in Name : o.history[n] = IF c.history[n] # NoHistory THEN c.history[n] ELSE base.history[n]
  BY DEF Overlay
<1>3. \A e \in ExpireEntry :
        e \in o.expireIndex <=>
          c.expireIndex[e] = "add" \/ (c.expireIndex[e] = "none" /\ e \in base.expireIndex)
  BY DEF Overlay
<1>4. o.data \in [Name -> DataOrNone]
  BY DEF Overlay, Caches, Names, DataOrNone
<1>5. o.history \in [Name -> Seq(NameData)]
  BY DEF Overlay, Caches, Names
<1>6. o.expireIndex \in SUBSET ExpireEntry
  BY DEF Overlay
<1>7. o = [data |-> o.data, history |-> o.history, expireIndex |-> o.expireIndex]
  BY DEF Overlay
<1> HIDE DEF o
<1>8. o \in Names
  BY <1>4, <1>5, <1>6, <1>7 DEF Names
<1> QED BY <1>1, <1>2, <1>3, <1>8 DEF o

(* An empty cache is coherent and shows its base.                          *)
LEMMA EmptyShowsBase ==
  ASSUME NEW base \in Names
  PROVE  CacheOK(EmptyCache) /\ Overlay(EmptyCache, base) = base
<1>1. /\ EmptyCache \in Caches
      /\ \A n \in Name : EmptyCache.entries[n] = NoData /\ EmptyCache.history[n] = NoHistory
      /\ \A e \in ExpireEntry : EmptyCache.expireIndex[e] = "none"
      /\ EmptyCache.deleted = {}
  BY DEF EmptyCache, Caches, DataOrNone
<1>2. Coherent(EmptyCache)
  BY <1>1 DEF Coherent, ExpireEntry
<1>3. Overlay(EmptyCache, base) = base
  <2>1. Overlay(EmptyCache, base) \in Names
    BY <1>1, OverlayFields
  <2>2. /\ \A n \in Name : /\ Overlay(EmptyCache, base).data[n] = base.data[n]
                           /\ Overlay(EmptyCache, base).history[n] = base.history[n]
        /\ \A e \in ExpireEntry : e \in Overlay(EmptyCache, base).expireIndex <=> e \in base.expireIndex
    BY <1>1, OverlayFields, SMT
  <2> QED BY <2>1, <2>2, NamesEqual
<1> QED BY <1>1, <1>2, <1>3 DEF CacheOK

(* The cache with the given fields.                                        *)
CacheOf(en, de, hi, ex) == [entries |-> en, deleted |-> de, history |-> hi, expireIndex |-> ex]

(* It is a cache when its fields are.                                      *)
LEMMA CacheOfFields ==
  ASSUME NEW en \in [Name -> DataOrNone], NEW de \in SUBSET Name,
         NEW hi \in [Name -> Seq(NameData) \cup {NoHistory}],
         NEW ex \in [ExpireEntry -> {"none", "add", "drop"}]
  PROVE  CacheOf(en, de, hi, ex) \in Caches
BY DEF Caches, CacheOf

(* CNameCache::set gives a name its entry.                                 *)
LEMMA EntryFields ==
  ASSUME NEW en, NEW de, NEW hi, NEW ex, NEW n, NEW x
  PROVE  set(CacheOf(en, de, hi, ex), n, x) = CacheOf([en EXCEPT ![n] = x], de \ {n}, hi, ex)
<1> DEFINE c == CacheOf(en, de, hi, ex)
           a == [c EXCEPT !.entries[n] = x]
<1>1. a = CacheOf([en EXCEPT ![n] = x], de, hi, ex)
  BY SMT DEF CacheOf
<1>2. set(c, n, x) = [a EXCEPT !.deleted = @ \ {n}]
  BY SMT DEF set, CacheOf
<1> HIDE DEF a
<1>3. [a EXCEPT !.deleted = @ \ {n}] = CacheOf([en EXCEPT ![n] = x], de \ {n}, hi, ex)
  BY <1>1, SMT DEF CacheOf
<1> QED BY <1>2, <1>3

(* CNameCache::remove takes it away and marks the name as deleted.         *)
LEMMA RemoveFields ==
  ASSUME NEW en, NEW de, NEW hi, NEW ex, NEW n
  PROVE  remove(CacheOf(en, de, hi, ex), n) = CacheOf([en EXCEPT ![n] = NoData], de \cup {n}, hi, ex)
<1> DEFINE c == CacheOf(en, de, hi, ex)
           a == [c EXCEPT !.entries[n] = NoData]
<1>1. a = CacheOf([en EXCEPT ![n] = NoData], de, hi, ex)
  BY SMT DEF CacheOf
<1>2. remove(c, n) = [a EXCEPT !.deleted = @ \cup {n}]
  BY SMT DEF remove, CacheOf
<1> HIDE DEF a
<1>3. [a EXCEPT !.deleted = @ \cup {n}] = CacheOf([en EXCEPT ![n] = NoData], de \cup {n}, hi, ex)
  BY <1>1, SMT DEF CacheOf
<1> QED BY <1>2, <1>3

(* setHistory changes a name's history, when histories are kept at all.    *)
LEMMA HistoryFields ==
  ASSUME NEW en, NEW de, NEW hi, NEW ex, NEW n, NEW x
  PROVE  setHistory(CacheOf(en, de, hi, ex), n, x) =
           CacheOf(en, de, IF fNameHistory THEN [hi EXCEPT ![n] = x] ELSE hi, ex)
BY DEF setHistory, CacheOf

(* addExpireIndex marks an entry of the index for writing.                 *)
LEMMA AddFields ==
  ASSUME NEW en, NEW de, NEW hi, NEW ex, NEW n, NEW h
  PROVE  addExpireIndex(CacheOf(en, de, hi, ex), n, h) =
           CacheOf(en, de, hi, [ex EXCEPT ![<<h, n>>] = "add"])
BY SMT DEF addExpireIndex, CacheOf

(* removeExpireIndex marks an entry of the index for erasing.              *)
LEMMA DropFields ==
  ASSUME NEW en, NEW de, NEW hi, NEW ex, NEW n, NEW h
  PROVE  removeExpireIndex(CacheOf(en, de, hi, ex), n, h) =
           CacheOf(en, de, hi, [ex EXCEPT ![<<h, n>>] = "drop"])
BY SMT DEF removeExpireIndex, CacheOf

(* What SetName makes of the cache c.                                      *)
IsSet(d, c, old, n, data, hist) ==
  /\ d \in Caches
  /\ d.entries = [c.entries EXCEPT ![n] = data]
  /\ d.deleted = c.deleted \ {n}
  /\ d.history = IF fNameHistory /\ old # NoData THEN [c.history EXCEPT ![n] = hist] ELSE c.history
  /\ \A e \in ExpireEntry :
       d.expireIndex[e] = IF e = <<data.height, n>> THEN "add"
                          ELSE IF old # NoData /\ e = <<old.height, n>> THEN "drop"
                          ELSE c.expireIndex[e]

(* CCoinsViewCache::SetName changes the fields like that.                  *)
LEMMA SetFields ==
  ASSUME NEW c \in Caches, NEW n \in Name, NEW old \in DataOrNone, NEW data \in NameData, NEW hist,
         old # NoData => hist \in Seq(NameData)
  PROVE  IsSet(CacheSetName(c, old, n, data, hist), c, old, n, data, hist)
<1>1. c = CacheOf(c.entries, c.deleted, c.history, c.expireIndex)
  BY DEF Caches, CacheOf
<1>2. /\ c.entries \in [Name -> DataOrNone] /\ c.deleted \in SUBSET Name
      /\ c.history \in [Name -> Seq(NameData) \cup {NoHistory}]
      /\ c.expireIndex \in [ExpireEntry -> {"none", "add", "drop"}]
  BY DEF Caches
<1>3. /\ <<data.height, n>> \in ExpireEntry /\ data \in DataOrNone
      /\ old # NoData => <<old.height, n>> \in ExpireEntry
  BY DEF ExpireEntry, NameData, DataOrNone
<1> DEFINE hi == IF fNameHistory /\ old # NoData THEN [c.history EXCEPT ![n] = hist] ELSE c.history
           ex == IF old # NoData THEN [c.expireIndex EXCEPT ![<<old.height, n>>] = "drop"]
                                 ELSE c.expireIndex
           en == [c.entries EXCEPT ![n] = data]
           full == [ex EXCEPT ![<<data.height, n>>] = "add"]
           d == CacheSetName(c, old, n, data, hist)
<1>4. d = CacheOf(en, c.deleted \ {n}, hi, full)
  <2> DEFINE dropped == IF old = NoData THEN c
                        ELSE setHistory(removeExpireIndex(c, n, old.height), n, hist)
  <2>1. dropped = CacheOf(c.entries, c.deleted, hi, ex)
    <3>1. CASE old = NoData
      BY <1>1, <3>1
    <3>2. CASE old # NoData
      <4> DEFINE dr == [c.expireIndex EXCEPT ![<<old.height, n>>] = "drop"]
                 hs == IF fNameHistory THEN [c.history EXCEPT ![n] = hist] ELSE c.history
      <4>1. removeExpireIndex(c, n, old.height) = CacheOf(c.entries, c.deleted, c.history, dr)
        BY <1>1, DropFields, SMT
      <4>2. hi = hs /\ ex = dr
        BY <3>2
      <4>3. setHistory(CacheOf(c.entries, c.deleted, c.history, dr), n, hist) =
              CacheOf(c.entries, c.deleted, hs, dr)
        BY HistoryFields
      <4> HIDE DEF dr, hs, hi, ex
      <4> QED BY <3>2, <4>1, <4>2, <4>3
    <3> QED BY <3>1, <3>2
  <2>2. d = addExpireIndex(set(dropped, n, data), n, data.height)
    BY DEF CacheSetName
  <2> HIDE DEF dropped, hi, ex, d
  <2>3. set(dropped, n, data) = CacheOf(en, c.deleted \ {n}, hi, ex)
    <3>1. set(CacheOf(c.entries, c.deleted, hi, ex), n, data) =
            CacheOf([c.entries EXCEPT ![n] = data], c.deleted \ {n}, hi, ex)
      BY EntryFields, SMT
    <3> QED BY <2>1, <3>1
  <2> HIDE DEF en
  <2> QED BY <2>2, <2>3, AddFields, SMT
<1>5. en \in [Name -> DataOrNone]
  BY <1>2, <1>3
<1>6. hi \in [Name -> Seq(NameData) \cup {NoHistory}]
  BY <1>2
<1>7. ex \in [ExpireEntry -> {"none", "add", "drop"}] /\ full \in [ExpireEntry -> {"none", "add", "drop"}]
  BY <1>2, <1>3
<1>8. \A e \in ExpireEntry :
        full[e] = IF e = <<data.height, n>> THEN "add"
                  ELSE IF old # NoData /\ e = <<old.height, n>> THEN "drop"
                  ELSE c.expireIndex[e]
  BY <1>2, <1>3
<1> HIDE DEF en, hi, full, d
<1>9. d \in Caches
  BY <1>2, <1>4, <1>5, <1>6, <1>7, CacheOfFields
<1>10. /\ d.entries = en /\ d.deleted = c.deleted \ {n} /\ d.history = hi
       /\ d.expireIndex = full
  BY <1>4 DEF CacheOf
<1> QED BY <1>8, <1>9, <1>10 DEF en, hi, d, IsSet

(* What is shown after SetName, with hist as the name's history.           *)
ShownSet(v, n, data, hist) ==
  [data |-> [v.data EXCEPT ![n] = data],
   history |-> IF fNameHistory /\ v.data[n] # NoData THEN [v.history EXCEPT ![n] = hist]
                                                     ELSE v.history,
   expireIndex |-> Reindexed(v, n, data.height)]

(* What DeleteName makes of the cache c.                                   *)
IsDeleted(d, c, old, n) ==
  /\ d \in Caches
  /\ d.entries = [c.entries EXCEPT ![n] = NoData]
  /\ d.deleted = c.deleted \cup {n}
  /\ d.history = c.history
  /\ \A e \in ExpireEntry :
       d.expireIndex[e] = IF e = <<old.height, n>> THEN "drop" ELSE c.expireIndex[e]

(* CCoinsViewCache::DeleteName changes the fields like that.               *)
LEMMA DeleteFields ==
  ASSUME NEW c \in Caches, NEW n \in Name, NEW old \in NameData
  PROVE  IsDeleted(CacheDeleteName(c, old, n), c, old, n)
<1>1. c = CacheOf(c.entries, c.deleted, c.history, c.expireIndex)
  BY DEF Caches, CacheOf
<1>2. /\ c.entries \in [Name -> DataOrNone] /\ c.deleted \in SUBSET Name
      /\ c.history \in [Name -> Seq(NameData) \cup {NoHistory}]
      /\ c.expireIndex \in [ExpireEntry -> {"none", "add", "drop"}]
  BY DEF Caches
<1>3. <<old.height, n>> \in ExpireEntry
  BY DEF ExpireEntry, NameData
<1> DEFINE en == [c.entries EXCEPT ![n] = NoData]
           ex == [c.expireIndex EXCEPT ![<<old.height, n>>] = "drop"]
           d == CacheDeleteName(c, old, n)
<1>4. removeExpireIndex(c, n, old.height) = CacheOf(c.entries, c.deleted, c.history, ex)
  BY <1>1, DropFields, SMT
<1>5. en \in [Name -> DataOrNone] /\ ex \in [ExpireEntry -> {"none", "add", "drop"}]
  BY <1>2, <1>3 DEF DataOrNone
<1>6. \A e \in ExpireEntry : ex[e] = IF e = <<old.height, n>> THEN "drop" ELSE c.expireIndex[e]
  BY <1>2, <1>3
<1> HIDE DEF ex
<1>7. d = CacheOf(en, c.deleted \cup {n}, c.history, ex)
  <2>1. remove(CacheOf(c.entries, c.deleted, c.history, ex), n) =
          CacheOf([c.entries EXCEPT ![n] = NoData], c.deleted \cup {n}, c.history, ex)
    BY RemoveFields, SMT
  <2> QED BY <1>4, <2>1 DEF CacheDeleteName
<1> HIDE DEF en, d
<1>8. d \in Caches
  BY <1>2, <1>5, <1>7, CacheOfFields
<1>9. /\ d.entries = en /\ d.deleted = c.deleted \cup {n} /\ d.history = c.history
      /\ d.expireIndex = ex
  BY <1>7 DEF CacheOf
<1> QED BY <1>6, <1>8, <1>9 DEF en, d, IsDeleted

-----------------------------------------------------------------------------
(* The steps: each is a step of FlatNames, or changes nothing shown.       *)

FlatStep == Flat!Next \/ UNCHANGED <<dbNames, Tip, View>>

(* What is shown is a name database at every layer.                        *)
LEMMA ShownTypes == CacheInv => Tip \in Names /\ View \in Names
<1> SUFFICES ASSUME CacheInv PROVE Tip \in Names /\ View \in Names
  OBVIOUS
<1>1. Tip \in Names
  BY OverlayFields DEF CacheInv, CacheOK, Tip
<1> QED BY <1>1, OverlayFields DEF CacheInv, CacheOK, View

(* Every step keeps the caches coherent and is a step of FlatNames or none. *)
LEMMA CacheStep == CacheInv /\ [Next]_vars => CacheInv' /\ FlatStep
(* apply puts the changes of one cache on top of another's.                *)
<1>ApplyFields.
  ASSUME NEW c, CacheOK(c), NEW d, CacheOK(d)
  PROVE  /\ CacheOK(apply(c, d))
         /\ \A base \in Names : Overlay(apply(c, d), base) = Overlay(d, Overlay(c, base))
<2> USE <1>ApplyFields
<2> DEFINE a == apply(c, d)
<2>1. /\ \A n \in Name :
           /\ a.entries[n] = IF n \in d.deleted THEN NoData
                             ELSE IF d.entries[n] # NoData THEN d.entries[n] ELSE c.entries[n]
           /\ a.history[n] = IF d.history[n] # NoHistory THEN d.history[n] ELSE c.history[n]
           /\ n \in a.deleted <=> n \in d.deleted \/ (n \in c.deleted /\ d.entries[n] = NoData)
      /\ \A e \in ExpireEntry :
           a.expireIndex[e] = IF d.expireIndex[e] # "none" THEN d.expireIndex[e] ELSE c.expireIndex[e]
  BY DEF apply, CacheOK, Caches
<2>2. a \in Caches
  <3>1. a.entries \in [Name -> DataOrNone]
    BY DEF apply, CacheOK, Caches, DataOrNone
  <3>2. a.deleted \in SUBSET Name
    BY DEF apply, CacheOK, Caches
  <3>3. a.history \in [Name -> Seq(NameData) \cup {NoHistory}]
    BY DEF apply, CacheOK, Caches
  <3>4. a.expireIndex \in [ExpireEntry -> {"none", "add", "drop"}]
    BY DEF apply, CacheOK, Caches
  <3>5. a = [entries |-> a.entries, deleted |-> a.deleted, history |-> a.history,
             expireIndex |-> a.expireIndex]
    BY DEF apply
  <3> HIDE DEF a
  <3> QED BY <3>1, <3>2, <3>3, <3>4, <3>5 DEF Caches
<2> HIDE DEF a
<2>3. Coherent(a)
  BY <2>1 DEF Coherent, CacheOK, ExpireEntry
<2>4. ASSUME NEW base \in Names PROVE Overlay(a, base) = Overlay(d, Overlay(c, base))
  <3>1. c \in Caches /\ d \in Caches
    BY DEF CacheOK
  <3>2. Overlay(c, base) \in Names
    BY <3>1, OverlayFields
  <3>3. Overlay(a, base) \in Names /\ Overlay(d, Overlay(c, base)) \in Names
    BY <2>2, <3>1, <3>2, OverlayFields
  <3>4. ASSUME NEW n \in Name
        PROVE  /\ Overlay(a, base).data[n] = Overlay(d, Overlay(c, base)).data[n]
               /\ Overlay(a, base).history[n] = Overlay(d, Overlay(c, base)).history[n]
    BY <2>1, <2>2, <3>1, <3>2, OverlayFields, SMT DEF Coherent, CacheOK
  <3>5. ASSUME NEW e \in ExpireEntry
        PROVE  e \in Overlay(a, base).expireIndex <=> e \in Overlay(d, Overlay(c, base)).expireIndex
    <4>1. d.expireIndex[e] \in {"none", "add", "drop"}
      BY <3>1 DEF Caches
    <4> QED BY <2>1, <2>2, <3>1, <3>2, <4>1, OverlayFields, SMT
  <3> QED BY <3>3, <3>4, <3>5, NamesEqual
<2> QED BY <2>2, <2>3, <2>4 DEF CacheOK, a
(* writeBatch makes the database what the cache shows, and the cache shows *)
(* the same over the new database.                                         *)
<1>WriteBatchShown.
  ASSUME NEW c \in Caches, NEW base \in Names
  PROVE  /\ writeBatch(base, c) = Overlay(c, base)
         /\ Overlay(c, Overlay(c, base)) = Overlay(c, base)
<2> USE <1>WriteBatchShown
<2>1. writeBatch(base, c) = Overlay(c, base)
  <3>1. writeBatch(base, c).expireIndex = Overlay(c, base).expireIndex
    BY SMT DEF writeBatch, Overlay, Caches, Names
  <3> QED BY <3>1 DEF writeBatch, Overlay
<2>2. Overlay(c, base) \in Names
  BY OverlayFields
<2>3. Overlay(c, Overlay(c, base)) \in Names
  BY <2>2, OverlayFields
<2>4. /\ \A n \in Name : /\ Overlay(c, Overlay(c, base)).data[n] = Overlay(c, base).data[n]
                         /\ Overlay(c, Overlay(c, base)).history[n] = Overlay(c, base).history[n]
      /\ \A e \in ExpireEntry :
           e \in Overlay(c, Overlay(c, base)).expireIndex <=> e \in Overlay(c, base).expireIndex
  BY <2>2, OverlayFields, SMT
<2> QED BY <2>1, <2>2, <2>3, <2>4, NamesEqual
(* SetName through a cache shows SetName of what was shown.                *)
<1>SetShown.
  ASSUME NEW c, CacheOK(c), NEW base \in Names, NEW v, v = Overlay(c, base), NEW n \in Name,
         NEW data \in NameData, NEW hist, v.data[n] # NoData => hist \in Seq(NameData)
  PROVE  /\ CacheOK(CacheSetName(c, v.data[n], n, data, hist))
         /\ Overlay(CacheSetName(c, v.data[n], n, data, hist), base) = ShownSet(v, n, data, hist)
<2> USE <1>SetShown
<2> DEFINE old == v.data[n]
           d == CacheSetName(c, old, n, data, hist)
           r == [data |-> [v.data EXCEPT ![n] = data],
                 history |-> IF fNameHistory /\ old # NoData THEN [v.history EXCEPT ![n] = hist]
                                                             ELSE v.history,
                 expireIndex |-> Reindexed(v, n, data.height)]
<2>1. c \in Caches /\ v \in Names
  BY OverlayFields DEF CacheOK
<2>2. old \in DataOrNone /\ data # NoData /\ data \in DataOrNone
  BY <2>1, CacheAssumption DEF Names, DataOrNone
<2>3. /\ d \in Caches
      /\ d.entries = [c.entries EXCEPT ![n] = data]
      /\ d.deleted = c.deleted \ {n}
      /\ d.history = IF fNameHistory /\ old # NoData THEN [c.history EXCEPT ![n] = hist] ELSE c.history
      /\ \A e \in ExpireEntry :
           d.expireIndex[e] = IF e = <<data.height, n>> THEN "add"
                              ELSE IF old # NoData /\ e = <<old.height, n>> THEN "drop"
                              ELSE c.expireIndex[e]
  <3>1. old # NoData => hist \in Seq(NameData)
    OBVIOUS
  <3> HIDE DEF old
  <3>2. IsSet(d, c, old, n, data, hist)
    BY <2>1, <2>2, <3>1, SetFields
  <3> QED BY <3>2 DEF IsSet
<2>4. <<data.height, n>> \in ExpireEntry /\ (old # NoData => <<old.height, n>> \in ExpireEntry)
  <3> HIDE DEF old
  <3> QED BY <2>2 DEF ExpireEntry, NameData, DataOrNone
<2>5. /\ v.data \in [Name -> DataOrNone] /\ v.history \in [Name -> Seq(NameData)]
      /\ v.expireIndex \in SUBSET ExpireEntry
      /\ c.entries \in [Name -> DataOrNone] /\ c.history \in [Name -> Seq(NameData) \cup {NoHistory}]
  BY <2>1 DEF Names, Caches
<2> HIDE DEF d
<2>6. Coherent(d)
  <3>1. ASSUME NEW m \in Name, m # n
        PROVE  /\ d.entries[m] = c.entries[m] /\ (m \in d.deleted <=> m \in c.deleted)
               /\ d.history[m] = c.history[m]
               /\ \A h \in 1 .. MaxHeight : d.expireIndex[<<h, m>>] = c.expireIndex[<<h, m>>]
    <4>1. d.entries[m] = c.entries[m] /\ (m \in d.deleted <=> m \in c.deleted) /\ d.history[m] = c.history[m]
      BY <2>3, <2>5, <3>1
    <4>2. ASSUME NEW h \in 1 .. MaxHeight PROVE d.expireIndex[<<h, m>>] = c.expireIndex[<<h, m>>]
      <5>1. <<h, m>> \in ExpireEntry /\ <<h, m>> # <<data.height, n>> /\ <<h, m>> # <<old.height, n>>
        BY <3>1 DEF ExpireEntry
      <5> HIDE DEF old
      <5> QED BY <2>3, <5>1
    <4> QED BY <4>1, <4>2
  <3>2. d.entries[n] = data /\ n \notin d.deleted
    BY <2>3, <2>5
  <3> QED BY <2>2, <3>1, <3>2, SMT DEF Coherent, CacheOK
<2>7. r \in Names
  <3>1. [v.data EXCEPT ![n] = data] \in [Name -> DataOrNone]
    BY <2>2, <2>5
  <3>2. (IF fNameHistory /\ old # NoData THEN [v.history EXCEPT ![n] = hist] ELSE v.history)
          \in [Name -> Seq(NameData)]
    BY <2>5
  <3>3. Reindexed(v, n, data.height) \in SUBSET ExpireEntry
    BY <2>4, <2>5 DEF Reindexed
  <3> QED BY <3>1, <3>2, <3>3 DEF Names
<2>8. Overlay(d, base) \in Names
  BY <2>3, OverlayFields
<2> DEFINE o == Overlay(d, base)
<2>0. /\ \A m \in Name :
           /\ o.data[m] = IF m \in d.deleted THEN NoData
                          ELSE IF d.entries[m] # NoData THEN d.entries[m] ELSE base.data[m]
           /\ o.history[m] = IF d.history[m] # NoHistory THEN d.history[m] ELSE base.history[m]
      /\ \A e \in ExpireEntry :
           e \in o.expireIndex <=>
             d.expireIndex[e] = "add" \/ (d.expireIndex[e] = "none" /\ e \in base.expireIndex)
  <3>1. d \in Caches
    BY <2>3
  <3> QED BY <3>1, OverlayFields
<2> HIDE DEF o
<2>9. ASSUME NEW m \in Name
      PROVE  o.data[m] = r.data[m] /\ o.history[m] = r.history[m]
  <3>1. o.data[m] = r.data[m]
    <4>1. v.data[m] = IF m \in c.deleted THEN NoData
                      ELSE IF c.entries[m] # NoData THEN c.entries[m] ELSE base.data[m]
      BY <2>1, OverlayFields, SMT
    <4>2. r.data[m] = IF m = n THEN data ELSE v.data[m]
      BY <2>5
    <4> HIDE DEF r, old
    <4> QED BY <2>0, <2>2, <2>3, <2>5, <4>1, <4>2, SMT
  <3>2. o.history[m] = r.history[m]
    <4>1. hist \in Seq(NameData) => hist # NoHistory
      BY CacheAssumption
    <4>2. v.history[m] = IF c.history[m] # NoHistory THEN c.history[m] ELSE base.history[m]
      BY <2>1, OverlayFields, SMT
    <4>3. o.history[m] = IF d.history[m] # NoHistory THEN d.history[m] ELSE base.history[m]
      BY <2>0
    <4>4. r.history = IF fNameHistory /\ old # NoData THEN [v.history EXCEPT ![n] = hist] ELSE v.history
      OBVIOUS
    <4> HIDE DEF r, old
    <4>5. old # NoData => hist \in Seq(NameData)
      BY DEF old
    <4>6. CASE fNameHistory /\ old # NoData /\ m = n
      BY <2>3, <2>5, <4>1, <4>3, <4>4, <4>5, <4>6, SMT
    <4>7. CASE fNameHistory /\ old # NoData /\ m # n
      BY <2>3, <2>5, <4>2, <4>3, <4>4, <4>7
    <4>8. CASE ~(fNameHistory /\ old # NoData)
      BY <2>3, <4>2, <4>3, <4>4, <4>8
    <4> QED BY <4>6, <4>7, <4>8
  <3> QED BY <3>1, <3>2
<2>10. ASSUME NEW e \in ExpireEntry
       PROVE  e \in o.expireIndex <=> e \in r.expireIndex
  <3>1. e \in v.expireIndex <=>
          c.expireIndex[e] = "add" \/ (c.expireIndex[e] = "none" /\ e \in base.expireIndex)
    BY <2>1, OverlayFields
  <3>2. e \in o.expireIndex <=>
          d.expireIndex[e] = "add" \/ (d.expireIndex[e] = "none" /\ e \in base.expireIndex)
    BY <2>0
  <3>3. e \in r.expireIndex <=>
          e = <<data.height, n>> \/ (e \in v.expireIndex /\ ~(old # NoData /\ e = <<old.height, n>>))
    BY DEF Reindexed
  <3> HIDE DEF r, old
  <3> QED BY <2>3, <3>1, <3>2, <3>3
<2>11. Overlay(d, base) = r
  <3> HIDE DEF r
  <3> QED BY <2>7, <2>8, <2>9, <2>10, NamesEqual DEF o
<2> QED BY <2>3, <2>6, <2>11 DEF CacheOK, ShownSet, d
(* DeleteName through a cache shows DeleteName of what was shown.          *)
<1>DeleteShown.
  ASSUME NEW c, CacheOK(c), NEW base \in Names, NEW n \in Name,
         Overlay(c, base).data[n] # NoData
  PROVE  LET v == Overlay(c, base)
             d == CacheDeleteName(c, v.data[n], n)
         IN CacheOK(d) /\ Overlay(d, base) = DeleteName(v, n)
<2> USE <1>DeleteShown
<2> DEFINE v == Overlay(c, base)
           old == v.data[n]
           d == CacheDeleteName(c, old, n)
           o == Overlay(d, base)
           r == DeleteName(v, n)
<2>1. c \in Caches /\ v \in Names
  BY OverlayFields DEF CacheOK
<2>2. old \in NameData
  BY <2>1 DEF Names, DataOrNone
<2>3. IsDeleted(d, c, old, n)
  <3> HIDE DEF old
  <3> QED BY <2>1, <2>2, DeleteFields
<2>4. /\ v.data \in [Name -> DataOrNone] /\ v.history \in [Name -> Seq(NameData)]
      /\ v.expireIndex \in SUBSET ExpireEntry
      /\ c.entries \in [Name -> DataOrNone]
  BY <2>1 DEF Names, Caches
<2>5. /\ r.data = [v.data EXCEPT ![n] = NoData] /\ r.history = v.history
      /\ r.expireIndex = v.expireIndex \ {<<old.height, n>>}
      /\ r \in Names
  <3>1. [v.data EXCEPT ![n] = NoData] \in [Name -> DataOrNone]
    BY <2>4 DEF DataOrNone
  <3>2. r = [data |-> [v.data EXCEPT ![n] = NoData], history |-> v.history,
             expireIndex |-> v.expireIndex \ {<<old.height, n>>}]
    BY <2>1 DEF DeleteName, Names
  <3> HIDE DEF r
  <3> QED BY <2>4, <3>1, <3>2 DEF Names
<2>6. /\ \A m \in Name :
           /\ v.data[m] = IF m \in c.deleted THEN NoData
                          ELSE IF c.entries[m] # NoData THEN c.entries[m] ELSE base.data[m]
           /\ v.history[m] = IF c.history[m] # NoHistory THEN c.history[m] ELSE base.history[m]
      /\ \A e \in ExpireEntry :
           e \in v.expireIndex <=>
             c.expireIndex[e] = "add" \/ (c.expireIndex[e] = "none" /\ e \in base.expireIndex)
  BY <2>1, OverlayFields
<2> HIDE DEF d, r
<2>7. /\ o \in Names
      /\ \A m \in Name :
           /\ o.data[m] = IF m \in d.deleted THEN NoData
                          ELSE IF d.entries[m] # NoData THEN d.entries[m] ELSE base.data[m]
           /\ o.history[m] = IF d.history[m] # NoHistory THEN d.history[m] ELSE base.history[m]
      /\ \A e \in ExpireEntry :
           e \in o.expireIndex <=>
             d.expireIndex[e] = "add" \/ (d.expireIndex[e] = "none" /\ e \in base.expireIndex)
  <3>1. d \in Caches
    BY <2>3 DEF IsDeleted
  <3> QED BY <3>1, OverlayFields
<2> HIDE DEF o, v, old
<2>8. o = r
  <3>1. ASSUME NEW m \in Name PROVE o.data[m] = r.data[m] /\ o.history[m] = r.history[m]
    <4>1. o.data[m] = r.data[m]
      <5>1. CASE m = n
        BY <2>3, <2>4, <2>5, <2>6, <2>7, <5>1, SMTT(30) DEF IsDeleted
      <5>2. CASE m # n
        <6>1. d.entries[m] = c.entries[m] /\ (m \in d.deleted <=> m \in c.deleted)
          BY <2>3, <2>4, <5>2 DEF IsDeleted
        <6>2. r.data[m] = v.data[m]
          BY <2>5, <5>2, SMT
        <6>3. v.data[m] = IF m \in c.deleted THEN NoData
                          ELSE IF c.entries[m] # NoData THEN c.entries[m] ELSE base.data[m]
          BY <2>6
        <6>4. o.data[m] = IF m \in d.deleted THEN NoData
                          ELSE IF d.entries[m] # NoData THEN d.entries[m] ELSE base.data[m]
          BY <2>7
        <6> QED BY <6>1, <6>2, <6>3, <6>4
      <5> QED BY <5>1, <5>2
    <4>2. o.history[m] = r.history[m]
      BY <2>3, <2>4, <2>5, <2>6, <2>7, SMTT(30) DEF IsDeleted
    <4> QED BY <4>1, <4>2
  <3>2. ASSUME NEW e \in ExpireEntry PROVE e \in o.expireIndex <=> e \in r.expireIndex
    BY <2>3, <2>5, <2>6, <2>7, SMT DEF IsDeleted
  <3> QED BY <2>5, <2>7, <3>1, <3>2, NamesEqual
<2>9. Coherent(d)
  <3>1. ASSUME NEW m \in Name, m # n
        PROVE  /\ d.entries[m] = c.entries[m] /\ (m \in d.deleted <=> m \in c.deleted)
               /\ d.history[m] = c.history[m]
               /\ \A h \in 1 .. MaxHeight : d.expireIndex[<<h, m>>] = c.expireIndex[<<h, m>>]
    <4>1. d.entries[m] = c.entries[m] /\ (m \in d.deleted <=> m \in c.deleted) /\ d.history[m] = c.history[m]
      BY <2>3, <2>4, <3>1 DEF IsDeleted
    <4>2. ASSUME NEW h \in 1 .. MaxHeight PROVE d.expireIndex[<<h, m>>] = c.expireIndex[<<h, m>>]
      <5>1. <<h, m>> \in ExpireEntry /\ <<h, m>> # <<old.height, n>>
        BY <3>1 DEF ExpireEntry
      <5> QED BY <2>3, <5>1 DEF IsDeleted
    <4> QED BY <4>1, <4>2
  <3>2. d.entries[n] = NoData /\ n \in d.deleted
    BY <2>3, <2>4 DEF IsDeleted
  <3> QED BY <3>1, <3>2, SMT DEF Coherent, CacheOK
<2> QED BY <2>3, <2>8, <2>9 DEF CacheOK, IsDeleted, d, o, r, v, old
(* SetName going forward.                                                  *)
<1>SetStep.
  ASSUME CacheInv, NEW n \in Name, NEW data \in NameData, Set(n, data)
  PROVE  CacheInv' /\ FlatStep
<2> USE <1>SetStep
<2> DEFINE hist == Append(View.history[n], View.data[n])
           d == CacheSetName(viewNames, View.data[n], n, data, hist)
<2>1. Tip \in Names /\ View \in Names /\ Tip' = Tip
  BY ShownTypes DEF Set, Tip
<2>2. View.data[n] \in DataOrNone /\ View.history[n] \in Seq(NameData) /\ View.history \in [Name -> Seq(NameData)]
  BY <2>1 DEF Names
<2>3. View.data[n] # NoData => hist \in Seq(NameData)
  BY <2>2, SMT DEF DataOrNone
<2>4. viewNames' = d /\ UNCHANGED <<dbNames, tipNames>>
  BY DEF Set
<2>5. /\ CacheOK(d)
      /\ Overlay(d, Tip) = ShownSet(View, n, data, hist)
  <3>1. View = Overlay(viewNames, Tip) /\ CacheOK(viewNames)
    BY DEF View, CacheInv
  <3> HIDE DEF hist
  <3> QED BY <2>1, <2>3, <3>1, <1>SetShown, SMT
<2>6. View' = SetName(View, n, data)
  <3>1. View' = Overlay(d, Tip)
    BY <2>1, <2>4 DEF View
  <3> QED BY <2>2, <2>5, <3>1 DEF SetName, ShownSet
<2>7. Flat!Set(n, data)
  <3>1. Flat!SetName(View, n, data) = SetName(View, n, data)
    BY DEF Flat!SetName, SetName, Flat!Reindexed, Reindexed
  <3>2. Flat!SetNameAsserts(View, n) /\ Len(View.history[n]) < MaxHistory
    BY DEF Set, Flat!SetNameAsserts, SetNameAsserts
  <3> QED BY <2>1, <2>4, <2>6, <3>1, <3>2 DEF Flat!Set
<2>8. CacheInv'
  BY <2>4, <2>5 DEF CacheInv
<2>9. data \in Flat!NameData
  BY DEF Flat!NameData, NameData
<2> QED BY <2>7, <2>8, <2>9 DEF FlatStep, Flat!Next
(* SetName with undo = true.                                               *)
<1>UndoSetStep.
  ASSUME CacheInv, NEW n \in Name, NEW data \in NameData, UndoSet(n, data)
  PROVE  CacheInv' /\ FlatStep
<2> USE <1>UndoSetStep
<2> DEFINE hist == IF fNameHistory THEN SubSeq(View.history[n], 1, Len(View.history[n]) - 1) ELSE <<>>
           d == CacheSetName(viewNames, View.data[n], n, data, hist)
<2>1. Tip \in Names /\ View \in Names /\ Tip' = Tip
  BY ShownTypes DEF UndoSet, Tip
<2>2. View.data[n] # NoData /\ View.history[n] \in Seq(NameData) /\ View.history \in [Name -> Seq(NameData)]
  BY <2>1 DEF Names, UndoSet, UndoSetNameAsserts
<2>3. hist \in Seq(NameData)
  <3>1. CASE fNameHistory
    <4>1. View.history[n] # <<>>
      BY <3>1 DEF UndoSet, UndoSetNameAsserts
    <4> QED BY <2>2, <3>1, <4>1, SMT
  <3>2. CASE ~fNameHistory
    BY <3>2, SMT
  <3> QED BY <3>1, <3>2
<2>4. viewNames' = d /\ UNCHANGED <<dbNames, tipNames>>
  BY DEF UndoSet
<2>5. /\ CacheOK(d)
      /\ Overlay(d, Tip) = ShownSet(View, n, data, hist)
  <3>1. View = Overlay(viewNames, Tip) /\ CacheOK(viewNames)
    BY DEF View, CacheInv
  <3> HIDE DEF hist
  <3> QED BY <2>1, <2>3, <3>1, <1>SetShown, SMT
<2>6. View' = UndoSetName(View, n, data)
  <3>1. View' = Overlay(d, Tip)
    BY <2>1, <2>4 DEF View
  <3>2. fNameHistory => hist = SubSeq(View.history[n], 1, Len(View.history[n]) - 1)
    OBVIOUS
  <3>3. [View.history EXCEPT ![n] = SubSeq(@, 1, Len(@) - 1)]
          = [View.history EXCEPT ![n] = SubSeq(View.history[n], 1, Len(View.history[n]) - 1)]
    OBVIOUS
  <3> HIDE DEF hist, d
  <3>4. (IF fNameHistory /\ View.data[n] # NoData THEN [View.history EXCEPT ![n] = hist] ELSE View.history)
          = IF fNameHistory THEN [View.history EXCEPT ![n] = SubSeq(@, 1, Len(@) - 1)] ELSE View.history
    BY <2>2, <3>2, <3>3
  <3> QED BY <2>5, <3>1, <3>4 DEF UndoSetName, ShownSet
<2>7. Flat!UndoSet(n, data)
  <3>1. Flat!UndoSetName(View, n, data) = UndoSetName(View, n, data)
    BY DEF Flat!UndoSetName, UndoSetName, Flat!Reindexed, Reindexed
  <3>2. Flat!UndoSetNameAsserts(View, n, data)
    BY DEF UndoSet, Flat!UndoSetNameAsserts, UndoSetNameAsserts
  <3> QED BY <2>1, <2>4, <2>6, <3>1, <3>2 DEF Flat!UndoSet
<2>8. CacheInv'
  BY <2>4, <2>5 DEF CacheInv
<2>9. data \in Flat!NameData
  BY DEF Flat!NameData, NameData
<2> QED BY <2>7, <2>8, <2>9 DEF FlatStep, Flat!Next
(* DeleteName.                                                             *)
<1>DeleteStep.
  ASSUME CacheInv, NEW n \in Name, Delete(n)
  PROVE  CacheInv' /\ FlatStep
<2> USE <1>DeleteStep
<2> DEFINE d == CacheDeleteName(viewNames, View.data[n], n)
<2>1. Tip \in Names /\ View \in Names /\ Tip' = Tip
  BY ShownTypes DEF Delete, Tip
<2>2. View.data[n] # NoData
  BY DEF Delete, DeleteNameAsserts
<2>3. viewNames' = d /\ UNCHANGED <<dbNames, tipNames>>
  BY DEF Delete
<2>4. CacheOK(d) /\ Overlay(d, Tip) = DeleteName(View, n)
  BY <2>1, <2>2, <1>DeleteShown DEF CacheInv, View
<2>5. View' = DeleteName(View, n)
  BY <2>1, <2>3, <2>4 DEF View
<2>6. Flat!Delete(n)
  <3>1. Flat!DeleteName(View, n) = DeleteName(View, n)
    BY DEF Flat!DeleteName, DeleteName
  <3>2. Flat!DeleteNameAsserts(View, n)
    BY DEF Delete, Flat!DeleteNameAsserts, DeleteNameAsserts
  <3> QED BY <2>1, <2>3, <2>5, <3>1, <3>2 DEF Flat!Delete
<2>7. CacheInv'
  BY <2>3, <2>4 DEF CacheInv
<2> QED BY <2>6, <2>7 DEF FlatStep, Flat!Next
(* The Flush of the block view commits it to the tip.                      *)
<1>FlushViewStep.
  ASSUME CacheInv, FlushView
  PROVE  CacheInv' /\ FlatStep
<2> USE <1>FlushViewStep
<2>1. /\ CacheOK(apply(tipNames, viewNames))
      /\ Overlay(apply(tipNames, viewNames), dbNames) = View
  BY <1>ApplyFields DEF CacheInv, Tip, View
<2>2. Tip' = View
  BY <2>1 DEF FlushView, Tip
<2>3. View \in Names
  BY ShownTypes
<2>4. CacheOK(EmptyCache) /\ Overlay(EmptyCache, View) = View
  BY <2>3, EmptyShowsBase
<2>5. View' = View
  <3>1. View' = Overlay(viewNames', Tip')
    BY DEF View
  <3> QED BY <2>2, <2>4, <3>1 DEF FlushView
<2>6. Flat!Commit
  BY <2>2, <2>5 DEF Flat!Commit, FlushView
<2> QED BY <2>1, <2>4, <2>6 DEF FlushView, CacheInv, FlatStep, Flat!Next
(* Reset abandons the block view.                                          *)
<1>ResetViewStep.
  ASSUME CacheInv, ResetView
  PROVE  CacheInv' /\ FlatStep
<2> USE <1>ResetViewStep
<2>1. Tip \in Names /\ Tip' = Tip
  BY ShownTypes DEF ResetView, Tip
<2>2. CacheOK(EmptyCache) /\ Overlay(EmptyCache, Tip) = Tip
  BY <2>1, EmptyShowsBase
<2>3. View' = Tip
  <3>1. View' = Overlay(viewNames', Tip')
    BY DEF View
  <3> QED BY <2>1, <2>2, <3>1 DEF ResetView
<2>4. Flat!Abandon
  BY <2>1, <2>3 DEF Flat!Abandon, ResetView
<2> QED BY <2>2, <2>4 DEF ResetView, CacheInv, FlatStep, Flat!Next
(* Flush and Sync of the tip persist it, though its cache stays.           *)
<1>FlushTipStep.
  ASSUME CacheInv, FlushTip
  PROVE  CacheInv' /\ FlatStep
<2> USE <1>FlushTipStep
<2>1. writeBatch(dbNames, tipNames) = Tip /\ Overlay(tipNames, Tip) = Tip
  BY <1>WriteBatchShown DEF CacheInv, CacheOK, Tip
<2>2. dbNames' = Tip /\ Tip \in Names
  BY <2>1, ShownTypes DEF FlushTip
<2>3. Tip' = Tip
  <3>1. Tip' = Overlay(tipNames', dbNames')
    BY DEF Tip
  <3> QED BY <2>1, <2>2, <3>1 DEF FlushTip
<2>4. View' = View
  BY <2>3 DEF View, FlushTip
<2>5. Flat!Persist
  BY <2>2, <2>3, <2>4 DEF Flat!Persist
<2> QED BY <2>2, <2>5 DEF FlushTip, CacheInv, FlatStep, Flat!Next
(* After a restart only the database is left.                              *)
<1>RestartStep.
  ASSUME CacheInv, Restart
  PROVE  CacheInv' /\ FlatStep
<2> USE <1>RestartStep
<2>1. CacheOK(EmptyCache) /\ Overlay(EmptyCache, dbNames) = dbNames
  BY EmptyShowsBase DEF CacheInv
<2>2. Tip' = dbNames
  BY <2>1 DEF Restart, Tip
<2>3. View' = dbNames
  <3>1. View' = Overlay(viewNames', Tip')
    BY DEF View
  <3> QED BY <2>1, <2>2, <3>1 DEF Restart
<2>4. Flat!Restart
  BY <2>2, <2>3 DEF Flat!Restart, Restart
<2> QED BY <2>1, <2>4 DEF Restart, CacheInv, FlatStep, Flat!Next
<1> SUFFICES ASSUME CacheInv, [Next]_vars PROVE CacheInv' /\ FlatStep
  OBVIOUS
<1>1. CASE UNCHANGED vars
  BY <1>1 DEF vars, CacheInv, FlatStep, Tip, View
<1>2. ASSUME NEW n \in Name, NEW data \in Input[n], Set(n, data) \/ UndoSet(n, data)
      PROVE  CacheInv' /\ FlatStep
  <2>1. data \in NameData
    BY CacheAssumption
  <2> QED BY <1>2, <2>1, <1>SetStep, <1>UndoSetStep
<1> QED BY <1>1, <1>2, <1>DeleteStep, <1>FlushViewStep, <1>ResetViewStep, <1>FlushTipStep, <1>RestartStep DEF Next

(* An empty database under two empty caches shows no name anywhere.        *)
LEMMA InitShown == Init => CacheInv /\ Tip = dbNames /\ View = dbNames
<1> SUFFICES ASSUME Init PROVE CacheInv /\ Tip = dbNames /\ View = dbNames
  OBVIOUS
<1>1. dbNames \in Names
  BY SMT DEF Init, Names, DataOrNone
<1>2. CacheOK(EmptyCache) /\ Overlay(EmptyCache, dbNames) = dbNames
  BY <1>1, EmptyShowsBase
<1>3. Tip = dbNames
  BY <1>2 DEF Init, Tip
<1>4. View = dbNames
  BY <1>2, <1>3 DEF Init, View
<1> QED BY <1>1, <1>2, <1>3, <1>4 DEF Init, CacheInv

(* The caches are well formed and coherent in every reachable state.       *)
THEOREM CacheInvHolds == Spec => []CacheInv
BY InitShown, CacheStep, PTL DEF Spec

(* CNameCache::empty's assertion always holds, and no name is both set and *)
(* deleted in a cache, for any names, heights and history depth.           *)
THEOREM CachesStayCoherent == Spec => []CacheCoherent
<1>1. ASSUME NEW c, CacheOK(c)
      PROVE  /\ \A n \in c.deleted : c.entries[n] = NoData
             /\ (c.deleted = {} /\ \A n \in Name : c.entries[n] = NoData) => c = EmptyCache
  <2>1. \A n \in c.deleted : c.entries[n] = NoData
    BY <1>1 DEF CacheOK, Caches, Coherent
  <2>2. ASSUME c.deleted = {}, \A n \in Name : c.entries[n] = NoData PROVE c = EmptyCache
    <3>1. c.entries = [n \in Name |-> NoData]
      BY <1>1, <2>2 DEF CacheOK, Caches
    <3>2. c.history = [n \in Name |-> NoHistory]
      BY <1>1, <2>2 DEF CacheOK, Caches, Coherent
    <3>3. c.expireIndex = [e \in ExpireEntry |-> "none"]
      <4>1. ASSUME NEW e \in ExpireEntry PROVE c.expireIndex[e] = "none"
        <5>1. PICK h \in 1 .. MaxHeight, n \in Name : e = <<h, n>>
          BY SMT DEF ExpireEntry
        <5> QED BY <1>1, <2>2, <5>1 DEF CacheOK, Coherent
      <4> QED BY <1>1, <4>1 DEF CacheOK, Caches
    <3> QED BY <1>1, <2>2, <3>1, <3>2, <3>3 DEF CacheOK, Caches, EmptyCache
  <2> QED BY <2>1, <2>2
<1>2. CacheInv => CacheCoherent
  BY <1>1 DEF CacheInv, CacheCoherent
<1> QED BY <1>2, CacheInvHolds, PTL

(* The caches of the tip and of a block over the database implement three  *)
(* plain name databases.                                                   *)
THEOREM CachesImplementFlatNames == Spec => ImplementsFlatNames
<1>1. Init => Flat!Init
  BY InitShown DEF Init, Flat!Init, Flat!EmptyNames
<1>2. CacheInv /\ [Next]_vars => [Flat!Next]_<<dbNames, Tip, View>>
  BY CacheStep DEF FlatStep
<1> QED BY <1>1, <1>2, CacheInvHolds, PTL DEF Spec, ImplementsFlatNames, Flat!Spec

-----------------------------------------------------------------------------
(* The iterators.                                                          *)

(* A set of naturals has a least element.                                  *)
LEMMA LeastNat ==
  ASSUME NEW H \in SUBSET Nat, H # {}
  PROVE  \E n \in H : \A m \in H : n <= m
<1>1. \E n \in H : \A m \in H : ~(<<m, n>> \in OpToRel(<, Nat))
  BY NatLessThanWellFounded, WFMin
<1>2. ASSUME NEW m \in Nat, NEW n \in Nat, m < n PROVE <<m, n>> \in OpToRel(<, Nat)
  BY <1>2 DEF OpToRel
<1>3. \E n \in H : \A m \in H : ~(m < n)
  BY <1>1, <1>2
<1> QED BY <1>3, SMT

(* Induction from 0 up to N.                                               *)
LEMMA UpTo ==
  ASSUME NEW N \in Nat, NEW G, 0 \in G, \A n \in 0 .. N : n < N /\ n \in G => n + 1 \in G
  PROVE  0 .. N \subseteq G
<1> DEFINE H == {n \in 0 .. N : n \notin G}
<1> SUFFICES ASSUME H # {} PROVE FALSE
  OBVIOUS
<1>1. PICK n \in H : \A m \in H : n <= m
  <2>1. H \in SUBSET Nat
    BY SMT
  <2> HIDE DEF H
  <2> QED BY <2>1, LeastNat
<1>2. n # 0 /\ n - 1 \in 0 .. N /\ n - 1 < N /\ n - 1 + 1 = n
  BY <1>1, SMT
<1>3. n - 1 \in G
  BY <1>1, <1>2, SMT
<1> QED BY <1>1, <1>2, <1>3

(* What next returns: a name and its data.                                 *)
Entry == [name : Name, data : NameData]

Sorted(s) == \A i, j \in 1 .. Len(s) : i < j => s[i].name < s[j].name

(* The sequence s lists the names N with their data, in order.             *)
IsListing(s, N, data) ==
  /\ s \in Seq(Entry)
  /\ Sorted(s)
  /\ \A i \in 1 .. Len(s) : s[i].name \in N /\ s[i].data = data[s[i].name]
  /\ \A n \in N : \E i \in 1 .. Len(s) : s[i].name = n

(* An entry has a name, which is a number, and data.                       *)
LEMMA EntryType ==
  ASSUME NEW e \in Entry
  PROVE  e.name \in Name /\ e.name \in Nat /\ e.data \in NameData
BY CacheAssumption DEF Entry

(* A listing begins like any other of the same names.                      *)
LEMMA ListingPrefix ==
  ASSUME NEW N, NEW data, NEW s, NEW t, IsListing(s, N, data), IsListing(t, N, data)
  PROVE  \A i \in 1 .. Len(s) : i \in 1 .. Len(t) /\ s[i] = t[i]
<1> DEFINE Bad == {i \in 1 .. Len(s) : ~(i \in 1 .. Len(t) /\ s[i] = t[i])}
<1>1. /\ Len(s) \in Nat /\ Len(t) \in Nat
      /\ \A i \in 1 .. Len(s) : s[i] \in Entry /\ s[i].name \in Nat
      /\ \A i \in 1 .. Len(t) : t[i] \in Entry /\ t[i].name \in Nat
  <2>1. s \in Seq(Entry) /\ t \in Seq(Entry)
    BY DEF IsListing
  <2> QED BY <2>1, EntryType, SMT
<1> SUFFICES ASSUME Bad # {} PROVE FALSE
  OBVIOUS
<1>2. PICK i \in Bad : \A m \in Bad : i <= m
  <2>1. Bad \in SUBSET Nat
    BY <1>1, SMT
  <2> HIDE DEF Bad
  <2> QED BY <2>1, LeastNat
<1>3. i \in 1 .. Len(s) /\ i \in Nat
  BY <1>1, <1>2, SMT
<1>4. \A k \in 1 .. Len(s) : k < i => k \in 1 .. Len(t) /\ s[k] = t[k]
  <2>1. ASSUME NEW k \in 1 .. Len(s), k < i PROVE k \notin Bad
    <3>1. k \in Nat /\ ~(i <= k)
      BY <1>1, <1>3, <2>1, SMT
    <3> HIDE DEF Bad
    <3> QED BY <1>2, <3>1
  <2> QED BY <2>1
<1>5. PICK j \in 1 .. Len(t) : t[j].name = s[i].name
  BY <1>3 DEF IsListing
<1>6. j >= i
  <2> SUFFICES ASSUME j < i PROVE FALSE
    BY <1>1, <1>3, <1>5, SMT
  <2>1. j \in 1 .. Len(s)
    BY <1>1, <1>3, <1>5, SMT
  <2>2. s[j] = t[j] /\ s[j].name < s[i].name
    BY <1>3, <1>4, <2>1 DEF IsListing, Sorted
  <2> QED BY <1>1, <1>3, <1>5, <2>1, <2>2, SMT
<1>7. i \in 1 .. Len(t)
  BY <1>1, <1>3, <1>5, <1>6, SMT
<1>8. t[i].name = s[i].name
  <2> SUFFICES ASSUME t[i].name # s[i].name PROVE FALSE
    OBVIOUS
  <2>1. i < j
    BY <1>1, <1>3, <1>5, <1>6, SMT
  <2>2. t[i].name < s[i].name
    BY <1>5, <1>7, <2>1 DEF IsListing, Sorted
  <2>3. PICK m \in 1 .. Len(s) : s[m].name = t[i].name
    BY <1>7 DEF IsListing
  <2>4. m < i
    <3> SUFFICES ASSUME i <= m PROVE FALSE
      BY <1>1, <1>3, <2>3, SMT
    <3>1. i < m \/ i = m
      BY <1>1, <1>3, <2>3, SMT
    <3>2. i < m => s[i].name < s[m].name
      BY <1>3, <2>3 DEF IsListing, Sorted
    <3> QED BY <1>1, <1>3, <2>2, <2>3, <3>1, <3>2, SMT
  <2>5. m \in 1 .. Len(t) /\ s[m] = t[m]
    BY <1>4, <2>3, <2>4
  <2>6. t[m].name < t[i].name
    BY <1>7, <2>4, <2>5 DEF IsListing, Sorted
  <2> QED BY <1>1, <1>7, <2>3, <2>5, <2>6, SMT
<1>9. s[i].data = t[i].data
  <2>1. s[i].data = data[s[i].name] /\ t[i].data = data[t[i].name]
    BY <1>3, <1>7 DEF IsListing
  <2> QED BY <1>8, <2>1
<1>10. s[i] = t[i]
  BY <1>1, <1>3, <1>7, <1>8, <1>9, SMTT(30) DEF Entry
<1> QED BY <1>2, <1>7, <1>10

(* So there is one listing of a set of names.                              *)
LEMMA ListingUnique ==
  ASSUME NEW N, NEW data, NEW s, NEW t, IsListing(s, N, data), IsListing(t, N, data)
  PROVE  s = t
<1>1. s \in Seq(Entry) /\ t \in Seq(Entry) /\ Len(s) \in Nat /\ Len(t) \in Nat
  BY SMT DEF IsListing
<1>2. /\ \A i \in 1 .. Len(s) : i \in 1 .. Len(t) /\ s[i] = t[i]
      /\ \A i \in 1 .. Len(t) : i \in 1 .. Len(s)
  BY ListingPrefix, SMT
<1>3. Len(s) = Len(t)
  <2>1. Len(s) > 0 => Len(s) \in 1 .. Len(s)
    BY <1>1, SMT
  <2>2. Len(t) > 0 => Len(t) \in 1 .. Len(t)
    BY <1>1, SMT
  <2>3. Len(s) <= Len(t) /\ Len(t) <= Len(s)
    BY <1>1, <1>2, <2>1, <2>2, SMT
  <2> QED BY <1>1, <2>3, SMT
<1> QED BY <1>1, <1>2, <1>3, SMT

(* The enumeration of T in ascending order, as in Listed.                  *)
Ascending(s, T) ==
  /\ \A i, j \in 1 .. Cardinality(T) : i < j => s[i] < s[j]
  /\ \A n \in T : \E i \in 1 .. Cardinality(T) : s[i] = n

(* With a least element in front of an enumeration one has another.        *)
LEMMA AscendingFirst ==
  ASSUME NEW T \in SUBSET Nat, IsFiniteSet(T), NEW m \in T, \A n \in T : m <= n,
         NEW s \in [1 .. Cardinality(T \ {m}) -> T \ {m}], Ascending(s, T \ {m})
  PROVE  \E t \in [1 .. Cardinality(T) -> T] : Ascending(t, T)
<1> DEFINE N == Cardinality(T \ {m})
           t == [i \in 1 .. Cardinality(T) |-> IF i = 1 THEN m ELSE s[i - 1]]
<1>1. N \in Nat /\ Cardinality(T) = N + 1
  <2>1. Cardinality(T \ {m}) = Cardinality(T) - 1 /\ IsFiniteSet(T \ {m})
    BY FS_RemoveElement
  <2> QED BY <2>1, FS_CardinalityType, SMT
<1> HIDE DEF N
<1>2. /\ \A i \in 1 .. N : s[i] \in T /\ s[i] # m /\ s[i] \in Nat
      /\ \A i, j \in 1 .. N : i < j => s[i] < s[j]
      /\ \A n \in T : n # m => \E i \in 1 .. N : s[i] = n
  BY DEF Ascending, N
<1>3. ASSUME NEW i \in 1 .. N + 1, i # 1 PROVE i - 1 \in 1 .. N
  BY <1>1, <1>3, SMT
<1>4. t \in [1 .. Cardinality(T) -> T]
  BY <1>1, <1>2, <1>3
<1>5. ASSUME NEW i \in 1 .. N + 1, NEW j \in 1 .. N + 1, i < j PROVE t[i] < t[j]
  <2>1. j # 1 /\ j - 1 \in 1 .. N /\ t[j] = s[j - 1]
    BY <1>1, <1>3, <1>5, SMT
  <2>2. CASE i = 1
    <3>1. t[i] = m /\ m \in Nat
      BY <1>1, <2>2
    <3> HIDE DEF t
    <3>2. m <= s[j - 1] /\ s[j - 1] # m /\ s[j - 1] \in Nat
      BY <1>2, <2>1
    <3> QED BY <2>1, <3>1, <3>2, SMT
  <2>3. CASE i # 1
    <3>1. i - 1 \in 1 .. N /\ t[i] = s[i - 1] /\ i - 1 < j - 1
      BY <1>1, <1>3, <1>5, <2>3, SMT
    <3> HIDE DEF t
    <3> QED BY <1>2, <2>1, <3>1
  <2> QED BY <2>2, <2>3
<1>6. ASSUME NEW n \in T PROVE \E i \in 1 .. N + 1 : t[i] = n
  <2>1. CASE n = m
    <3>1. 1 \in 1 .. N + 1 /\ t[1] = m
      BY <1>1, SMT
    <3> QED BY <2>1, <3>1
  <2>2. CASE n # m
    <3>1. PICK i \in 1 .. N : s[i] = n
      BY <1>2, <2>2
    <3>2. i + 1 \in 1 .. N + 1 /\ i + 1 # 1 /\ i + 1 - 1 = i
      BY <1>1, <3>1, SMT
    <3>3. t[i + 1] = n
      BY <1>1, <3>1, <3>2, SMT
    <3> QED BY <3>2, <3>3
  <2> QED BY <2>1, <2>2
<1> HIDE DEF t
<1>7. Ascending(t, T)
  BY <1>1, <1>5, <1>6 DEF Ascending
<1> QED BY <1>4, <1>7

(* A finite set of numbers can be enumerated in ascending order.           *)
LEMMA AscendingExists ==
  ASSUME NEW S \in SUBSET Nat, IsFiniteSet(S)
  PROVE  \E s \in [1 .. Cardinality(S) -> S] : Ascending(s, S)
<1> DEFINE Enum(T) == \E s \in [1 .. Cardinality(T) -> T] : Ascending(s, T)
           G == {k \in Nat : \A T \in SUBSET S : Cardinality(T) = k => Enum(T)}
<1>1. \A T \in SUBSET S : IsFiniteSet(T) /\ Cardinality(T) \in Nat /\ T \in SUBSET Nat
  BY FS_Subset, FS_CardinalityType
<1>2. 0 \in G
  <2>1. ASSUME NEW T \in SUBSET S, Cardinality(T) = 0 PROVE Enum(T)
    <3>1. T = {}
      BY <1>1, <2>1, FS_EmptySet
    <3>2. [i \in 1 .. 0 |-> 0] \in [1 .. 0 -> {}]
      BY SMT
    <3>3. Ascending([i \in 1 .. 0 |-> 0], T)
      BY <2>1, <3>1, SMT DEF Ascending
    <3> QED BY <2>1, <3>1, <3>2, <3>3
  <2> HIDE DEF Enum
  <2> QED BY <2>1
<1>3. ASSUME NEW k \in Nat, k \in G PROVE k + 1 \in G
  <2>1. ASSUME NEW T \in SUBSET S, Cardinality(T) = k + 1 PROVE Enum(T)
    <3>1. T # {} /\ IsFiniteSet(T) /\ T \in SUBSET Nat
      BY <1>1, <2>1, FS_EmptySet, SMT
    <3>2. PICK m \in T : \A n \in T : m <= n
      BY <3>1, LeastNat
    <3>3. T \ {m} \in SUBSET S /\ Cardinality(T \ {m}) = k
      <4>1. Cardinality(T \ {m}) = Cardinality(T) - 1
        BY <3>1, <3>2, FS_RemoveElement
      <4> QED BY <1>3, <2>1, <4>1, SMT
    <3>4. Enum(T \ {m})
      <4> HIDE DEF Enum
      <4> QED BY <1>3, <3>3
    <3>5. PICK s \in [1 .. Cardinality(T \ {m}) -> T \ {m}] : Ascending(s, T \ {m})
      BY <3>4
    <3> QED BY <3>1, <3>2, <3>5, AscendingFirst
  <2> HIDE DEF Enum
  <2> QED BY <1>3, <2>1, SMT
<1>4. Cardinality(S) \in G
  <2>1. Cardinality(S) \in Nat /\ Cardinality(S) \in 0 .. Cardinality(S)
    BY <1>1, SMT
  <2> HIDE DEF G
  <2>2. \A n \in 0 .. Cardinality(S) : n < Cardinality(S) /\ n \in G => n + 1 \in G
    BY <1>3, <2>1, SMT
  <2>3. 0 .. Cardinality(S) \subseteq G
    BY <1>2, <2>1, <2>2, UpTo
  <2> QED BY <2>1, <2>3
<1> QED BY <1>4

(* Listed lists the names, if they are finitely many.                      *)
LEMMA ListedIsListing ==
  ASSUME NEW T \in SUBSET Name, IsFiniteSet(T), NEW data, \A n \in T : data[n] \in NameData
  PROVE  IsListing(Listed(T, data), T, data)
<1> DEFINE N == Cardinality(T)
           s == CHOOSE z \in [1 .. N -> T] :
                  /\ \A i, j \in 1 .. N : i < j => z[i] < z[j]
                  /\ \A n \in T : \E i \in 1 .. N : z[i] = n
<1>1. T \in SUBSET Nat
  BY CacheAssumption
<1>2. \E z \in [1 .. N -> T] : /\ \A i, j \in 1 .. N : i < j => z[i] < z[j]
                               /\ \A n \in T : \E i \in 1 .. N : z[i] = n
  BY <1>1, AscendingExists DEF Ascending
<1>3. /\ s \in [1 .. N -> T]
      /\ \A i, j \in 1 .. N : i < j => s[i] < s[j]
      /\ \A n \in T : \E i \in 1 .. N : s[i] = n
  BY <1>2
<1>4. Listed(T, data) = [i \in 1 .. N |-> [name |-> s[i], data |-> data[s[i]]]]
  BY DEF Listed
<1>5. N \in Nat
  BY FS_CardinalityType
<1> HIDE DEF s, N
<1> DEFINE l == [i \in 1 .. N |-> [name |-> s[i], data |-> data[s[i]]]]
<1>6. \A i \in 1 .. N : l[i] = [name |-> s[i], data |-> data[s[i]]] /\ s[i] \in T
  BY <1>3
<1>7. l \in Seq(Entry) /\ Len(l) = N
  <2>1. \A i \in 1 .. N : [name |-> s[i], data |-> data[s[i]]] \in Entry
    BY <1>6 DEF Entry
  <2> QED BY <1>5, <2>1, SMT
<1> HIDE DEF l
<1>8. ASSUME NEW i \in 1 .. N PROVE l[i].name = s[i] /\ l[i].data = data[s[i]]
  <2>1. l[i] = [name |-> s[i], data |-> data[s[i]]]
    BY <1>6
  <2> QED BY <2>1, SMT
<1>9. IsListing(l, T, data)
  <2>1. Sorted(l)
    BY <1>3, <1>7, <1>8, SMT DEF Sorted
  <2>2. \A i \in 1 .. Len(l) : l[i].name \in T /\ l[i].data = data[l[i].name]
    BY <1>6, <1>7, <1>8
  <2>3. \A n \in T : \E i \in 1 .. Len(l) : l[i].name = n
    BY <1>3, <1>7, <1>8, SMT
  <2> QED BY <1>7, <2>1, <2>2, <2>3 DEF IsListing
<1> QED BY <1>4, <1>9 DEF l

(* There are values from x on, each computed from the one before by F, as  *)
(* the loops over a listing do.                                            *)
HasRun(N, X, x, F) ==
  \E f \in [0 .. N -> X] : f[0] = x /\ \A i \in 1 .. N : f[i] = F[i][f[i - 1]]

(* They always exist.                                                      *)
LEMMA Iterates ==
  ASSUME NEW N \in Nat, NEW X, NEW x \in X, NEW F \in [1 .. N -> [X -> X]]
  PROVE  HasRun(N, X, x, F)
<1> DEFINE Run(f, n) == f[0] = x /\ \A i \in 1 .. n : f[i] = F[i][f[i - 1]]
           G == {n \in Nat : \E f \in [0 .. n -> X] : Run(f, n)}
<1>1. 0 \in G
  <2>1. [i \in 0 .. 0 |-> x] \in [0 .. 0 -> X] /\ Run([i \in 0 .. 0 |-> x], 0)
    BY SMT
  <2> HIDE DEF Run
  <2> QED BY <2>1
<1>2. ASSUME NEW n \in 0 .. N, n < N, n \in G PROVE n + 1 \in G
  <2>1. PICK f \in [0 .. n -> X] : Run(f, n)
    BY <1>2
  <2> DEFINE g == [i \in 0 .. n + 1 |-> IF i <= n THEN f[i] ELSE F[n + 1][f[n]]]
  <2>2. n \in Nat /\ n \in 0 .. n /\ n + 1 \in 1 .. N
    BY <1>2, SMT
  <2>3. F[n + 1][f[n]] \in X
    BY <2>1, <2>2
  <2>4. g \in [0 .. n + 1 -> X]
    BY <2>1, <2>2, <2>3, SMT
  <2>5. g[0] = x
    BY <2>1, <2>2, SMT
  <2>6. ASSUME NEW i \in 1 .. n + 1 PROVE g[i] = F[i][g[i - 1]]
    <3>1. i - 1 \in 0 .. n + 1 /\ i - 1 <= n /\ i - 1 \in 0 .. n
      BY <2>2, <2>6, SMT
    <3>2. g[i - 1] = f[i - 1]
      BY <3>1
    <3>3. CASE i <= n
      <4>1. i \in 1 .. n /\ i \in 0 .. n + 1
        BY <2>2, <2>6, <3>3, SMT
      <4>2. g[i] = f[i] /\ f[i] = F[i][f[i - 1]]
        BY <2>1, <3>3, <4>1
      <4> QED BY <3>2, <4>2
    <3>4. CASE ~(i <= n)
      <4>1. i = n + 1 /\ i \in 0 .. n + 1 /\ i - 1 = n
        BY <2>2, <2>6, <3>4, SMT
      <4>2. g[i] = F[n + 1][f[n]]
        BY <3>4, <4>1
      <4> QED BY <3>2, <4>1, <4>2
    <3> QED BY <3>3, <3>4
  <2> HIDE DEF g
  <2>7. Run(g, n + 1)
    BY <2>5, <2>6
  <2> HIDE DEF Run
  <2> QED BY <2>2, <2>4, <2>7, SMT
<1> HIDE DEF G
<1>3. 0 .. N \subseteq G
  BY <1>1, <1>2, UpTo
<1>4. N \in G
  BY <1>3, SMT
<1> QED BY <1>4 DEF G, HasRun

(* One more entry behind the others.                                       *)
LEMMA AppendSorted ==
  ASSUME NEW s \in Seq(Entry), Sorted(s), NEW e \in Entry,
         \A k \in 1 .. Len(s) : s[k].name < e.name
  PROVE  /\ Append(s, e) \in Seq(Entry) /\ Sorted(Append(s, e))
         /\ Len(s) \in Nat /\ Len(Append(s, e)) = Len(s) + 1
         /\ \A k \in 1 .. Len(s) : k \in 1 .. Len(s) + 1 /\ Append(s, e)[k] = s[k]
         /\ Append(s, e)[Len(s) + 1] = e
         /\ \A k \in 1 .. Len(s) + 1 : k \in 1 .. Len(s) \/ k = Len(s) + 1
<1> DEFINE a == Append(s, e)
<1>1. a \in Seq(Entry) /\ Len(s) \in Nat /\ Len(a) = Len(s) + 1
  BY SMT
<1>2. \A k \in 1 .. Len(s) : k \in 1 .. Len(s) + 1 /\ a[k] = s[k]
  BY <1>1, SMT
<1>3. a[Len(s) + 1] = e
  BY <1>1, SMT
<1>4. \A k \in 1 .. Len(s) + 1 : k \in 1 .. Len(s) \/ k = Len(s) + 1
  BY <1>1, SMT
<1> HIDE DEF a
<1>5. ASSUME NEW i \in 1 .. Len(a), NEW j \in 1 .. Len(a), i < j PROVE a[i].name < a[j].name
  <2>1. i \in 1 .. Len(s) /\ a[i] = s[i]
    BY <1>1, <1>2, <1>5, SMT
  <2>2. CASE j \in 1 .. Len(s)
    <3>1. a[j] = s[j]
      BY <1>2, <2>2
    <3> QED BY <1>5, <2>1, <2>2, <3>1 DEF Sorted
  <2>3. CASE j = Len(s) + 1
    BY <1>3, <2>1, <2>3
  <2> QED BY <1>1, <1>4, <2>2, <2>3
<1>6. Sorted(a)
  BY <1>5 DEF Sorted
<1> QED BY <1>1, <1>2, <1>3, <1>4, <1>6 DEF a

-----------------------------------------------------------------------------
(* advanceBaseIterator.                                                    *)

(* q has the entries of base up to i that are not in D, in their order.    *)
Kept(q, base, i, D) ==
  /\ q \in Seq(Entry) /\ Sorted(q)
  /\ \A k \in 1 .. Len(q) : \E p \in 1 .. i : q[k] = base[p] /\ base[p].name \notin D
  /\ \A p \in 1 .. i : base[p].name \notin D => \E k \in 1 .. Len(q) : q[k] = base[p]

(* One more entry of the base is looked at.                                *)
LEMMA KeptNext ==
  ASSUME NEW base \in Seq(Entry), Sorted(base), NEW i \in 1 .. Len(base), NEW D,
         NEW q, Kept(q, base, i - 1, D)
  PROVE  Kept(IF base[i].name \in D THEN q ELSE Append(q, base[i]), base, i, D)
<1>1. Len(base) \in Nat /\ base[i] \in Entry /\ i \in Nat /\ i - 1 \in Nat
  BY SMT
<1>2. \A p \in 1 .. i - 1 : p \in 1 .. i /\ p \in 1 .. Len(base) /\ p < i
  BY <1>1, SMT
<1>3. \A p \in 1 .. i : p \in 1 .. i - 1 \/ p = i
  BY <1>1, SMT
<1>4. CASE base[i].name \in D
  BY <1>2, <1>3, <1>4 DEF Kept
<1>5. CASE base[i].name \notin D
  <2> DEFINE r == Append(q, base[i])
  <2>0. /\ q \in Seq(Entry) /\ Sorted(q)
        /\ \A k \in 1 .. Len(q) : \E p \in 1 .. i - 1 : q[k] = base[p] /\ base[p].name \notin D
        /\ \A p \in 1 .. i - 1 : base[p].name \notin D => \E k \in 1 .. Len(q) : q[k] = base[p]
    BY DEF Kept
  <2>1. ASSUME NEW k \in 1 .. Len(q) PROVE q[k].name < base[i].name
    BY <1>2, <2>0, <2>1 DEF Sorted
  <2>2. /\ r \in Seq(Entry) /\ Sorted(r) /\ Len(q) \in Nat /\ Len(r) = Len(q) + 1
        /\ \A k \in 1 .. Len(q) : k \in 1 .. Len(r) /\ r[k] = q[k]
        /\ r[Len(r)] = base[i]
        /\ \A k \in 1 .. Len(r) : k \in 1 .. Len(q) \/ k = Len(r)
    BY <1>1, <2>0, <2>1, AppendSorted, SMT
  <2> HIDE DEF r
  <2>3. Len(r) \in 1 .. Len(r) /\ i \in 1 .. i
    BY <1>1, <2>2, SMT
  <2>4. ASSUME NEW k \in 1 .. Len(r)
        PROVE  \E p \in 1 .. i : r[k] = base[p] /\ base[p].name \notin D
    <3>1. CASE k = Len(r)
      BY <1>5, <2>2, <2>3, <3>1
    <3>2. CASE k \in 1 .. Len(q)
      <4>1. PICK p \in 1 .. i - 1 : q[k] = base[p] /\ base[p].name \notin D
        BY <2>0, <3>2
      <4> QED BY <1>2, <2>2, <3>2, <4>1
    <3> QED BY <2>2, <3>1, <3>2
  <2>5. ASSUME NEW p \in 1 .. i, base[p].name \notin D
        PROVE  \E k \in 1 .. Len(r) : r[k] = base[p]
    <3>1. CASE p = i
      BY <2>2, <2>3, <3>1
    <3>2. CASE p \in 1 .. i - 1
      <4>1. PICK k \in 1 .. Len(q) : q[k] = base[p]
        BY <2>0, <2>5, <3>2
      <4> QED BY <2>2, <4>1
    <3> QED BY <1>3, <3>1, <3>2
  <2>6. Kept(r, base, i, D)
    BY <2>2, <2>4, <2>5 DEF Kept
  <2> QED BY <1>5, <2>6 DEF r
<1> QED BY <1>4, <1>5

(* The base iterator without the deleted names lists the names that the    *)
(* cache does not mark as deleted.                                         *)
LEMMA NotDeletedListing ==
  ASSUME NEW base, NEW T, NEW data, IsListing(base, T, data), NEW c
  PROVE  IsListing(NotDeleted(c, base), T \ c.deleted, data)
<1> DEFINE N == Len(base)
           D == c.deleted
           Step(q, i) == IF base[i].name \in D THEN q ELSE Append(q, base[i])
<1>1. /\ base \in Seq(Entry) /\ Sorted(base) /\ N \in Nat
      /\ \A i \in 1 .. N : base[i] \in Entry /\ base[i].name \in T /\ base[i].data = data[base[i].name]
      /\ \A n \in T : \E i \in 1 .. N : base[i].name = n
  BY SMT DEF IsListing
<1> DEFINE F == [i \in 1 .. N |-> [q \in Seq(Entry) |-> Step(q, i)]]
<1>2. F \in [1 .. N -> [Seq(Entry) -> Seq(Entry)]]
  BY <1>1, SMT
<1>3. PICK f \in [0 .. N -> Seq(Entry)] : f[0] = <<>> /\ \A i \in 1 .. N : f[i] = F[i][f[i - 1]]
  <2> DEFINE X == Seq(Entry)
             x == <<>>
  <2>1. x \in X
    BY SMT
  <2>2. N \in Nat /\ F \in [1 .. N -> [X -> X]]
    BY <1>1, <1>2
  <2> HIDE DEF F, N, X, x
  <2>3. HasRun(N, X, x, F)
    BY <2>1, <2>2, Iterates
  <2> QED BY <2>3 DEF HasRun, X, x
<1>4. ASSUME NEW i \in 0 .. N PROVE f[i] = IF i = 0 THEN <<>> ELSE Step(f[i - 1], i)
  <2>1. CASE i = 0
    BY <1>3, <2>1
  <2>2. CASE i # 0
    <3> HIDE DEF N, Step
    <3>1. i \in 1 .. N /\ i - 1 \in 0 .. N
      BY <1>1, <2>2, SMT
    <3>2. f[i - 1] \in Seq(Entry)
      BY <1>3, <3>1
    <3> QED BY <1>3, <2>2, <3>1, <3>2
  <2> QED BY <2>1, <2>2
<1>5. f = [i \in 0 .. N |-> IF i = 0 THEN <<>> ELSE Step(f[i - 1], i)]
  <2> HIDE DEF N, Step
  <2> QED BY <1>3, <1>4
<1> DEFINE kept == CHOOSE g : g = [i \in 0 .. N |-> IF i = 0 THEN <<>> ELSE Step(g[i - 1], i)]
<1>6. kept = [i \in 0 .. N |-> IF i = 0 THEN <<>> ELSE Step(kept[i - 1], i)]
  BY <1>5
<1>7. NotDeleted(c, base) = kept[N]
  BY DEF NotDeleted
<1> HIDE DEF kept, N
<1>8. kept[0] = <<>> /\ \A i \in 1 .. N : kept[i] = Step(kept[i - 1], i)
  <2> HIDE DEF Step
  <2>1. 0 \in 0 .. N /\ \A i \in 1 .. N : i \in 0 .. N /\ i # 0
    BY <1>1, SMT
  <2> QED BY <1>6, <2>1
<1> DEFINE G == {n \in Nat : n <= N => Kept(kept[n], base, n, D)}
<1>9. 0 \in G
  <2>1. <<>> \in Seq(Entry) /\ Len(<<>>) = 0 /\ 1 .. 0 = {}
    BY SMT
  <2>2. Kept(<<>>, base, 0, D)
    BY <2>1 DEF Kept, Sorted
  <2> QED BY <1>8, <2>2
<1>10. ASSUME NEW n \in 0 .. N, n < N, n \in G PROVE n + 1 \in G
  <2>1. n + 1 \in 1 .. N /\ n + 1 - 1 = n /\ n <= N /\ n + 1 \in Nat
    BY <1>1, <1>10, SMT
  <2>2. kept[n + 1] = IF base[n + 1].name \in D THEN kept[n] ELSE Append(kept[n], base[n + 1])
    BY <1>8, <2>1, SMT
  <2>3. Kept(kept[n], base, n + 1 - 1, D)
    BY <1>10, <2>1
  <2>4. Kept(kept[n + 1], base, n + 1, D)
    BY <1>1, <2>1, <2>2, <2>3, KeptNext, SMT DEF N
  <2> QED BY <2>1, <2>4
<1>11. Kept(kept[N], base, N, D)
  <2> HIDE DEF G
  <2>1. 0 .. N \subseteq G
    BY <1>1, <1>9, <1>10, UpTo
  <2>2. N \in G
    BY <1>1, <2>1, SMT
  <2> QED BY <1>1, <2>2, SMT DEF G
<1>12. ASSUME NEW k \in 1 .. Len(kept[N])
       PROVE  kept[N][k].name \in T \ D /\ kept[N][k].data = data[kept[N][k].name]
  <2>1. PICK p \in 1 .. N : kept[N][k] = base[p] /\ base[p].name \notin D
    BY <1>11 DEF Kept
  <2> QED BY <1>1, <2>1
<1>13. ASSUME NEW n \in T \ D PROVE \E k \in 1 .. Len(kept[N]) : kept[N][k].name = n
  <2>1. PICK p \in 1 .. N : base[p].name = n
    BY <1>1
  <2>2. PICK k \in 1 .. Len(kept[N]) : kept[N][k] = base[p]
    BY <1>11, <1>13, <2>1 DEF Kept
  <2> QED BY <2>1, <2>2
<1>14. kept[N] \in Seq(Entry) /\ Sorted(kept[N])
  BY <1>11 DEF Kept
<1> QED BY <1>7, <1>12, <1>13, <1>14 DEF IsListing

-----------------------------------------------------------------------------
(* next.                                                                   *)

IsIter(it) == /\ it.b \in Nat \ {0} /\ it.c \in Nat \ {0} /\ it.out \in Seq(Entry)
              /\ Sorted(it.out)

(* All of out comes before what is left of s from position k on.           *)
Below(out, s, k) ==
  \A i \in 1 .. Len(out), p \in 1 .. Len(s) : p >= k => out[i].name < s[p].name

(* What was returned: the cached entries so far, and those entries of the  *)
(* base so far whose names are not cached.                                 *)
Returned(base, cached, it) ==
  /\ it.b <= Len(base) + 1 /\ it.c <= Len(cached) + 1
  /\ \A i \in 1 .. Len(it.out) :
       \/ \E q \in 1 .. Len(cached) : it.out[i] = cached[q]
       \/ \E p \in 1 .. Len(base) : /\ it.out[i] = base[p]
                                    /\ \A q \in 1 .. Len(cached) : cached[q].name # base[p].name
  /\ \A q \in 1 .. Len(cached) : q < it.c => \E i \in 1 .. Len(it.out) : it.out[i].name = cached[q].name
  /\ \A p \in 1 .. Len(base) : p < it.b => \E i \in 1 .. Len(it.out) : it.out[i].name = base[p].name

MergeOK(base, cached, it) ==
  /\ IsIter(it)
  /\ Below(it.out, base, it.b) /\ Below(it.out, cached, it.c)
  /\ Returned(base, cached, it)

(* Both iterators are at the end.                                          *)
AtEnd(base, cached, it) == it.b > Len(base) /\ it.c > Len(cached)

(* Appending an entry that comes before what is left.                      *)
LEMMA BelowAppend ==
  ASSUME NEW out \in Seq(Entry), NEW e \in Entry, NEW s \in Seq(Entry),
         NEW k \in Nat, NEW l \in Nat, k <= l, Below(out, s, k),
         \A p \in 1 .. Len(s) : p >= l => e.name < s[p].name
  PROVE  Below(Append(out, e), s, l)
<1>1. /\ Len(out) \in Nat /\ Len(Append(out, e)) = Len(out) + 1 /\ Len(s) \in Nat
      /\ \A i \in 1 .. Len(out) : Append(out, e)[i] = out[i]
      /\ Append(out, e)[Len(out) + 1] = e
  BY SMT
<1>2. ASSUME NEW i \in 1 .. Len(out) + 1, NEW p \in 1 .. Len(s), p >= l
      PROVE  Append(out, e)[i].name < s[p].name
  <2>1. CASE i \in 1 .. Len(out)
    <3>1. p >= k
      BY <1>1, <1>2, SMT
    <3> QED BY <1>1, <2>1, <3>1 DEF Below
  <2>2. CASE i = Len(out) + 1
    BY <1>1, <1>2, <2>2
  <2> QED BY <1>1, <2>1, <2>2, SMT
<1> QED BY <1>1, <1>2 DEF Below

(* Entries that were returned stay returned.                               *)
LEMMA HasAppend ==
  ASSUME NEW out \in Seq(Entry), NEW e \in Entry
  PROVE  /\ \A n : (\E i \in 1 .. Len(out) : out[i].name = n)
              => \E i \in 1 .. Len(Append(out, e)) : Append(out, e)[i].name = n
         /\ \E i \in 1 .. Len(Append(out, e)) : Append(out, e)[i].name = e.name
<1>1. /\ Len(out) \in Nat /\ Len(Append(out, e)) = Len(out) + 1
      /\ \A i \in 1 .. Len(out) : i \in 1 .. Len(out) + 1 /\ Append(out, e)[i] = out[i]
      /\ Append(out, e)[Len(out) + 1] = e /\ Len(out) + 1 \in 1 .. Len(out) + 1
  BY SMT
<1> QED BY <1>1

(* An element of a list of entries is an entry.                            *)
LEMMA EntryOf ==
  ASSUME NEW s \in Seq(Entry), NEW i \in 1 .. Len(s)
  PROVE  s[i] \in Entry
BY SMT

(* The order in which names are listed is transitive.                      *)
LEMMA LessTrans ==
  ASSUME NEW i \in Nat, NEW j \in Nat, NEW k \in Nat, i < j, j < k
  PROVE  i < k
BY SMT

(* The base's entry at k is the next one.                                  *)
LEMMA NextFromBase ==
  ASSUME NEW base \in Seq(Entry), NEW cached \in Seq(Entry), Sorted(base), Sorted(cached),
         NEW it, MergeOK(base, cached, it), it.b <= Len(base),
         it.c > Len(cached) \/ base[it.b].name < cached[it.c].name,
         NEW new, new = [b |-> it.b + 1, c |-> it.c, out |-> Append(it.out, base[it.b])]
  PROVE  MergeOK(base, cached, new)
<1> DEFINE b == it.b
           c == it.c
           out == it.out
<1>1. /\ b \in Nat \ {0} /\ c \in Nat \ {0} /\ out \in Seq(Entry) /\ Sorted(out)
      /\ Below(out, base, b) /\ Below(out, cached, c) /\ Returned(base, cached, it)
      /\ Len(base) \in Nat /\ Len(cached) \in Nat
  BY SMT DEF MergeOK, IsIter
<1>2. b \in 1 .. Len(base) /\ base[b] \in Entry
  BY <1>1, SMT
<1>3. new.b = b + 1 /\ new.c = c /\ new.out = Append(out, base[b])
  OBVIOUS
<1>4. \A i \in 1 .. Len(out) : out[i].name < base[b].name
  BY <1>1, <1>2, SMT DEF Below
<1>5. \A p \in 1 .. Len(base) : p >= b + 1 => base[b].name < base[p].name
  BY <1>1, <1>2, SMT DEF Sorted
<1>6. \A q \in 1 .. Len(cached) : q >= c => base[b].name < cached[q].name
  <2> SUFFICES ASSUME NEW q \in 1 .. Len(cached), q >= c PROVE base[b].name < cached[q].name
    OBVIOUS
  <2>1. c \in 1 .. Len(cached) /\ base[b].name < cached[c].name
    BY <1>1, SMT
  <2>2. c < q => cached[c].name < cached[q].name
    BY <2>1 DEF Sorted
  <2> HIDE DEF b, c, out
  <2>3. base[b].name \in Nat /\ cached[c].name \in Nat /\ cached[q].name \in Nat
    BY <1>2, <2>1, EntryOf, EntryType
  <2>4. CASE c < q
    BY <2>1, <2>2, <2>3, <2>4, LessTrans
  <2>5. CASE c = q
    BY <2>1, <2>5
  <2> QED BY <1>1, <2>4, <2>5, SMT
<1>7. \A q \in 1 .. Len(cached) : cached[q].name # base[b].name
  <2> SUFFICES ASSUME NEW q \in 1 .. Len(cached), cached[q].name = base[b].name PROVE FALSE
    OBVIOUS
  <2>1. base[b].name \in Nat
    BY <1>2, EntryType
  <2>2. CASE q >= c
    BY <1>6, <2>1, <2>2, SMT
  <2>3. CASE q < c
    <3>1. PICK i \in 1 .. Len(out) : out[i].name = cached[q].name
      BY <1>1, <2>3 DEF Returned
    <3> QED BY <1>4, <2>1, <3>1, SMT
  <2> QED BY <1>1, <2>2, <2>3, SMT
<1>8. /\ new.out \in Seq(Entry) /\ Sorted(new.out)
      /\ Len(out) \in Nat /\ Len(new.out) = Len(out) + 1
      /\ \A i \in 1 .. Len(out) : new.out[i] = out[i]
      /\ new.out[Len(out) + 1] = base[b]
      /\ \A i \in 1 .. Len(out) + 1 : i \in 1 .. Len(out) \/ i = Len(out) + 1
  <2> DEFINE e == base[b]
  <2> HIDE DEF b, c, out, e
  <2>1. e \in Entry /\ \A i \in 1 .. Len(out) : out[i].name < e.name
    BY <1>2, <1>4 DEF e
  <2>2. /\ Append(out, e) \in Seq(Entry) /\ Sorted(Append(out, e))
        /\ Len(out) \in Nat /\ Len(Append(out, e)) = Len(out) + 1
        /\ \A i \in 1 .. Len(out) : Append(out, e)[i] = out[i]
        /\ Append(out, e)[Len(out) + 1] = e
        /\ \A i \in 1 .. Len(out) + 1 : i \in 1 .. Len(out) \/ i = Len(out) + 1
    <3>1. out \in Seq(Entry) /\ Sorted(out)
      BY <1>1
    <3> QED BY <2>1, <3>1, AppendSorted
  <2>3. new.out = Append(out, e)
    BY <1>3 DEF e
  <2> QED BY <2>2, <2>3 DEF e
<1> HIDE DEF b, c, out
<1>9. Below(new.out, base, new.b)
  <2>1. b \in Nat /\ b + 1 \in Nat /\ b <= b + 1
    BY <1>1, SMT
  <2>2. Below(Append(out, base[b]), base, b + 1)
    BY <1>1, <1>2, <1>5, <2>1, BelowAppend
  <2> QED BY <1>3, <2>2
<1>10. Below(new.out, cached, new.c)
  <2>1. c \in Nat /\ c <= c
    BY <1>1, SMT
  <2>2. Below(Append(out, base[b]), cached, c)
    BY <1>1, <1>2, <1>6, <2>1, BelowAppend
  <2> QED BY <1>3, <2>2
<1>0. /\ \A n : (\E i \in 1 .. Len(out) : out[i].name = n)
              => \E i \in 1 .. Len(new.out) : new.out[i].name = n
      /\ \E i \in 1 .. Len(new.out) : new.out[i].name = base[b].name
  <2> DEFINE e == base[b]
  <2> HIDE DEF e
  <2>1. e \in Entry /\ new.out = Append(out, e)
    BY <1>2, <1>3 DEF e
  <2>2. /\ \A n : (\E i \in 1 .. Len(out) : out[i].name = n)
               => \E i \in 1 .. Len(Append(out, e)) : Append(out, e)[i].name = n
        /\ \E i \in 1 .. Len(Append(out, e)) : Append(out, e)[i].name = e.name
    <3>1. out \in Seq(Entry)
      BY <1>1
    <3> QED BY <2>1, <3>1, HasAppend
  <2>3. e = base[b] /\ Append(out, e) = new.out
    BY <2>1 DEF e
  <2> HIDE DEF b, out
  <2>4. \E i \in 1 .. Len(new.out) : new.out[i].name = base[b].name
    BY <2>2, <2>3
  <2>5. ASSUME NEW n, \E i \in 1 .. Len(out) : out[i].name = n
        PROVE  \E i \in 1 .. Len(new.out) : new.out[i].name = n
    <3>1. \E i \in 1 .. Len(Append(out, e)) : Append(out, e)[i].name = n
      BY <2>2, <2>5
    <3> QED BY <2>3, <3>1
  <2> QED BY <2>4, <2>5
<1>11. ASSUME NEW i \in 1 .. Len(new.out)
       PROVE  \/ \E q \in 1 .. Len(cached) : new.out[i] = cached[q]
              \/ \E p \in 1 .. Len(base) : /\ new.out[i] = base[p]
                                           /\ \A q \in 1 .. Len(cached) : cached[q].name # base[p].name
  <2>1. CASE i \in 1 .. Len(out)
    <3>1. new.out[i] = it.out[i] /\ i \in 1 .. Len(it.out)
      BY <1>8, <2>1 DEF out
    <3> QED BY <1>1, <3>1 DEF Returned
  <2>2. CASE i = Len(out) + 1
    BY <1>2, <1>7, <1>8, <2>2
  <2> QED BY <1>8, <2>1, <2>2
<1>12. ASSUME NEW q \in 1 .. Len(cached), q < new.c
       PROVE  \E i \in 1 .. Len(new.out) : new.out[i].name = cached[q].name
  <2>1. \E i \in 1 .. Len(out) : out[i].name = cached[q].name
    BY <1>1, <1>3, <1>12 DEF Returned, out, c
  <2> QED BY <1>0, <2>1
<1>13. ASSUME NEW p \in 1 .. Len(base), p < new.b
       PROVE  \E i \in 1 .. Len(new.out) : new.out[i].name = base[p].name
  <2>1. CASE p = b
    BY <1>0, <2>1
  <2>2. CASE p < b
    <3>1. \E i \in 1 .. Len(out) : out[i].name = base[p].name
      BY <1>1, <2>2 DEF Returned, out, b
    <3> QED BY <1>0, <3>1
  <2>3. b \in Nat /\ new.b = b + 1
    BY <1>1, <1>3
  <2>4. p < b \/ p = b
    <3> HIDE DEF b
    <3> QED BY <1>13, <2>3, SMT
  <2> QED BY <2>1, <2>2, <2>4
<1>14. new.b \in Nat \ {0} /\ new.c \in Nat \ {0} /\ new.b <= Len(base) + 1 /\ new.c <= Len(cached) + 1
  <2>1. c <= Len(cached) + 1
    BY <1>1 DEF Returned, c
  <2>2. b + 1 \in Nat \ {0} /\ b + 1 <= Len(base) + 1
    BY <1>1, <1>2, SMT
  <2> QED BY <1>1, <1>3, <2>1, <2>2
<1> QED BY <1>8, <1>9, <1>10, <1>11, <1>12, <1>13, <1>14 DEF MergeOK, IsIter, Returned

(* The cache's entry is the next one; the base's entry of the same name is *)
(* passed over.                                                            *)
LEMMA NextFromCache ==
  ASSUME NEW base \in Seq(Entry), NEW cached \in Seq(Entry), Sorted(base), Sorted(cached),
         NEW it, MergeOK(base, cached, it), it.c <= Len(cached), NEW k \in Nat,
         \/ k = it.b /\ (it.b > Len(base) \/ cached[it.c].name < base[it.b].name)
         \/ k = it.b + 1 /\ it.b <= Len(base) /\ base[it.b].name = cached[it.c].name,
         NEW new, new.b = k, new.c = it.c + 1, new.out = Append(it.out, cached[it.c])
  PROVE  MergeOK(base, cached, new)
<1> DEFINE b == it.b
           c == it.c
           out == it.out
<1>1. /\ b \in Nat \ {0} /\ c \in Nat \ {0} /\ out \in Seq(Entry) /\ Sorted(out)
      /\ Below(out, base, b) /\ Below(out, cached, c) /\ Returned(base, cached, it)
      /\ Len(base) \in Nat /\ Len(cached) \in Nat
  BY SMT DEF MergeOK, IsIter
<1>2. c \in 1 .. Len(cached) /\ cached[c] \in Entry
  BY <1>1, SMT
<1>3. new.b = k /\ new.c = c + 1 /\ new.out = Append(out, cached[c])
  OBVIOUS
<1>4. \A i \in 1 .. Len(out) : out[i].name < cached[c].name
  <2>1. Below(out, cached, c) /\ c \in 1 .. Len(cached) /\ c >= c
    BY <1>1, <1>2, SMT
  <2> HIDE DEF c, out
  <2> QED BY <2>1 DEF Below
<1>5. \A q \in 1 .. Len(cached) : q >= c + 1 => cached[c].name < cached[q].name
  BY <1>1, <1>2, SMT DEF Sorted
<1>6. \A p \in 1 .. Len(base) : p >= k => cached[c].name < base[p].name
  <2> SUFFICES ASSUME NEW p \in 1 .. Len(base), p >= k PROVE cached[c].name < base[p].name
    OBVIOUS
  <2>1. b \in 1 .. Len(base) /\ p >= b
    BY <1>1, SMT
  <2>2. b < p => base[b].name < base[p].name
    BY <2>1 DEF Sorted
  <2>3. cached[c].name \in Nat /\ base[b].name \in Nat /\ base[p].name \in Nat
    <3> HIDE DEF b, c, out
    <3> QED BY <1>2, <2>1, EntryOf, EntryType
  <2>4. CASE k = it.b /\ (it.b > Len(base) \/ cached[it.c].name < base[it.b].name)
    <3>1. cached[c].name < base[b].name
      BY <1>1, <2>1, <2>4, SMT
    <3>2. CASE b < p
      BY <2>2, <2>3, <3>1, <3>2, SMT
    <3>3. CASE b = p
      BY <3>1, <3>3
    <3> QED BY <1>1, <2>1, <3>2, <3>3, SMT
  <2>5. CASE k = it.b + 1 /\ it.b <= Len(base) /\ base[it.b].name = cached[it.c].name
    <3>1. b < p
      BY <1>1, <2>5, SMT
    <3> QED BY <2>2, <2>5, <3>1
  <2> QED BY <2>4, <2>5
<1>7. /\ k >= b /\ k # 0 /\ k <= Len(base) + 1
      /\ k = b \/ (k = b + 1 /\ base[b].name = cached[c].name)
  <2>1. b <= Len(base) + 1
    BY <1>1 DEF Returned
  <2> QED BY <1>1, <2>1, SMT
<1> DEFINE e == cached[c]
<1> HIDE DEF b, c, out, e
<1>8. e \in Entry /\ new.out = Append(out, e) /\ \A i \in 1 .. Len(out) : out[i].name < e.name
  BY <1>2, <1>3, <1>4 DEF e
<1>9. /\ new.out \in Seq(Entry) /\ Sorted(new.out)
      /\ Len(out) \in Nat /\ Len(new.out) = Len(out) + 1
      /\ \A i \in 1 .. Len(out) : new.out[i] = out[i]
      /\ new.out[Len(out) + 1] = e
      /\ \A i \in 1 .. Len(out) + 1 : i \in 1 .. Len(out) \/ i = Len(out) + 1
  <2>1. /\ Append(out, e) \in Seq(Entry) /\ Sorted(Append(out, e))
        /\ Len(out) \in Nat /\ Len(Append(out, e)) = Len(out) + 1
        /\ \A i \in 1 .. Len(out) : Append(out, e)[i] = out[i]
        /\ Append(out, e)[Len(out) + 1] = e
        /\ \A i \in 1 .. Len(out) + 1 : i \in 1 .. Len(out) \/ i = Len(out) + 1
    BY <1>1, <1>8, AppendSorted, SMT
  <2> QED BY <1>8, <2>1
<1>10. Below(new.out, base, new.b)
  <2>1. b \in Nat /\ b <= k
    BY <1>1, <1>7
  <2>2. \A p \in 1 .. Len(base) : p >= k => e.name < base[p].name
    BY <1>6 DEF e
  <2>3. Below(Append(out, e), base, k)
    BY <1>1, <1>8, <2>1, <2>2, BelowAppend
  <2> QED BY <1>3, <1>8, <2>3
<1>11. Below(new.out, cached, new.c)
  <2>1. c \in Nat /\ c + 1 \in Nat /\ c <= c + 1
    BY <1>1, SMT
  <2>2. \A q \in 1 .. Len(cached) : q >= c + 1 => e.name < cached[q].name
    BY <1>5 DEF e
  <2>3. Below(Append(out, e), cached, c + 1)
    BY <1>1, <1>8, <2>1, <2>2, BelowAppend
  <2> QED BY <1>3, <1>8, <2>3
<1>12. /\ \A n : (\E i \in 1 .. Len(out) : out[i].name = n)
               => \E i \in 1 .. Len(new.out) : new.out[i].name = n
       /\ \E i \in 1 .. Len(new.out) : new.out[i].name = e.name
  <2>1. /\ \A n : (\E i \in 1 .. Len(out) : out[i].name = n)
               => \E i \in 1 .. Len(Append(out, e)) : Append(out, e)[i].name = n
        /\ \E i \in 1 .. Len(Append(out, e)) : Append(out, e)[i].name = e.name
    <3>1. out \in Seq(Entry) /\ e \in Entry
      BY <1>1, <1>8
    <3> QED BY <3>1, HasAppend
  <2>2. new.out = Append(out, e)
    BY <1>8
  <2> QED BY <2>1, <2>2, SMT
<1>13. ASSUME NEW i \in 1 .. Len(new.out)
       PROVE  \/ \E q \in 1 .. Len(cached) : new.out[i] = cached[q]
              \/ \E p \in 1 .. Len(base) : /\ new.out[i] = base[p]
                                           /\ \A q \in 1 .. Len(cached) : cached[q].name # base[p].name
  <2>1. CASE i \in 1 .. Len(out)
    <3>1. new.out[i] = it.out[i] /\ i \in 1 .. Len(it.out)
      BY <1>9, <2>1 DEF out
    <3>2. \/ \E q \in 1 .. Len(cached) : it.out[i] = cached[q]
          \/ \E p \in 1 .. Len(base) : /\ it.out[i] = base[p]
                                       /\ \A q \in 1 .. Len(cached) : cached[q].name # base[p].name
      <4>1. Returned(base, cached, it) /\ i \in 1 .. Len(it.out)
        BY <1>1, <3>1
      <4> QED BY <4>1 DEF Returned
    <3> QED BY <3>1, <3>2
  <2>2. CASE i = Len(out) + 1
    BY <1>2, <1>9, <2>2 DEF e
  <2> QED BY <1>9, <2>1, <2>2
<1>14. ASSUME NEW q \in 1 .. Len(cached), q < new.c
       PROVE  \E i \in 1 .. Len(new.out) : new.out[i].name = cached[q].name
  <2>1. CASE q = c
    BY <1>12, <2>1 DEF e
  <2>2. CASE q < c
    <3>1. \E i \in 1 .. Len(out) : out[i].name = cached[q].name
      BY <1>1, <2>2 DEF Returned, out, c
    <3> QED BY <1>12, <3>1
  <2> QED BY <1>1, <1>3, <1>14, <2>1, <2>2, SMT
<1>15. ASSUME NEW p \in 1 .. Len(base), p < new.b
       PROVE  \E i \in 1 .. Len(new.out) : new.out[i].name = base[p].name
  <2>1. CASE p < b
    <3>1. \E i \in 1 .. Len(out) : out[i].name = base[p].name
      BY <1>1, <2>1 DEF Returned, out, b
    <3> QED BY <1>12, <3>1
  <2>2. CASE ~(p < b)
    <3>1. p = b /\ base[b].name = e.name
      BY <1>1, <1>3, <1>7, <1>15, <2>2, SMT DEF e
    <3> QED BY <1>12, <3>1
  <2> QED BY <2>1, <2>2
<1>16. new.b \in Nat \ {0} /\ new.c \in Nat \ {0} /\ new.b <= Len(base) + 1 /\ new.c <= Len(cached) + 1
  <2>1. c + 1 \in Nat \ {0} /\ c + 1 <= Len(cached) + 1
    BY <1>1, <1>2, SMT
  <2> QED BY <1>3, <1>7, <2>1
<1> QED BY <1>9, <1>10, <1>11, <1>13, <1>14, <1>15, <1>16 DEF MergeOK, IsIter, Returned


Iterators == [b : Nat, c : Nat, out : Seq(Entry)]

(* next returns the entry with the smallest name, and the end is reached   *)
(* in a bounded number of calls.                                           *)
LEMMA NextOK ==
  ASSUME NEW base \in Seq(Entry), NEW cached \in Seq(Entry), Sorted(base), Sorted(cached),
         NEW it \in Iterators, MergeOK(base, cached, it),
         NEW new, new = next(base, cached, it)
  PROVE  /\ MergeOK(base, cached, new) /\ new \in Iterators
         /\ \/ new = it /\ AtEnd(base, cached, it)
            \/ new.b + new.c >= it.b + it.c + 1
<1> DEFINE b == it.b
           c == it.c
           both == b <= Len(base) /\ c <= Len(cached) /\ base[b].name = cached[c].name
           k == IF both THEN b + 1 ELSE b
           useBase == k <= Len(base) /\ (c > Len(cached) \/ base[k].name < cached[c].name)
           fromBase == [b |-> k + 1, c |-> c, out |-> Append(it.out, base[k])]
           fromCache == [b |-> k, c |-> c + 1, out |-> Append(it.out, cached[c])]
<1>1. b \in Nat \ {0} /\ c \in Nat \ {0} /\ it.out \in Seq(Entry) /\ Len(base) \in Nat /\ Len(cached) \in Nat
  BY SMT DEF MergeOK, IsIter
<1>2. new = IF b > Len(base) /\ c > Len(cached) THEN it ELSE IF useBase THEN fromBase ELSE fromCache
  BY DEF next
<1>3. CASE b > Len(base) /\ c > Len(cached)
  <2>1. new = it
    BY <1>2, <1>3
  <2> QED BY <1>3, <2>1 DEF AtEnd
<1>4. CASE ~(b > Len(base) /\ c > Len(cached)) /\ useBase
  <2>1. new = fromBase
    BY <1>2, <1>4
  <2>2. ~both
    <3> SUFFICES ASSUME both PROVE FALSE
      OBVIOUS
    <3>1. k = b + 1 /\ b \in 1 .. Len(base) /\ k \in 1 .. Len(base) /\ b < k
      BY <1>1, <1>4, SMT
    <3>2. base[b].name < base[k].name
      BY <3>1 DEF Sorted
    <3>3. base[k].name < cached[c].name /\ base[b].name = cached[c].name
      BY <1>1, <1>4, SMT
    <3>4. base[b].name \in Nat /\ base[k].name \in Nat
      BY <3>1, EntryType, SMT
    <3> HIDE DEF k, b, c, both, useBase
    <3> QED BY <3>2, <3>3, <3>4, SMT
  <2>3. k = b
    BY <2>2
  <2>4. it.b <= Len(base) /\ (it.c > Len(cached) \/ base[it.b].name < cached[it.c].name)
    BY <1>4, <2>3
  <2>5. new = [b |-> it.b + 1, c |-> it.c, out |-> Append(it.out, base[it.b])]
    BY <2>1, <2>3
  <2>6. MergeOK(base, cached, new)
    BY <2>4, <2>5, NextFromBase
  <2>7. new \in Iterators /\ new.b + new.c >= it.b + it.c + 1
    <3>1. base[it.b] \in Entry
      BY <1>1, <2>4, SMT
    <3>2. Append(it.out, base[it.b]) \in Seq(Entry)
      BY <1>1, <3>1, SMT
    <3>3. it.b + 1 \in Nat /\ it.c \in Nat /\ it.b + 1 + it.c >= it.b + it.c + 1
      BY <1>1, SMT
    <3> QED BY <2>5, <3>2, <3>3, SMT DEF Iterators
  <2> QED BY <2>6, <2>7
<1>5. CASE ~(b > Len(base) /\ c > Len(cached)) /\ ~useBase
  <2>1. new = fromCache
    BY <1>2, <1>5
  <2>2. c <= Len(cached)
    <3> SUFFICES ASSUME c > Len(cached) PROVE FALSE
      BY <1>1, SMT
    <3>1. ~both /\ b <= Len(base)
      BY <1>1, <1>5, SMT
    <3>2. k = b
      BY <3>1
    <3> QED BY <1>5, <3>1, <3>2
  <2>3. k \in Nat /\ k >= b
    BY <1>1, SMT
  <2>4. \/ k = b /\ (b > Len(base) \/ cached[c].name < base[b].name)
        \/ k = b + 1 /\ b <= Len(base) /\ base[b].name = cached[c].name
    <3>1. CASE both
      BY <3>1
    <3>2. CASE ~both
      <4>1. k = b
        BY <3>2
      <4>2. CASE b <= Len(base)
        <5>1. base[b] \in Entry /\ cached[c] \in Entry
          BY <1>1, <2>2, <4>2, SMT
        <5>2. base[b].name \in Nat /\ cached[c].name \in Nat
          BY <5>1, EntryType
        <5>3. base[b].name # cached[c].name
          BY <2>2, <3>2, <4>2
        <5>4. ~(base[b].name < cached[c].name)
          BY <1>5, <4>1, <4>2
        <5> QED BY <4>1, <5>2, <5>3, <5>4, SMT
      <4> QED BY <1>1, <4>1, <4>2, SMT
    <3> QED BY <3>1, <3>2
  <2> HIDE DEF k, both, useBase
  <2>5. new.b = k /\ new.c = it.c + 1 /\ new.out = Append(it.out, cached[it.c])
    BY <2>1, SMT
  <2>6. MergeOK(base, cached, new)
    BY <2>2, <2>3, <2>4, <2>5, NextFromCache
  <2>7. new \in Iterators /\ new.b + new.c >= it.b + it.c + 1
    <3>1. cached[it.c] \in Entry
      BY <1>1, <2>2, SMT
    <3>2. Append(it.out, cached[it.c]) \in Seq(Entry)
      BY <1>1, <3>1, SMT
    <3>3. k \in Nat /\ it.c + 1 \in Nat /\ k + (it.c + 1) >= it.b + it.c + 1
      BY <1>1, <2>3, SMT
    <3> QED BY <2>1, <3>2, <3>3, SMT DEF Iterators
  <2> QED BY <2>6, <2>7
<1> QED BY <1>3, <1>4, <1>5

(* After as many calls of next as there are entries, both iterators are at *)
(* the end.                                                                *)
LEMMA MergedEnds ==
  ASSUME NEW base \in Seq(Entry), NEW cached \in Seq(Entry), Sorted(base), Sorted(cached)
  PROVE  \E it : /\ MergeOK(base, cached, it) /\ AtEnd(base, cached, it)
                 /\ Merged(base, cached) = it.out
<1> DEFINE N == Len(base) + Len(cached)
           x == [b |-> 1, c |-> 1, out |-> <<>>]
           X == {it \in Iterators : MergeOK(base, cached, it)}
           F == [i \in 1 .. N |-> [it \in X |-> next(base, cached, it)]]
<1>1. Len(base) \in Nat /\ Len(cached) \in Nat /\ N \in Nat
  BY SMT
<1>2. x \in X
  <2>1. <<>> \in Seq(Entry) /\ Len(<<>>) = 0 /\ 1 .. 0 = {}
    BY SMT
  <2>2. x.b = 1 /\ x.c = 1 /\ x.out = <<>> /\ x \in Iterators
    BY <2>1 DEF Iterators
  <2> HIDE DEF x
  <2>3. IsIter(x) /\ Below(x.out, base, x.b) /\ Below(x.out, cached, x.c)
    BY <2>1, <2>2, SMT DEF IsIter, Below, Sorted
  <2>4. Returned(base, cached, x)
    BY <1>1, <2>1, <2>2, SMT DEF Returned
  <2> QED BY <2>2, <2>3, <2>4 DEF MergeOK
<1>3. ASSUME NEW it \in X
      PROVE  /\ next(base, cached, it) \in X
             /\ \/ next(base, cached, it) = it /\ AtEnd(base, cached, it)
                \/ next(base, cached, it).b + next(base, cached, it).c >= it.b + it.c + 1
  <2> DEFINE new == next(base, cached, it)
  <2>1. it \in Iterators /\ MergeOK(base, cached, it) /\ new = next(base, cached, it)
    BY <1>3
  <2> HIDE DEF new
  <2>2. /\ MergeOK(base, cached, new) /\ new \in Iterators
        /\ \/ new = it /\ AtEnd(base, cached, it)
           \/ new.b + new.c >= it.b + it.c + 1
    BY <2>1, NextOK
  <2>3. new \in X
    BY <2>2
  <2> HIDE DEF X
  <2> QED BY <2>2, <2>3 DEF new
<1>4. F \in [1 .. N -> [X -> X]]
  <2> HIDE DEF X, N
  <2> QED BY <1>3
<1>5. PICK f \in [0 .. N -> X] : f[0] = x /\ \A i \in 1 .. N : f[i] = F[i][f[i - 1]]
  <2>1. N \in Nat
    BY <1>1
  <2> HIDE DEF F, N, X, x
  <2>2. HasRun(N, X, x, F)
    BY <1>2, <1>4, <2>1, Iterates
  <2> QED BY <2>2 DEF HasRun
<1> HIDE DEF N, X, x
<1>6. f[0] = x /\ \A i \in 1 .. N : i - 1 \in 0 .. N /\ f[i - 1] \in X /\ f[i] = next(base, cached, f[i - 1])
  <2>1. ASSUME NEW i \in 1 .. N PROVE i - 1 \in 0 .. N /\ f[i - 1] \in X
    BY <1>1, <1>5, SMT
  <2> QED BY <1>5, <2>1
<1>7. f = [n \in 0 .. N |-> IF n = 0 THEN x ELSE next(base, cached, f[n - 1])]
  <2>1. ASSUME NEW n \in 0 .. N PROVE f[n] = IF n = 0 THEN x ELSE next(base, cached, f[n - 1])
    <3>1. n = 0 \/ n \in 1 .. N
      BY <1>1, SMT
    <3> QED BY <1>6, <3>1
  <2> QED BY <1>5, <2>1
<1> DEFINE after == CHOOSE g : g = [n \in 0 .. N |-> IF n = 0 THEN x ELSE next(base, cached, g[n - 1])]
<1>8. after = [n \in 0 .. N |-> IF n = 0 THEN x ELSE next(base, cached, after[n - 1])]
  BY <1>7
<1>9. Merged(base, cached) = after[N].out
  BY DEF Merged, N, x
<1> HIDE DEF after
<1>10. after[0] = x /\ \A i \in 1 .. N : after[i] = next(base, cached, after[i - 1])
  <2>1. 0 \in 0 .. N /\ \A i \in 1 .. N : i \in 0 .. N /\ i # 0
    BY <1>1, SMT
  <2> QED BY <1>8, <2>1
<1> DEFINE G == {n \in Nat : n <= N => /\ after[n] \in X
                                       /\ AtEnd(base, cached, after[n]) \/ after[n].b + after[n].c >= n + 2}
<1>11. 0 \in G
  <2>1. x.b + x.c >= 0 + 2
    BY SMT DEF x
  <2> QED BY <1>2, <1>10, <2>1
<1>12. ASSUME NEW n \in 0 .. N, n < N, n \in G PROVE n + 1 \in G
  <2> DEFINE it == after[n]
             new == after[n + 1]
  <2>1. n + 1 \in 1 .. N /\ n + 1 - 1 = n /\ n <= N /\ n + 1 \in Nat /\ n \in Nat
    BY <1>1, <1>12, SMT
  <2>2. new = next(base, cached, it)
    BY <1>10, <2>1, SMT
  <2>3. it \in X /\ (AtEnd(base, cached, it) \/ it.b + it.c >= n + 2)
    BY <1>12, <2>1
  <2> HIDE DEF it, new
  <2>4. /\ new \in X
        /\ (new = it /\ AtEnd(base, cached, it)) \/ new.b + new.c >= it.b + it.c + 1
    BY <1>3, <2>2, <2>3
  <2>5. AtEnd(base, cached, it) /\ ~(new = it) => new.b + new.c >= (n + 1) + 2
    <3> SUFFICES ASSUME AtEnd(base, cached, it), ~(new = it) PROVE FALSE
      OBVIOUS
    <3>1. it.b > Len(base) /\ it.c > Len(cached)
      BY DEF AtEnd
    <3>2. next(base, cached, it) = it
      BY <3>1 DEF next
    <3> QED BY <2>2, <3>2
  <2>6. it.b \in Nat /\ it.c \in Nat /\ new.b \in Nat /\ new.c \in Nat
    BY <2>3, <2>4 DEF X, Iterators
  <2>7. AtEnd(base, cached, new) \/ new.b + new.c >= (n + 1) + 2
    <3>1. CASE new = it /\ AtEnd(base, cached, it)
      BY <3>1
    <3>2. CASE ~(new = it) /\ AtEnd(base, cached, it)
      BY <2>5, <3>2
    <3>3. CASE ~AtEnd(base, cached, it)
      <4>1. it.b + it.c >= n + 2 /\ new.b + new.c >= it.b + it.c + 1
        BY <2>3, <2>4, <3>3
      <4> QED BY <2>1, <2>6, <4>1, SMT
    <3> QED BY <3>1, <3>2, <3>3
  <2> QED BY <2>1, <2>4, <2>7 DEF new
<1>13. after[N] \in X /\ (AtEnd(base, cached, after[N]) \/ after[N].b + after[N].c >= N + 2)
  <2> HIDE DEF G
  <2>1. 0 .. N \subseteq G
    BY <1>1, <1>11, <1>12, UpTo
  <2>2. N \in G
    BY <1>1, <2>1, SMT
  <2> QED BY <1>1, <2>2, SMT DEF G
<1>14. AtEnd(base, cached, after[N])
  <2> DEFINE it == after[N]
  <2>1. it \in X /\ (AtEnd(base, cached, it) \/ it.b + it.c >= N + 2)
    BY <1>13
  <2> HIDE DEF it
  <2>2. it.b \in Nat /\ it.c \in Nat /\ it.b <= Len(base) + 1 /\ it.c <= Len(cached) + 1
    BY <2>1 DEF X, Iterators, MergeOK, Returned
  <2>3. AtEnd(base, cached, it)
    <3>1. CASE it.b + it.c >= N + 2
      BY <1>1, <2>2, <3>1, SMT DEF N, AtEnd
    <3> QED BY <2>1, <3>1
  <2> QED BY <2>3 DEF it
<1>15. MergeOK(base, cached, after[N])
  BY <1>13 DEF X
<1> QED BY <1>9, <1>14, <1>15


(* Merged lists the names of both listings, with the cache's data where it *)
(* has some.                                                               *)
LEMMA MergedListing ==
  ASSUME NEW base, NEW B, NEW dataB, IsListing(base, B, dataB),
         NEW cached, NEW C, NEW dataC, IsListing(cached, C, dataC),
         NEW T, T = B \cup C,
         NEW data, \A n \in T : data[n] = IF n \in C THEN dataC[n] ELSE dataB[n]
  PROVE  IsListing(Merged(base, cached), T, data)
<1>1. /\ base \in Seq(Entry) /\ cached \in Seq(Entry) /\ Sorted(base) /\ Sorted(cached)
      /\ Len(base) \in Nat /\ Len(cached) \in Nat
      /\ \A i \in 1 .. Len(base) : base[i].name \in B /\ base[i].data = dataB[base[i].name]
      /\ \A n \in B : \E i \in 1 .. Len(base) : base[i].name = n
      /\ \A i \in 1 .. Len(cached) : cached[i].name \in C /\ cached[i].data = dataC[cached[i].name]
      /\ \A n \in C : \E i \in 1 .. Len(cached) : cached[i].name = n
  BY SMT DEF IsListing
<1>2. PICK it : /\ MergeOK(base, cached, it) /\ AtEnd(base, cached, it)
                /\ Merged(base, cached) = it.out
  BY <1>1, MergedEnds, SMT
<1> DEFINE s == Merged(base, cached)
<1>3. /\ s \in Seq(Entry) /\ Sorted(s)
      /\ \A i \in 1 .. Len(s) :
           \/ \E q \in 1 .. Len(cached) : s[i] = cached[q]
           \/ \E p \in 1 .. Len(base) : /\ s[i] = base[p]
                                        /\ \A q \in 1 .. Len(cached) : cached[q].name # base[p].name
      /\ \A q \in 1 .. Len(cached) : q < it.c => \E i \in 1 .. Len(s) : s[i].name = cached[q].name
      /\ \A p \in 1 .. Len(base) : p < it.b => \E i \in 1 .. Len(s) : s[i].name = base[p].name
  <2>1. s = it.out
    BY <1>2
  <2> HIDE DEF s
  <2>2. IsIter(it) /\ Returned(base, cached, it)
    BY <1>2 DEF MergeOK
  <2> QED BY <2>1, <2>2, SMT DEF IsIter, Returned
<1>4. /\ \A q \in 1 .. Len(cached) : q < it.c
      /\ \A p \in 1 .. Len(base) : p < it.b
  <2>1. it.b > Len(base) /\ it.c > Len(cached) /\ it.b \in Nat /\ it.c \in Nat
    BY <1>2 DEF AtEnd, MergeOK, IsIter
  <2> QED BY <1>1, <2>1, SMT
<1> HIDE DEF s
<1>5. ASSUME NEW i \in 1 .. Len(s) PROVE s[i].name \in T /\ s[i].data = data[s[i].name]
  <2>1. CASE \E q \in 1 .. Len(cached) : s[i] = cached[q]
    <3>1. PICK q \in 1 .. Len(cached) : s[i] = cached[q]
      BY <2>1
    <3>2. s[i].name \in C /\ s[i].data = dataC[s[i].name]
      BY <1>1, <3>1, SMT
    <3> QED BY <3>2
  <2>2. CASE \E p \in 1 .. Len(base) : /\ s[i] = base[p]
                                       /\ \A q \in 1 .. Len(cached) : cached[q].name # base[p].name
    <3>1. PICK p \in 1 .. Len(base) : /\ s[i] = base[p]
                                      /\ \A q \in 1 .. Len(cached) : cached[q].name # base[p].name
      BY <2>2
    <3>2. s[i].name \in B /\ s[i].data = dataB[s[i].name]
      BY <1>1, <3>1, SMT
    <3>3. s[i].name \notin C
      BY <1>1, <3>1
    <3> QED BY <3>2, <3>3
  <2> QED BY <1>3, <2>1, <2>2
<1>6. ASSUME NEW n \in T PROVE \E i \in 1 .. Len(s) : s[i].name = n
  <2>1. CASE n \in C
    <3>1. PICK q \in 1 .. Len(cached) : cached[q].name = n
      BY <1>1, <2>1
    <3> QED BY <1>3, <1>4, <3>1
  <2>2. CASE n \in B
    <3>1. PICK p \in 1 .. Len(base) : base[p].name = n
      BY <1>1, <2>2
    <3> QED BY <1>3, <1>4, <3>1
  <2> QED BY <2>1, <2>2
<1>7. IsListing(s, T, data)
  BY <1>3, <1>5, <1>6 DEF IsListing
<1> QED BY <1>7 DEF s


(* The names that have data.                                               *)
Held(data) == {n \in Name : data[n] # NoData}

(* What shows through a cache is held by the cache or by its base.         *)
LEMMA HeldUnion ==
  ASSUME NEW f, NEW g, NEW h, IsFiniteSet(Held(f)), IsFiniteSet(Held(g)),
         \A n \in Name : h[n] # NoData => f[n] # NoData \/ g[n] # NoData
  PROVE  IsFiniteSet(Held(h))
<1>1. IsFiniteSet(Held(f) \cup Held(g))
  BY FS_Union
<1>2. Held(h) \subseteq Held(f) \cup Held(g)
  BY DEF Held
<1> QED BY <1>1, <1>2, FS_Subset

(* An iteration over a base, through a cache, lists what the cache over    *)
(* the base shows.                                                         *)
LEMMA CacheListing ==
  ASSUME NEW c, CacheOK(c), IsFiniteSet(Held(c.entries)), NEW base \in Names, NEW start,
         NEW list, IsListing(list, {n \in Name : n >= start /\ base.data[n] # NoData}, base.data)
  PROVE  IsListing(CacheIterate(c, list, start),
                   {n \in Name : n >= start /\ Overlay(c, base).data[n] # NoData}, Overlay(c, base).data)
<1> DEFINE o == Overlay(c, base).data
           B == {n \in Name : n >= start /\ base.data[n] # NoData} \ c.deleted
           C == {n \in Name : n >= start /\ c.entries[n] # NoData}
           T == {n \in Name : n >= start /\ o[n] # NoData}
           cached == Listed(C, c.entries)
           kept == NotDeleted(c, list)
<1>1. IsListing(kept, B, base.data)
  BY NotDeletedListing
<1>2. IsListing(cached, C, c.entries)
  <2>1. C \in SUBSET Name /\ C \subseteq Held(c.entries)
    BY DEF Held
  <2>2. IsFiniteSet(C)
    BY <2>1, FS_Subset
  <2>3. \A n \in C : c.entries[n] \in NameData
    BY DEF CacheOK, Caches, DataOrNone
  <2> HIDE DEF C
  <2> QED BY <2>1, <2>2, <2>3, ListedIsListing
<1>3. ASSUME NEW n \in Name
      PROVE  o[n] = IF n \in c.deleted THEN NoData ELSE IF c.entries[n] # NoData THEN c.entries[n] ELSE base.data[n]
  BY OverlayFields DEF CacheOK
<1>4. \A n \in Name : n \in c.deleted => c.entries[n] = NoData
  BY DEF CacheOK, Coherent
<1> HIDE DEF o
<1>5. T = B \cup C
  BY <1>3, <1>4
<1>6. \A n \in T : o[n] = IF n \in C THEN c.entries[n] ELSE base.data[n]
  BY <1>3, <1>4
<1> HIDE DEF B, C, T, cached, kept
<1>7. IsListing(Merged(kept, cached), T, o)
  BY <1>1, <1>2, <1>5, <1>6, MergedListing, SMT
<1>8. CacheIterate(c, list, start) = Merged(kept, cached)
  BY DEF CacheIterate, kept, cached, C
<1> QED BY <1>7, <1>8 DEF T, o

(* Finitely many names are set, in the database and in each cache.         *)
FiniteInv == /\ IsFiniteSet(Held(dbNames.data))
             /\ IsFiniteSet(Held(tipNames.entries))
             /\ IsFiniteSet(Held(viewNames.entries))

(* Setting a name adds one name at most.                                   *)
LEMMA HeldSet ==
  ASSUME NEW f \in [Name -> DataOrNone], NEW n \in Name, NEW x, IsFiniteSet(Held(f))
  PROVE  IsFiniteSet(Held([f EXCEPT ![n] = x]))
<1>1. IsFiniteSet(Held(f) \cup {n})
  BY FS_AddElement
<1>2. Held([f EXCEPT ![n] = x]) \subseteq Held(f) \cup {n}
  BY DEF Held
<1> QED BY <1>1, <1>2, FS_Subset

(* The changes to a cache by SetName and DeleteName, in the block view.    *)
LEMMA FiniteSteps ==
  ASSUME CacheInv, FiniteInv, NEW n \in Name, NEW data \in NameData,
         Set(n, data) \/ UndoSet(n, data) \/ Delete(n)
  PROVE  FiniteInv'
<1>1. /\ viewNames \in Caches /\ viewNames.entries \in [Name -> DataOrNone]
      /\ View \in Names /\ View.data[n] \in DataOrNone /\ View.history[n] \in Seq(NameData)
  BY ShownTypes DEF CacheInv, CacheOK, Caches, Names
<1>2. \E x : viewNames'.entries = [viewNames.entries EXCEPT ![n] = x]
  <2>1. CASE Set(n, data)
    <3> DEFINE hist == Append(View.history[n], View.data[n])
    <3>1. View.data[n] # NoData => hist \in Seq(NameData)
      BY <1>1, SMT DEF DataOrNone
    <3>2. viewNames' = CacheSetName(viewNames, View.data[n], n, data, hist)
      BY <2>1 DEF Set
    <3> HIDE DEF hist
    <3>3. IsSet(CacheSetName(viewNames, View.data[n], n, data, hist),
                viewNames, View.data[n], n, data, hist)
      BY <1>1, <3>1, SetFields
    <3>4. viewNames'.entries = [viewNames.entries EXCEPT ![n] = data]
      BY <3>2, <3>3 DEF IsSet
    <3> QED BY <3>4
  <2>2. CASE UndoSet(n, data)
    <3> DEFINE hist == IF fNameHistory THEN SubSeq(View.history[n], 1, Len(View.history[n]) - 1) ELSE <<>>
    <3>1. hist \in Seq(NameData)
      <4>1. fNameHistory => View.history[n] # <<>>
        BY <2>2 DEF UndoSet, UndoSetNameAsserts
      <4> QED BY <1>1, <4>1, SMT
    <3>2. viewNames' = CacheSetName(viewNames, View.data[n], n, data, hist)
      BY <2>2 DEF UndoSet
    <3> HIDE DEF hist
    <3>3. IsSet(CacheSetName(viewNames, View.data[n], n, data, hist),
                viewNames, View.data[n], n, data, hist)
      BY <1>1, <3>1, SetFields
    <3>4. viewNames'.entries = [viewNames.entries EXCEPT ![n] = data]
      BY <3>2, <3>3 DEF IsSet
    <3> QED BY <3>4
  <2>3. CASE Delete(n)
    <3>1. View.data[n] \in NameData
      BY <1>1, <2>3 DEF Delete, DeleteNameAsserts, DataOrNone
    <3>2. viewNames' = CacheDeleteName(viewNames, View.data[n], n)
      BY <2>3 DEF Delete
    <3>3. IsDeleted(CacheDeleteName(viewNames, View.data[n], n), viewNames, View.data[n], n)
      BY <1>1, <3>1, DeleteFields
    <3>4. viewNames'.entries = [viewNames.entries EXCEPT ![n] = NoData]
      BY <3>2, <3>3 DEF IsDeleted
    <3> QED BY <3>4
  <2> QED BY <2>1, <2>2, <2>3
<1>3. IsFiniteSet(Held(viewNames'.entries))
  BY <1>1, <1>2, HeldSet DEF FiniteInv
<1>4. UNCHANGED <<dbNames, tipNames>>
  BY DEF Set, UndoSet, Delete
<1> QED BY <1>3, <1>4 DEF FiniteInv, Held


(* No step leaves more than finitely many names set.                       *)
LEMMA FiniteStep == CacheInv /\ FiniteInv /\ [Next]_vars => FiniteInv'
<1> SUFFICES ASSUME CacheInv, FiniteInv, [Next]_vars PROVE FiniteInv'
  OBVIOUS
<1>1. CASE UNCHANGED vars
  BY <1>1 DEF vars, FiniteInv, Held
<1>2. ASSUME NEW n \in Name, NEW data \in Input[n], Set(n, data) \/ UndoSet(n, data)
      PROVE  FiniteInv'
  <2>1. data \in NameData
    BY CacheAssumption
  <2> QED BY <1>2, <2>1, FiniteSteps
<1>3. ASSUME NEW n \in Name, Delete(n) PROVE FiniteInv'
  <2>1. View.data[n] \in NameData
    BY <1>3, ShownTypes DEF Delete, DeleteNameAsserts, Names, DataOrNone
  <2> QED BY <1>3, <2>1, FiniteSteps
<1>4. IsFiniteSet(Held(EmptyCache.entries))
  <2>1. Held(EmptyCache.entries) = {}
    BY DEF Held, EmptyCache
  <2> QED BY <2>1, FS_EmptySet
<1>5. CASE FlushView
  <2>1. ASSUME NEW n \in Name, apply(tipNames, viewNames).entries[n] # NoData
        PROVE  tipNames.entries[n] # NoData \/ viewNames.entries[n] # NoData
    BY <2>1 DEF apply
  <2>2. IsFiniteSet(Held(apply(tipNames, viewNames).entries))
    BY <2>1, HeldUnion DEF FiniteInv
  <2>3. dbNames' = dbNames /\ tipNames' = apply(tipNames, viewNames) /\ viewNames' = EmptyCache
    BY <1>5 DEF FlushView
  <2> QED BY <1>4, <2>2, <2>3 DEF FiniteInv, Held
<1>6. CASE ResetView
  BY <1>4, <1>6 DEF ResetView, FiniteInv, Held
<1>7. CASE FlushTip
  <2>1. ASSUME NEW n \in Name, writeBatch(dbNames, tipNames).data[n] # NoData
        PROVE  dbNames.data[n] # NoData \/ tipNames.entries[n] # NoData
    BY <2>1 DEF writeBatch
  <2>2. IsFiniteSet(Held(writeBatch(dbNames, tipNames).data))
    BY <2>1, HeldUnion DEF FiniteInv
  <2>3. dbNames' = writeBatch(dbNames, tipNames) /\ tipNames' = tipNames /\ viewNames' = viewNames
    BY <1>7 DEF FlushTip
  <2> QED BY <2>2, <2>3 DEF FiniteInv, Held
<1>8. CASE Restart
  BY <1>4, <1>8 DEF Restart, FiniteInv, Held
<1> QED BY <1>1, <1>2, <1>3, <1>5, <1>6, <1>7, <1>8 DEF Next

(* Where finitely many names are set, the two cache iterators over that of *)
(* the database list what the block view shows.                            *)
LEMMA IterationListsView ==
  ASSUME CacheInv, FiniteInv, NEW start \in Name
  PROVE  ViewIterate(start) = Listed({n \in Name : n >= start /\ View.data[n] # NoData}, View.data)
<1> DEFINE From(data) == {n \in Name : n >= start /\ data[n] # NoData}
           dbList == DbIterate(dbNames, start)
           tipList == CacheIterate(tipNames, dbList, start)
           viewList == CacheIterate(viewNames, tipList, start)
<1>1. /\ dbNames \in Names /\ Tip \in Names /\ View \in Names
      /\ CacheOK(tipNames) /\ CacheOK(viewNames)
      /\ Tip = Overlay(tipNames, dbNames) /\ View = Overlay(viewNames, Tip)
  BY ShownTypes DEF CacheInv, Tip, View
<1>2. ASSUME NEW db \in Names, IsFiniteSet(Held(db.data))
      PROVE  IsListing(Listed(From(db.data), db.data), From(db.data), db.data)
  <2> DEFINE T == From(db.data)
  <2>1. T \in SUBSET Name /\ T \subseteq Held(db.data)
    BY DEF Held
  <2>2. IsFiniteSet(T)
    BY <1>2, <2>1, FS_Subset
  <2>3. \A n \in T : db.data[n] \in NameData
    BY DEF Names, DataOrNone
  <2> HIDE DEF T
  <2>4. IsListing(Listed(T, db.data), T, db.data)
    BY <2>1, <2>2, <2>3, ListedIsListing
  <2> QED BY <2>4 DEF T
<1>3. IsFiniteSet(Held(Tip.data))
  <2>1. ASSUME NEW n \in Name, Tip.data[n] # NoData
        PROVE  dbNames.data[n] # NoData \/ tipNames.entries[n] # NoData
    BY <1>1, <2>1, OverlayFields, SMT DEF CacheOK
  <2> QED BY <2>1, HeldUnion DEF FiniteInv
<1>4. IsFiniteSet(Held(View.data))
  <2>1. ASSUME NEW n \in Name, View.data[n] # NoData
        PROVE  Tip.data[n] # NoData \/ viewNames.entries[n] # NoData
    BY <1>1, <2>1, OverlayFields, SMT DEF CacheOK
  <2> QED BY <1>3, <2>1, HeldUnion DEF FiniteInv
<1>5. IsListing(dbList, From(dbNames.data), dbNames.data)
  BY <1>1, <1>2 DEF FiniteInv, DbIterate
<1> HIDE DEF dbList
<1>6. IsListing(tipList, From(Tip.data), Tip.data)
  BY <1>1, <1>5, CacheListing DEF FiniteInv
<1> HIDE DEF tipList
<1>7. IsListing(viewList, From(View.data), View.data)
  BY <1>1, <1>6, CacheListing DEF FiniteInv
<1> HIDE DEF viewList
<1>8. IsListing(Listed(From(View.data), View.data), From(View.data), View.data)
  BY <1>1, <1>2, <1>4
<1>9. viewList = Listed(From(View.data), View.data)
  <2> HIDE DEF From
  <2> QED BY <1>7, <1>8, ListingUnique
<1>10. ViewIterate(start) = viewList
  BY DEF ViewIterate, viewList, tipList, dbList
<1> QED BY <1>9, <1>10

(* IterateNames through the two caches and the database yields exactly the *)
(* names that GetName finds, once each, in order and with their current    *)
(* data, for any names, heights and history depth.                         *)
THEOREM IterationAlwaysMatches == Spec => []IterationMatchesView
<1>1. Init => FiniteInv
  <2> SUFFICES ASSUME Init PROVE FiniteInv
    OBVIOUS
  <2>1. Held(dbNames.data) = {} /\ Held(tipNames.entries) = {} /\ Held(viewNames.entries) = {}
    BY DEF Init, EmptyCache, Held
  <2> QED BY <2>1, FS_EmptySet DEF FiniteInv
<1>2. CacheInv /\ FiniteInv => IterationMatchesView
  BY IterationListsView DEF IterationMatchesView
<1> QED BY <1>1, <1>2, FiniteStep, CacheInvHolds, PTL DEF Spec
=============================================================================
