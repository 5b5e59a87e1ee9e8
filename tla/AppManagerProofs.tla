--------------------------- MODULE AppManagerProofs ---------------------------
(***************************************************************************)
(* Proofs about AppManager, for any sets of IDs and names and any number   *)
(* of ranks.  The inductive invariant is Inv: the types, and MappingFits.  *)
(***************************************************************************)
EXTENDS AppManager, BoundedRecursion, TLAPS

AppsType == [IDs -> Managed_application \cup {null}]
MapType == [Names -> Resolved_application \cup {null}]

-----------------------------------------------------------------------------
\* BestMatches is empty only if no other application has the name: remove_name_mapping()
\* finds a replacement whenever there is one.
LEMMA BestExists ==
    ASSUME NEW apps \in AppsType, NEW id \in IDs, NEW n \in Names,
           BestMatches(apps, id, n) = {}
    PROVE  Replacements(apps, id, n) = {}
<1>1. SUFFICES ASSUME Replacements(apps, id, n) # {}
               PROVE  FALSE
  OBVIOUS
<1> DEFINE T == {apps[i].rank : i \in Replacements(apps, id, n)}
<1>2. \A i \in Replacements(apps, id, n) : i \in IDs /\ apps[i].rank \in Nat
  BY ConstantsAssumption DEF Replacements, HasName, Populated, AppsType,
     Managed_application, Ranks
<1>3. T \in SUBSET Nat /\ T # {}
  BY <1>1, <1>2
<1>4. \E x \in T : \A y \in T : x <= y
  <2> HIDE DEF T
  <2> QED BY <1>3, LeastExists
<1>5. PICK i \in Replacements(apps, id, n) :
        \A j \in Replacements(apps, id, n) : apps[i].rank <= apps[j].rank
  BY <1>4
<1>6. i \in BestMatches(apps, id, n)
  BY <1>5 DEF BestMatches
<1> QED
  BY <1>6

-----------------------------------------------------------------------------
\* The element that try_emplace() leaves at n, and at every other name.
LEMMA TryEmplace ==
    ASSUME NEW m \in MapType, NEW n \in Names, NEW id \in IDs, NEW g \in BOOLEAN
    PROVE  /\ try_emplace(m, n, id, g) \in MapType
           /\ \A k \in Names \ {n} : try_emplace(m, n, id, g)[k] = m[k]
           /\ m[n] # null => try_emplace(m, n, id, g)[n] = m[n]
           /\ m[n] = null => try_emplace(m, n, id, g)[n] =
                                [app |-> id, is_generic |-> g, live |-> TRUE]
           /\ try_emplace(m, n, id, g)[n] # null
<1> DEFINE e == [app |-> id, is_generic |-> g, live |-> TRUE]
<1>1. e \in Resolved_application
  BY DEF Resolved_application
<1>2. e # null
  <2> HIDE DEF e
  <2> QED BY <1>1, NullAssumption
<1>3. try_emplace(m, n, id, g) = IF m[n] # null THEN m ELSE [m EXCEPT ![n] = e]
  BY DEF try_emplace
<1> HIDE DEF e
<1>4. /\ try_emplace(m, n, id, g) \in MapType
      /\ \A k \in Names \ {n} : try_emplace(m, n, id, g)[k] = m[k]
      /\ m[n] # null => try_emplace(m, n, id, g)[n] = m[n]
      /\ m[n] = null => try_emplace(m, n, id, g)[n] = e
  BY <1>1, <1>3 DEF MapType
<1> QED
  BY <1>2, <1>4 DEF e

\* Expire() leaves a mapping alone that has no entry of the element.
LEMMA ExpireNothing ==
    ASSUME NEW m \in MapType, NEW id \in IDs,
           \A n \in Names : m[n] # null => m[n].app # id
    PROVE  Expire(m, id) = m
BY DEF Expire, MapType

-----------------------------------------------------------------------------
Fits(apps, m) == \A n \in Names : EntryFits(apps, m, n)

\* The applications without the element id.
Gone(apps, id) == [apps EXCEPT ![id] = null]

\* Erasing element id takes all its names away and leaves the others as they are.
LEMMA GoneFacts ==
    ASSUME NEW apps \in AppsType, NEW id \in IDs
    PROVE  /\ Gone(apps, id) \in AppsType
           /\ \A n : ~HasName(Gone(apps, id), id, n)
           /\ \A i \in IDs \ {id} : Gone(apps, id)[i] = apps[i]
           /\ \A i \in IDs \ {id} : \A n :
                HasName(Gone(apps, id), i, n) <=> HasName(apps, i, n)
BY DEF Gone, AppsType, HasName, Populated

\* A name that the application of element id does not have is not affected by
\* its disappearance.
LEMMA OtherNames ==
    ASSUME NEW apps \in AppsType, NEW id \in IDs, NEW m \in MapType,
           NEW n \in Names, ~HasName(apps, id, n)
    PROVE  EntryFits(apps, m, n) <=> EntryFits(Gone(apps, id), m, n)
<1>1. \A i \in IDs : HasName(Gone(apps, id), i, n) <=> HasName(apps, i, n)
  BY GoneFacts
<1>2. \A i \in IDs : HasName(apps, i, n) => Gone(apps, id)[i] = apps[i]
  BY GoneFacts
<1>3. m[n] # null => m[n].app \in IDs
  BY DEF MapType, Resolved_application
<1> QED
  BY <1>1, <1>2, <1>3 DEF EntryFits

\* remove_name_mapping() for a name n of the application of element id.
LEMMA RemoveNameMapping ==
    ASSUME NEW apps \in AppsType, NEW id \in IDs, NEW m \in MapType,
           NEW n \in Names, HasName(apps, id, n),
           NEW r \in remove_name_mapping(apps, m, id, n)
    PROVE  /\ r \in MapType
           /\ \A k \in Names \ {n} : r[k] = m[k]
           /\ EntryFits(apps, m, n) => EntryFits(Gone(apps, id), r, n)
           /\ EntryFits(Gone(apps, id), m, n) => r = m
<1> DEFINE erased == [m EXCEPT ![n] = null]
<1>1. erased \in MapType /\ erased[n] = null /\ \A k \in Names \ {n} : erased[k] = m[k]
  BY DEF MapType
<1>2. m[n] # null /\ m[n].app \in IDs
  BY DEF remove_name_mapping, MapType, Resolved_application
<1>3. CASE m[n].app # id
  <2>1. r = m
    BY <1>2, <1>3 DEF remove_name_mapping
  <2>2. EntryFits(apps, m, n) => EntryFits(Gone(apps, id), m, n)
    <3>1. Gone(apps, id)[m[n].app] = apps[m[n].app]
      BY <1>2, <1>3, GoneFacts
    <3>2. \A i \in IDs : HasName(Gone(apps, id), i, n) =>
              HasName(apps, i, n) /\ Gone(apps, id)[i] = apps[i]
      BY GoneFacts
    <3>3. HasName(apps, m[n].app, n) => HasName(Gone(apps, id), m[n].app, n)
      BY <1>2, <1>3, GoneFacts
    <3> QED
      BY <1>2, <3>1, <3>2, <3>3 DEF EntryFits
  <2> QED
    BY <2>1, <2>2
<1>4. CASE m[n].app = id /\ BestMatches(apps, id, n) = {}
  <2>1. r = erased
    BY <1>2, <1>4 DEF remove_name_mapping
  <2>2. Replacements(apps, id, n) = {}
    BY <1>4, BestExists
  <2>3. \A i \in IDs : ~HasName(Gone(apps, id), i, n)
    BY <2>2, GoneFacts DEF Replacements
  <2>4. ~EntryFits(Gone(apps, id), m, n)
    BY <1>2, <1>4, <2>3 DEF EntryFits
  <2>5. EntryFits(Gone(apps, id), erased, n)
    BY <1>1, <2>3 DEF EntryFits
  <2> QED
    BY <1>1, <2>1, <2>4, <2>5
<1>5. CASE m[n].app = id /\ BestMatches(apps, id, n) # {}
  <2>1. PICK i \in BestMatches(apps, id, n) :
            r = try_emplace(erased, n, i, apps[i].app.name # n)
    BY <1>2, <1>5 DEF remove_name_mapping
  <2>2. /\ i \in IDs \ {id} /\ HasName(apps, i, n)
        /\ \A j \in IDs \ {id} : HasName(apps, j, n) => apps[i].rank <= apps[j].rank
    BY DEF BestMatches, Replacements
  <2> DEFINE g == apps[i].app.name # n
  <2>3. g \in BOOLEAN
    OBVIOUS
  <2>4. /\ r \in MapType
        /\ \A k \in Names \ {n} : r[k] = m[k]
        /\ r[n] = [app |-> i, is_generic |-> g, live |-> TRUE]
        /\ r[n] # null
    <3>1. r = try_emplace(erased, n, i, g)
      BY <2>1
    <3> HIDE DEF erased, g
    <3> QED BY <1>1, <2>2, <2>3, <3>1, TryEmplace
  <2>g. r[n].is_generic <=> apps[i].app.name # n
    <3>1. r[n].is_generic = g
      <4> HIDE DEF g
      <4> QED BY <2>4
    <3> QED BY <3>1, Zenon
  <2>5. ~EntryFits(Gone(apps, id), m, n)
    BY <1>2, <1>5, GoneFacts DEF EntryFits
  <2>6. EntryFits(Gone(apps, id), r, n)
    <3>1. Gone(apps, id)[i] = apps[i] /\ HasName(Gone(apps, id), i, n)
      BY <2>2, GoneFacts
    <3>2. \A j \in IDs : HasName(Gone(apps, id), j, n) =>
            /\ j \in IDs \ {id} /\ HasName(apps, j, n)
            /\ Gone(apps, id)[j] = apps[j]
      BY GoneFacts
    <3>3. r[n] # null
      BY <2>4
    <3>4. r[n].app = i /\ r[n].live
      <4> HIDE DEF g
      <4> QED BY <2>4
    <3> QED
      BY <2>2, <2>g, <3>1, <3>2, <3>3, <3>4 DEF EntryFits
  <2> QED
    BY <2>4, <2>5, <2>6
<1> QED
  BY <1>3, <1>4, <1>5

\* Taking an application out of a mapping that fits gives one that fits the
\* applications that are left, and no entry of it points into the element.
LEMMA RemoveNamesFits ==
    ASSUME NEW apps \in AppsType, NEW id \in IDs, NEW m \in MapType,
           Fits(apps, m), NEW r \in RemoveNames(apps, m, id)
    PROVE  /\ r \in MapType
           /\ Fits(Gone(apps, id), r)
           /\ Expire(r, id) = r
<1>1. r \in MapType /\ Fits(Gone(apps, id), r)
  <2>1. CASE ~Populated(apps, id)
    <3>1. r = m /\ \A n \in Names : ~HasName(apps, id, n)
      BY <2>1 DEF RemoveNames, HasName
    <3> QED
      BY <3>1, OtherNames DEF Fits
  <2>2. CASE Populated(apps, id) /\ apps[id].app.generic_name = null
    <3> DEFINE n == apps[id].app.name
    <3>1. /\ n \in Names /\ HasName(apps, id, n)
          /\ r \in remove_name_mapping(apps, m, id, n)
      BY <2>2 DEF RemoveNames, Populated, HasName, AppsType, Managed_application, Application
    <3>2. \A k \in Names \ {n} : ~HasName(apps, id, k)
      BY <2>2, NullAssumption DEF HasName
    <3> HIDE DEF n
    <3>3. /\ r \in MapType /\ \A k \in Names \ {n} : r[k] = m[k]
          /\ EntryFits(Gone(apps, id), r, n)
      BY <3>1, RemoveNameMapping DEF Fits
    <3>4. \A k \in Names \ {n} : EntryFits(Gone(apps, id), r, k)
      <4>1. \A k \in Names \ {n} : EntryFits(Gone(apps, id), m, k)
        BY <3>2, OtherNames DEF Fits
      <4> QED BY <3>3, <4>1 DEF EntryFits
    <3> QED
      BY <3>3, <3>4 DEF Fits
  <2>3. CASE Populated(apps, id) /\ apps[id].app.generic_name # null
    <3> DEFINE n == apps[id].app.name
               g == apps[id].app.generic_name
    <3>1. /\ n \in Names /\ HasName(apps, id, n)
          /\ g \in Names /\ HasName(apps, id, g)
      BY <2>3 DEF Populated, HasName, AppsType, Managed_application, Application
    <3>2. PICK m1 \in remove_name_mapping(apps, m, id, n) :
            r \in remove_name_mapping(apps, m1, id, g)
      BY <2>3 DEF RemoveNames
    <3>3. \A k \in Names \ {n, g} : ~HasName(apps, id, k)
      BY <2>3 DEF HasName
    <3> HIDE DEF n, g
    <3>4. /\ m1 \in MapType /\ \A k \in Names \ {n} : m1[k] = m[k]
          /\ EntryFits(Gone(apps, id), m1, n)
      BY <3>1, RemoveNameMapping DEF Fits
    <3>5. /\ r \in MapType /\ \A k \in Names \ {g} : r[k] = m1[k]
          /\ EntryFits(apps, m1, g) => EntryFits(Gone(apps, id), r, g)
          /\ EntryFits(Gone(apps, id), m1, g) => r = m1
      BY <3>1, <3>2, <3>4, RemoveNameMapping
    <3>6. EntryFits(Gone(apps, id), r, n) /\ EntryFits(Gone(apps, id), r, g)
      <4>1. CASE n = g
        BY <3>4, <3>5, <4>1
      <4>2. CASE n # g
        <5>1. EntryFits(apps, m1, g)
          BY <3>1, <3>4, <4>2 DEF EntryFits, Fits
        <5>2. EntryFits(Gone(apps, id), r, n)
          BY <3>1, <3>4, <3>5, <4>2 DEF EntryFits
        <5> QED BY <3>5, <5>1, <5>2
      <4> QED BY <4>1, <4>2
    <3>7. \A k \in Names \ {n, g} : EntryFits(Gone(apps, id), r, k)
      <4>1. \A k \in Names \ {n, g} : EntryFits(Gone(apps, id), m, k)
        BY <3>3, OtherNames DEF Fits
      <4>2. \A k \in Names \ {n, g} : r[k] = m[k]
        BY <3>4, <3>5
      <4> QED BY <4>1, <4>2 DEF EntryFits
    <3> QED
      BY <3>5, <3>6, <3>7 DEF Fits
  <2> QED
    BY <2>1, <2>2, <2>3
<1>2. \A n \in Names : r[n] # null => r[n].app # id
  BY <1>1, GoneFacts DEF Fits, EntryFits
<1> QED
  BY <1>1, <1>2, ExpireNothing

\* RemoveNames ends in abort() only for an application whose two names are the
\* same string and which no other application shares it with.
LEMMA RemoveNamesAborts ==
    ASSUME NEW apps \in AppsType, NEW id \in IDs, NEW m \in MapType,
           Fits(apps, m), RemoveNames(apps, m, id) = {}
    PROVE  /\ Populated(apps, id)
           /\ apps[id].app.name = apps[id].app.generic_name
           /\ Replacements(apps, id, apps[id].app.name) = {}
<1> DEFINE n == apps[id].app.name
           g == apps[id].app.generic_name
<1>1. Populated(apps, id)
  BY DEF RemoveNames
<1>2. n \in Names /\ g \in Names \cup {null} /\ HasName(apps, id, n) /\ HasName(apps, id, g)
  BY <1>1 DEF Populated, HasName, AppsType, Managed_application, Application
<1>3. \A k \in Names : HasName(apps, id, k) => m[k] # null
  BY DEF Fits, EntryFits
<1>4. remove_name_mapping(apps, m, id, n) # {}
  BY <1>2, <1>3 DEF remove_name_mapping
<1>5. g # null
  BY <1>1, <1>4 DEF RemoveNames
<1>6. PICK m1 \in remove_name_mapping(apps, m, id, n) : TRUE
  BY <1>4
<1>7. remove_name_mapping(apps, m1, id, g) = {}
  BY <1>1, <1>5, <1>6 DEF RemoveNames
<1>8. m1[g] = null
  BY <1>7 DEF remove_name_mapping
<1> HIDE DEF n, g
<1>9. g = n
  <2>1. \A k \in Names \ {n} : m1[k] = m[k]
    BY <1>2, RemoveNameMapping
  <2> QED
    BY <1>2, <1>3, <1>5, <1>8, <2>1
<1>10. Replacements(apps, id, n) = {}
  <2>1. EntryFits(Gone(apps, id), m1, n)
    BY <1>2, RemoveNameMapping DEF Fits
  <2>2. \A i \in IDs : ~HasName(Gone(apps, id), i, n)
    BY <1>8, <1>9, <2>1 DEF EntryFits
  <2> QED
    BY <2>2, GoneFacts DEF Replacements
<1> QED
  BY <1>1, <1>9, <1>10 DEF n, g

-----------------------------------------------------------------------------
\* replace_name_mapping() for a name n of the application of element id, when the
\* mapping does not know that application yet.
LEMMA ReplaceNameMapping ==
    ASSUME NEW apps \in AppsType, NEW id \in IDs, NEW m \in MapType,
           NEW n \in Names, HasName(apps, id, n), NEW g \in BOOLEAN
    PROVE  /\ EntryFits(Gone(apps, id), m, n)
           /\ g <=> apps[id].app.name # n
           => \E r \in MapType :
                 /\ replace_name_mapping(apps, m, id, n, g) = {r}
                 /\ \A k \in Names \ {n} : r[k] = m[k]
                 /\ EntryFits(apps, r, n)
<1> DEFINE erased == [m EXCEPT ![n] = null]
<1>0. m[n] # null => m[n].app \in IDs
  BY DEF MapType, Resolved_application
<1>r. \A i \in IDs : HasName(apps, i, n) => apps[i].rank \in Nat
  BY ConstantsAssumption DEF AppsType, Managed_application, Ranks, HasName, Populated
<1>1. ASSUME EntryFits(Gone(apps, id), m, n), g <=> apps[id].app.name # n
      PROVE  \E r \in MapType : /\ replace_name_mapping(apps, m, id, n, g) = {r}
                                /\ \A k \in Names \ {n} : r[k] = m[k]
                                /\ EntryFits(apps, r, n)
  <2>1. erased \in MapType /\ erased[n] = null /\ \A k \in Names \ {n} : erased[k] = m[k]
    BY DEF MapType
  <2>2. ASSUME NEW base \in MapType, base[n] = null,
               \A k \in Names \ {n} : base[k] = m[k],
               \A i \in IDs \ {id} : HasName(apps, i, n) => apps[id].rank <= apps[i].rank
        PROVE  LET r == try_emplace(base, n, id, g)
               IN  r \in MapType /\ EntryFits(apps, r, n) /\ \A k \in Names \ {n} : r[k] = m[k]
    <3> DEFINE r == try_emplace(base, n, id, g)
    <3>1. /\ r \in MapType /\ \A k \in Names \ {n} : r[k] = m[k]
          /\ r[n] # null
          /\ r[n] = [app |-> id, is_generic |-> g, live |-> TRUE]
      BY <2>2, TryEmplace
    <3> HIDE DEF r
    <3>2. r[n].app = id /\ r[n].live /\ r[n].is_generic = g
      BY <3>1
    <3>3. \A i \in IDs : HasName(apps, i, n) => apps[id].rank <= apps[i].rank
      BY <2>2, <1>r
    <3>4. r[n].is_generic <=> apps[r[n].app].app.name # n
      BY <1>1, <3>2
    <3>5. EntryFits(apps, r, n)
      BY <3>1, <3>2, <3>3, <3>4 DEF EntryFits
    <3> QED
      BY <3>1, <3>5 DEF r
  <2>3. CASE m[n] = null
    <3>1. \A i \in IDs \ {id} : ~HasName(apps, i, n)
      BY <1>1, <2>3, GoneFacts DEF EntryFits
    <3>2. replace_name_mapping(apps, m, id, n, g) = {try_emplace(m, n, id, g)}
      BY <2>3 DEF replace_name_mapping
    <3> QED
      BY <2>2, <2>3, <3>1, <3>2
  <2>4. CASE m[n] # null
    <3> DEFINE o == m[n].app
    <3>1. /\ o \in IDs \ {id} /\ HasName(apps, o, n) /\ Gone(apps, id)[o] = apps[o]
          /\ m[n].live
          /\ m[n].is_generic <=> apps[o].app.name # n
      BY <1>0, <1>1, <2>4, GoneFacts DEF EntryFits
    <3>2. \A i \in IDs \ {id} : HasName(apps, i, n) => apps[o].rank <= apps[i].rank
      BY <1>0, <1>1, <2>4, <3>1, GoneFacts DEF EntryFits
    <3>3. Populated(apps, o)
      BY <3>1 DEF HasName
    <3>4. CASE apps[id].rank < apps[o].rank
      <4>1. replace_name_mapping(apps, m, id, n, g) = {try_emplace(erased, n, id, g)}
        BY <2>4, <3>3, <3>4 DEF replace_name_mapping
      <4>2. \A i \in IDs \ {id} : HasName(apps, i, n) => apps[id].rank <= apps[i].rank
        BY <1>r, <3>1, <3>2, <3>4
      <4> HIDE DEF erased
      <4> QED
        BY <2>1, <2>2, <4>1, <4>2
    <3>5. CASE ~(apps[id].rank < apps[o].rank)
      <4>1. replace_name_mapping(apps, m, id, n, g) = {m}
        BY <2>4, <3>3, <3>5 DEF replace_name_mapping
      <4>2. \A i \in IDs : HasName(apps, i, n) => apps[o].rank <= apps[i].rank
        BY <1>r, <3>1, <3>2, <3>5
      <4>3. EntryFits(apps, m, n)
        BY <2>4, <3>1, <4>2 DEF EntryFits
      <4> QED
        BY <4>1, <4>3
    <3> QED
      BY <3>4, <3>5
  <2> QED
    BY <2>3, <2>4
<1> QED
  BY <1>1

\* The same when the mapping already knows the application: nothing changes.
LEMMA ReplaceKnownName ==
    ASSUME NEW apps \in AppsType, NEW id \in IDs, NEW m \in MapType,
           NEW n \in Names, HasName(apps, id, n), EntryFits(apps, m, n)
    PROVE  \A g : replace_name_mapping(apps, m, id, n, g) = {m}
<1>1. \A i \in IDs : HasName(apps, i, n) => apps[i].rank \in Nat
  BY ConstantsAssumption DEF AppsType, Managed_application, Ranks, HasName, Populated
<1>2. /\ m[n] # null /\ m[n].app \in IDs /\ HasName(apps, m[n].app, n)
      /\ apps[m[n].app].rank <= apps[id].rank
  BY DEF EntryFits, MapType, Resolved_application
<1>3. ~(apps[id].rank < apps[m[n].app].rank)
  BY <1>1, <1>2
<1> QED
  BY <1>2, <1>3 DEF replace_name_mapping, HasName

\* Putting an application into a mapping that fits the others gives exactly one
\* mapping, which fits them all: replace_name_mapping() never calls abort().
LEMMA ReplaceNamesFits ==
    ASSUME NEW apps \in AppsType, NEW id \in IDs, NEW m \in MapType,
           Fits(Gone(apps, id), m)
    PROVE  \E r \in MapType : ReplaceNames(apps, m, id) = {r} /\ Fits(apps, r)
<1>1. CASE ~Populated(apps, id)
  <2>1. ReplaceNames(apps, m, id) = {m} /\ \A n \in Names : ~HasName(apps, id, n)
    BY <1>1 DEF ReplaceNames, HasName
  <2> QED
    BY <2>1, OtherNames DEF Fits
<1>2. CASE Populated(apps, id)
  <2> DEFINE n == apps[id].app.name
             g == apps[id].app.generic_name
  <2>1. /\ n \in Names /\ g \in Names \cup {null}
        /\ HasName(apps, id, n) /\ HasName(apps, id, g)
        /\ \A k \in Names \ {n, g} : ~HasName(apps, id, k)
    BY <1>2 DEF Populated, HasName, AppsType, Managed_application, Application
  <2>2. PICK m1 \in MapType :
            /\ replace_name_mapping(apps, m, id, n, FALSE) = {m1}
            /\ \A k \in Names \ {n} : m1[k] = m[k]
            /\ EntryFits(apps, m1, n)
    BY <2>1, ReplaceNameMapping DEF Fits
  <2>3. \A k \in Names \ {n, g} : EntryFits(apps, m1, k)
    <3>1. \A k \in Names \ {n, g} : EntryFits(apps, m, k)
      BY <2>1, OtherNames DEF Fits
    <3> QED
      BY <2>2, <3>1 DEF EntryFits
  <2>4. CASE g = null
    <3>1. ReplaceNames(apps, m, id) = {m1}
      BY <1>2, <2>2, <2>4 DEF ReplaceNames
    <3>2. Fits(apps, m1)
      BY <2>1, <2>2, <2>3, <2>4, NullAssumption DEF Fits
    <3> QED
      BY <3>1, <3>2
  <2>5. CASE g # null
    <3>1. g \in Names
      BY <2>1, <2>5
    <3>2. ReplaceNames(apps, m, id) = replace_name_mapping(apps, m1, id, g, TRUE)
      BY <1>2, <2>2, <2>5 DEF ReplaceNames
    <3>3. CASE g = n
      <4>1. replace_name_mapping(apps, m1, id, g, TRUE) = {m1}
        <5>1. g \in Names /\ HasName(apps, id, g) /\ EntryFits(apps, m1, g)
          BY <2>1, <2>2, <3>3
        <5> HIDE DEF n, g
        <5>2. \A b : replace_name_mapping(apps, m1, id, g, b) = {m1}
          BY <5>1, ReplaceKnownName
        <5> QED BY <5>2, Zenon
      <4>2. Fits(apps, m1)
        BY <2>2, <2>3, <3>3 DEF Fits
      <4> QED
        BY <3>2, <4>1, <4>2
    <3>4. CASE g # n
      <4>1. EntryFits(Gone(apps, id), m1, g)
        BY <2>2, <3>1, <3>4 DEF Fits, EntryFits
      <4>2. PICK r \in MapType :
              /\ replace_name_mapping(apps, m1, id, g, TRUE) = {r}
              /\ \A k \in Names \ {g} : r[k] = m1[k]
              /\ EntryFits(apps, r, g)
        BY <2>1, <3>1, <3>4, <4>1, ReplaceNameMapping
      <4>3. \A k \in Names : EntryFits(apps, r, k)
        <5>1. \A k \in Names \ {g} : EntryFits(apps, m1, k)
          BY <2>2, <2>3
        <5> QED
          BY <4>2, <5>1 DEF EntryFits
      <4> QED
        BY <3>2, <4>2, <4>3 DEF Fits
    <3> QED
      BY <3>3, <3>4
  <2> QED
    BY <2>4, <2>5
<1> QED
  BY <1>1, <1>2

\* The constructor only ever emplaces: the ranks it has read before are not
\* higher than the one it reads, so this is what ReplaceNames does.
LEMMA CtorReplaces ==
    ASSUME NEW apps \in AppsType, NEW id \in IDs, NEW m \in MapType,
           Fits(Gone(apps, id), m), Populated(apps, id),
           \A i \in IDs : apps[i] # null => apps[i].rank <= apps[id].rank
    PROVE  LET file  == apps[id].app
               named == try_emplace(m, file.name, id, FALSE)
           IN  ReplaceNames(apps, m, id) =
                 {IF file.generic_name = null THEN named
                  ELSE try_emplace(named, file.generic_name, id, TRUE)}
<1> DEFINE n == apps[id].app.name
           g == apps[id].app.generic_name
           named == try_emplace(m, n, id, FALSE)
<1>1. n \in Names /\ g \in Names \cup {null}
  BY DEF Populated, AppsType, Managed_application, Application
<1>2. \A i \in IDs : apps[i] # null => apps[i].rank \in Nat
  BY ConstantsAssumption DEF AppsType, Managed_application, Ranks
<1>3. ASSUME NEW k \in Names, NEW m1 \in MapType, NEW b \in BOOLEAN,
             m1[k] # null => m1[k].app \in IDs /\ Populated(apps, m1[k].app)
      PROVE  replace_name_mapping(apps, m1, id, k, b) = {try_emplace(m1, k, id, b)}
  <2>1. CASE m1[k] = null
    BY <2>1 DEF replace_name_mapping
  <2>2. CASE m1[k] # null
    <3>1. ~(apps[id].rank < apps[m1[k].app].rank)
      BY <1>2, <1>3, <2>2 DEF Populated
    <3>2. replace_name_mapping(apps, m1, id, k, b) = {m1}
      BY <1>3, <2>2, <3>1 DEF replace_name_mapping
    <3> QED
      BY <2>2, <3>2 DEF try_emplace
  <2> QED
    BY <2>1, <2>2
<1>4. \A k \in Names : m[k] # null => m[k].app \in IDs /\ Populated(apps, m[k].app)
  <2>1. \A k \in Names : m[k] # null => m[k].app \in IDs
    BY DEF MapType, Resolved_application
  <2>2. \A k \in Names : m[k] # null => HasName(Gone(apps, id), m[k].app, k)
    BY DEF Fits, EntryFits
  <2>3. \A k \in Names : m[k] # null => HasName(apps, m[k].app, k)
    BY <2>1, <2>2, GoneFacts
  <2> QED
    BY <2>1, <2>3 DEF HasName
<1>5. replace_name_mapping(apps, m, id, n, FALSE) = {named}
  BY <1>1, <1>3, <1>4
<1>6. named \in MapType /\ \A k \in Names : named[k] # null =>
            named[k].app \in IDs /\ Populated(apps, named[k].app)
  <2>1. /\ named \in MapType
        /\ \A k \in Names \ {n} : named[k] = m[k]
        /\ m[n] # null => named[n] = m[n]
        /\ m[n] = null => named[n] = [app |-> id, is_generic |-> FALSE, live |-> TRUE]
    BY <1>1, TryEmplace
  <2> HIDE DEF named
  <2> QED
    BY <1>1, <1>4, <2>1
<1>7. CASE g = null
  BY <1>5, <1>7 DEF ReplaceNames
<1>8. CASE g # null
  <2>1. replace_name_mapping(apps, named, id, g, TRUE) = {try_emplace(named, g, id, TRUE)}
    <3> HIDE DEF named, g
    <3> QED BY <1>1, <1>3, <1>6, <1>8
  <2>2. ReplaceNames(apps, m, id) = replace_name_mapping(apps, named, id, g, TRUE)
    BY <1>5, <1>8 DEF ReplaceNames
  <2> QED
    BY <1>8, <2>1, <2>2
<1> QED
  BY <1>7, <1>8

-----------------------------------------------------------------------------
\* Ranks already read are not higher than the one the constructor reads: what
\* makes its try_emplace give a shared name to the lowest rank.
LoadedRanks ==
    loading \in Ranks =>
        \A id \in IDs : applications[id] # null => applications[id].rank <= loading

Inv == TypeOK /\ MappingFits /\ LoadedRanks /\ (aborted => loading \notin Ranks)

\* The containers are empty before the constructor runs.
LEMMA InitInv == Init => Inv
<1> SUFFICES ASSUME Init PROVE Inv
  OBVIOUS
<1>1. TypeOK
  <2>1. loading \in 0 .. MaxRank + 1
    BY ConstantsAssumption DEF Init
  <2>2. /\ applications \in [IDs -> Managed_application \cup {null}]
        /\ name_app_mapping \in [Names -> Resolved_application \cup {null}]
        /\ aborted \in BOOLEAN
    BY DEF Init
  <2> QED BY <2>1, <2>2 DEF TypeOK
<1>2. MappingFits
  BY DEF Init, MappingFits, EntryFits, HasName, Populated
<1>3. LoadedRanks /\ (aborted => loading \notin Ranks)
  BY DEF Init, LoadedRanks
<1> QED
  BY <1>1, <1>2, <1>3 DEF Inv

\* The part of Inv that remove() and add() put at risk: after the old application
\* of element id is taken out and new is put in, nothing but a mapping that fits
\* is left, and abort() has been called only for a repeated name.
LEMMA OverwrittenFits ==
    ASSUME Inv, NEW id \in IDs, NEW new \in Managed_application \cup {null}
    PROVE  LET apps == [applications EXCEPT ![id] = new]
           IN  /\ apps \in AppsType
               /\ \A r \in Overwritten(id, new) : r \in MapType /\ Fits(apps, r)
               /\ Overwritten(id, new) = {} =>
                    RemoveNames(applications, name_app_mapping, id) = {}
<1> DEFINE apps == [applications EXCEPT ![id] = new]
<1>1. /\ applications \in AppsType /\ name_app_mapping \in MapType
      /\ Fits(applications, name_app_mapping)
  BY DEF Inv, TypeOK, AppsType, MapType, MappingFits, Fits
<1>2. apps \in AppsType
  BY <1>1 DEF AppsType
<1>3. Gone(apps, id) = Gone(applications, id)
  BY <1>1 DEF Gone, AppsType
<1> HIDE DEF apps
<1>4. ASSUME NEW m \in RemoveNames(applications, name_app_mapping, id)
      PROVE  \E r \in MapType : ReplaceNames(apps, Expire(m, id), id) = {r} /\ Fits(apps, r)
  <2>1. m \in MapType /\ Fits(Gone(apps, id), m) /\ Expire(m, id) = m
    BY <1>1, <1>3, RemoveNamesFits
  <2> QED
    BY <1>2, <2>1, ReplaceNamesFits
<1>5. Overwritten(id, new) = UNION {ReplaceNames(apps, Expire(m, id), id) :
                                m \in RemoveNames(applications, name_app_mapping, id)}
  BY DEF Overwritten, apps
<1>6. \A r \in Overwritten(id, new) : r \in MapType /\ Fits(apps, r)
  BY <1>4, <1>5
<1>7. Overwritten(id, new) = {} => RemoveNames(applications, name_app_mapping, id) = {}
  BY <1>4, <1>5
<1> QED
  BY <1>2, <1>6, <1>7 DEF apps

\* remove() is an add() that leaves nothing behind.
LEMMA RemoveOverwrites ==
    ASSUME Inv, NEW id \in IDs
    PROVE  {Expire(m, id) : m \in RemoveNames(applications, name_app_mapping, id)}
              = Overwritten(id, null)
<1> DEFINE apps == [applications EXCEPT ![id] = null]
<1>1. ~Populated(apps, id)
  BY DEF Inv, TypeOK, Populated
<1>2. \A m : ReplaceNames(apps, m, id) = {m}
  BY <1>1 DEF ReplaceNames
<1> HIDE DEF apps
<1>3. Overwritten(id, null) = UNION {ReplaceNames(apps, Expire(m, id), id) :
                                m \in RemoveNames(applications, name_app_mapping, id)}
  BY DEF Overwritten, apps
<1> QED
  BY <1>2, <1>3

\* remove() and add() keep the invariant when each outcome they may have fits the
\* applications they leave.
LEMMA CommitInv ==
    ASSUME Inv, NEW id \in IDs, NEW new \in Managed_application \cup {null},
           Running, UNCHANGED loading,
           Commit([applications EXCEPT ![id] = new], Overwritten(id, new))
    PROVE  Inv'
<1> DEFINE apps == [applications EXCEPT ![id] = new]
<1>1. loading \notin Ranks /\ loading' = loading
  BY ConstantsAssumption DEF Running, Ranks
<1>2. CASE Overwritten(id, new) = {} /\ aborted' = TRUE
           /\ UNCHANGED <<applications, name_app_mapping>>
  <2>1. TypeOK' /\ MappingFits'
    BY <1>1, <1>2 DEF Inv, TypeOK, MappingFits
  <2> QED
    BY <1>1, <2>1 DEF Inv, LoadedRanks
<1>3. CASE /\ name_app_mapping' \in Overwritten(id, new)
           /\ applications' = apps
           /\ UNCHANGED aborted
  <2>1. /\ apps \in AppsType
        /\ name_app_mapping' \in MapType /\ Fits(apps, name_app_mapping')
    BY <1>3, OverwrittenFits
  <2>2. TypeOK'
    BY <1>1, <1>3, <2>1 DEF Inv, TypeOK, AppsType, MapType
  <2>3. MappingFits'
    <3> HIDE DEF apps
    <3> QED BY <1>3, <2>1 DEF MappingFits, Fits
  <2> QED
    BY <1>1, <2>2, <2>3 DEF Inv, LoadedRanks
<1> QED
  BY <1>2, <1>3 DEF Commit

\* An iteration of the constructor either skips the file, or it fills the empty
\* element: its names then go into the mapping the way ReplaceNames() puts them
\* (a disabled file has none).
LEMMA CtorLoadReplaces ==
    ASSUME Inv, NEW id \in IDs, NEW file \in DesktopFile, ctor_load(id, file)
    PROVE  \/ UNCHANGED <<applications, name_app_mapping>>
           \/ \E new \in Managed_application :
                 /\ new.rank = loading /\ applications[id] = null
                 /\ applications' = [applications EXCEPT ![id] = new]
                 /\ ReplaceNames(applications', name_app_mapping, id) = {name_app_mapping'}
<1>1. loading \in Ranks
  BY DEF ctor_load
<1>2. CASE UNCHANGED <<applications, name_app_mapping>>
  BY <1>2
<1>4. CASE /\ ~Skipped(id, file) /\ file = disabled_error
           /\ applications' = [applications EXCEPT ![id] = [app |-> null, rank |-> loading]]
           /\ UNCHANGED name_app_mapping
  <2> DEFINE new == [app |-> null, rank |-> loading]
  <2>1. new \in Managed_application /\ new.rank = loading /\ new.app = null
    BY <1>1 DEF Managed_application
  <2> HIDE DEF new
  <2>2. applications[id] = null /\ applications' = [applications EXCEPT ![id] = new]
    BY <1>4 DEF Skipped, new
  <2>3. ~Populated(applications', id)
    BY <2>1, <2>2 DEF Populated, Inv, TypeOK
  <2>4. ReplaceNames(applications', name_app_mapping, id) = {name_app_mapping'}
    BY <1>4, <2>3 DEF ReplaceNames
  <2> QED
    BY <2>1, <2>2, <2>4
<1>5. CASE /\ ~Skipped(id, file) /\ file \in Application
           /\ applications' = [applications EXCEPT ![id] = [app |-> file, rank |-> loading]]
           /\ LET named == try_emplace(name_app_mapping, file.name, id, FALSE)
              IN  name_app_mapping' =
                     IF file.generic_name = null THEN named
                     ELSE try_emplace(named, file.generic_name, id, TRUE)
  <2> DEFINE apps == applications'
  <2>1. applications[id] = null
    BY <1>5 DEF Skipped
  <2>2. /\ applications \in AppsType /\ name_app_mapping \in MapType
        /\ Fits(applications, name_app_mapping)
    BY DEF Inv, TypeOK, AppsType, MapType, MappingFits, Fits
  <2>3. [app |-> file, rank |-> loading] \in Managed_application
    BY <1>1, <1>5 DEF Managed_application
  <2>4. /\ apps \in AppsType
        /\ Gone(apps, id) = applications
        /\ apps[id] = [app |-> file, rank |-> loading]
        /\ \A i \in IDs \ {id} : apps[i] = applications[i]
    BY <1>5, <2>1, <2>2, <2>3 DEF AppsType, Gone
  <2>5. Populated(apps, id)
    BY <1>5, <2>3, <2>4, NullAssumption DEF Populated
  <2>6. \A i \in IDs : apps[i] # null => apps[i].rank <= apps[id].rank
    BY <1>1, <2>4, ConstantsAssumption DEF Inv, LoadedRanks, Ranks
  <2>7. ReplaceNames(apps, name_app_mapping, id) = {name_app_mapping'}
    <3>1. apps[id].app = file
      BY <2>4
    <3>2. name_app_mapping' =
            LET named == try_emplace(name_app_mapping, apps[id].app.name, id, FALSE)
            IN  IF apps[id].app.generic_name = null THEN named
                ELSE try_emplace(named, apps[id].app.generic_name, id, TRUE)
      BY <1>5, <3>1
    <3> HIDE DEF apps
    <3> QED
      BY <2>2, <2>4, <2>5, <2>6, <3>2, CtorReplaces
  <2> DEFINE new == [app |-> file, rank |-> loading]
  <2>8. /\ new \in Managed_application /\ new.rank = loading
        /\ applications' = [applications EXCEPT ![id] = new]
    BY <1>5, <2>3
  <2> HIDE DEF new
  <2> QED
    BY <2>1, <2>7, <2>8
<1> QED
  BY <1>2, <1>4, <1>5 DEF ctor_load

\* An iteration of the constructor keeps the invariant.
LEMMA CtorLoadInv ==
    ASSUME Inv, NEW id \in IDs, NEW file \in DesktopFile, ctor_load(id, file)
    PROVE  Inv'
<1>1. /\ loading \in Ranks /\ loading' = loading /\ aborted' = aborted
      /\ loading \in Nat /\ loading <= MaxRank
  BY ConstantsAssumption DEF ctor_load, Ranks
<1>2. CASE UNCHANGED <<applications, name_app_mapping>>
  BY <1>1, <1>2 DEF Inv, TypeOK, MappingFits, LoadedRanks
<1>3. ASSUME NEW new \in Managed_application, new.rank = loading, applications[id] = null,
             applications' = [applications EXCEPT ![id] = new],
             ReplaceNames(applications', name_app_mapping, id) = {name_app_mapping'}
      PROVE  Inv'
  <2> DEFINE apps == applications'
  <2>1. /\ applications \in AppsType /\ name_app_mapping \in MapType
        /\ Fits(applications, name_app_mapping)
    BY DEF Inv, TypeOK, AppsType, MapType, MappingFits, Fits
  <2>3. /\ apps \in AppsType
        /\ Gone(apps, id) = applications
    BY <1>3, <2>1 DEF AppsType, Gone
  <2>4. ReplaceNames(apps, name_app_mapping, id) = {name_app_mapping'}
    BY <1>3
  <2>5. name_app_mapping' \in MapType /\ Fits(apps, name_app_mapping')
    <3> HIDE DEF apps
    <3> QED BY <2>1, <2>3, <2>4, ReplaceNamesFits
  <2>6. LoadedRanks'
    BY <1>1, <1>3, <2>1 DEF Inv, LoadedRanks, AppsType
  <2>7. TypeOK' /\ MappingFits'
    BY <1>1, <2>3, <2>5 DEF Inv, TypeOK, AppsType, MapType, MappingFits, Fits
  <2> QED
    BY <1>1, <2>6, <2>7 DEF Inv
<1> QED
  BY <1>2, <1>3, CtorLoadReplaces

\* Every call of AppManager keeps the invariant.
LEMMA NextInv == Inv /\ [Next]_vars => Inv'
<1> SUFFICES ASSUME Inv, [Next]_vars PROVE Inv'
  OBVIOUS
<1>1. CASE ctor_next_rank
  <2>1. loading \in Nat /\ loading <= MaxRank /\ loading' = loading + 1
    BY <1>1, ConstantsAssumption DEF ctor_next_rank, Ranks
  <2>2. TypeOK' /\ MappingFits' /\ aborted' = aborted /\ applications' = applications
    BY <1>1, <2>1, ConstantsAssumption DEF ctor_next_rank, Inv, TypeOK, MappingFits
  <2>3. ~aborted
    BY <1>1 DEF ctor_next_rank, Inv
  <2>4. LoadedRanks'
    <3>1. \A id \in IDs : applications[id] # null =>
              applications[id].rank \in Nat /\ applications[id].rank <= loading
      BY <1>1, ConstantsAssumption
      DEF ctor_next_rank, Inv, TypeOK, Managed_application, Ranks, LoadedRanks
    <3> QED
      BY <2>1, <2>2, <3>1 DEF LoadedRanks
  <2> QED
    BY <2>2, <2>3, <2>4 DEF Inv
<1>2. CASE \E id \in IDs, file \in DesktopFile : ctor_load(id, file)
  BY <1>2, CtorLoadInv
<1>3. ASSUME NEW id \in IDs, remove(id)
      PROVE  Inv'
  <2>1. CASE UNCHANGED <<applications, name_app_mapping, aborted>>
    BY <1>3, <2>1 DEF remove, Inv, TypeOK, MappingFits, LoadedRanks
  <2>2. CASE Commit([applications EXCEPT ![id] = null], Overwritten(id, null))
    BY <1>3, <2>2, CommitInv DEF remove
  <2> QED
    BY <1>3, <2>1, <2>2, RemoveOverwrites DEF remove
<1>4. ASSUME NEW id \in IDs, NEW rank \in Ranks, NEW file \in DesktopFile,
             add(id, rank, file)
      PROVE  Inv'
  <2> DEFINE new == [app |-> IF file = disabled_error THEN null ELSE file, rank |-> rank]
  <2>1. CASE UNCHANGED <<applications, name_app_mapping, aborted>>
    BY <1>4, <2>1 DEF add, Inv, TypeOK, MappingFits, LoadedRanks
  <2>2. CASE /\ file # invalid_error
             /\ Commit([applications EXCEPT ![id] = new], Overwritten(id, new))
    <3>1. new \in Managed_application
      BY <2>2 DEF Managed_application, DesktopFile
    <3> HIDE DEF new
    <3> QED
      BY <1>4, <2>2, <3>1, CommitInv DEF add
  <2> QED
    BY <1>4, <2>1, <2>2 DEF add
<1>5. CASE UNCHANGED vars
  BY <1>5 DEF vars, Inv, TypeOK, MappingFits, LoadedRanks
<1> QED
  BY <1>1, <1>2, <1>3, <1>4, <1>5 DEF Next

\* Every state the container can be in satisfies the inductive invariant.
THEOREM AlwaysInv == Spec => []Inv
<1> QED
  BY InitInv, NextInv, PTL DEF Spec

\* Type correctness, for any IDs, names and ranks.
THEOREM TypeCorrect == Spec => []TypeOK
<1>1. Inv => TypeOK
  BY DEF Inv
<1> QED
  BY AlwaysInv, <1>1, PTL

\* name_app_mapping fits the applications after any sequence of additions and
\* removals: no dangling entry, no missing name, the lowest rank owns a name.
THEOREM MappingAlwaysFits == Spec => []MappingFits
<1>1. Inv => MappingFits
  BY DEF Inv
<1> QED
  BY AlwaysInv, <1>1, PTL

\* A call that ends in abort() was made for an application with a repeated name.
LEMMA CommitAborts ==
    ASSUME Inv, NEW id \in IDs, NEW new \in Managed_application \cup {null},
           Overwritten(id, new) = {}, UNCHANGED applications
    PROVE  AbortOnlyOnRepeatedName'
<1>1. RemoveNames(applications, name_app_mapping, id) = {}
  BY OverwrittenFits
<1>2. /\ Populated(applications, id)
      /\ applications[id].app.name = applications[id].app.generic_name
      /\ Replacements(applications, id, applications[id].app.name) = {}
  BY <1>1, RemoveNamesAborts
  DEF Inv, TypeOK, AppsType, MapType, MappingFits, Fits
<1> QED
  BY <1>2 DEF AbortOnlyOnRepeatedName

\* A step that reaches abort() was taken in a state with such an application.
LEMMA NextAborts ==
    Inv /\ AbortOnlyOnRepeatedName /\ [Next]_vars => AbortOnlyOnRepeatedName'
<1> SUFFICES ASSUME Inv, AbortOnlyOnRepeatedName, [Next]_vars, aborted'
             PROVE  AbortOnlyOnRepeatedName'
  BY DEF AbortOnlyOnRepeatedName
<1>1. CASE aborted
  <2>1. ~Running /\ loading \notin Ranks
    BY <1>1 DEF Running, Inv
  <2>2. UNCHANGED vars
    BY <2>1 DEF Next, ctor_next_rank, ctor_load, remove, add
  <2> QED
    BY <2>2 DEF vars, AbortOnlyOnRepeatedName
<1>2. CASE ~aborted
  <2>1. ~ctor_next_rank /\ ~(\E id \in IDs, file \in DesktopFile : ctor_load(id, file))
    BY <1>2 DEF ctor_next_rank, ctor_load
  <2>2. ASSUME NEW id \in IDs, remove(id)
        PROVE  AbortOnlyOnRepeatedName'
    <3>1. Commit([applications EXCEPT ![id] = null], Overwritten(id, null))
      BY <1>2, <2>2, RemoveOverwrites DEF remove
    <3>2. Overwritten(id, null) = {} /\ UNCHANGED applications
      BY <1>2, <3>1 DEF Commit
    <3> QED
      BY <3>2, CommitAborts
  <2>3. ASSUME NEW id \in IDs, NEW rank \in Ranks, NEW file \in DesktopFile,
               add(id, rank, file)
        PROVE  AbortOnlyOnRepeatedName'
    <3> DEFINE new == [app |-> IF file = disabled_error THEN null ELSE file, rank |-> rank]
    <3>1. /\ file # invalid_error
          /\ Commit([applications EXCEPT ![id] = new], Overwritten(id, new))
      BY <1>2, <2>3 DEF add
    <3>2. new \in Managed_application
      BY <3>1 DEF Managed_application, DesktopFile
    <3> HIDE DEF new
    <3>3. Overwritten(id, new) = {} /\ UNCHANGED applications
      BY <1>2, <3>1 DEF Commit
    <3> QED
      BY <3>2, <3>3, CommitAborts
  <2>4. ~UNCHANGED vars
    BY <1>2 DEF vars
  <2> QED
    BY <2>1, <2>2, <2>3, <2>4 DEF Next
<1> QED
  BY <1>1, <1>2

\* The only way to the abort() calls of remove_name_mapping() and
\* replace_name_mapping() is an application whose Name is also its GenericName.
THEOREM AbortsOnlyOnRepeatedName == Spec => []AbortOnlyOnRepeatedName
<1>1. Init => AbortOnlyOnRepeatedName
  BY DEF Init, AbortOnlyOnRepeatedName
<1> QED
  BY AlwaysInv, <1>1, NextAborts, PTL DEF Spec

-----------------------------------------------------------------------------
(***************************************************************************)
(* AppManager implements Catalogue.  The mapping fits the applications     *)
(* before and after a call by Inv; what is left to show is that a call     *)
(* made for one element leaves every name of the others with its owner, or *)
(* gives it to that element for its rank.                                  *)
(***************************************************************************)

\* remove_name_mapping() does not touch the names that other elements own.
LEMMA RemoveNameKeeps ==
    ASSUME NEW apps \in AppsType, NEW id \in IDs, NEW m \in MapType,
           NEW n \in Names, HasName(apps, id, n),
           NEW r \in remove_name_mapping(apps, m, id, n)
    PROVE  \A k \in Names : m[k] # null /\ m[k].app # id => r[k] = m[k]
<1>1. m[n] # null /\ m[n].app # id => r = m
  BY DEF remove_name_mapping
<1>2. \A k \in Names \ {n} : r[k] = m[k]
  BY RemoveNameMapping
<1> QED
  BY <1>1, <1>2

\* Taking the application of element id out leaves the others their names.
LEMMA RemoveNamesKeeps ==
    ASSUME NEW apps \in AppsType, NEW id \in IDs, NEW m \in MapType,
           NEW r \in RemoveNames(apps, m, id)
    PROVE  \A k \in Names : m[k] # null /\ m[k].app # id => r[k] = m[k]
<1>1. CASE ~Populated(apps, id)
  BY <1>1 DEF RemoveNames
<1>2. CASE Populated(apps, id)
  <2> DEFINE n == apps[id].app.name
             g == apps[id].app.generic_name
  <2>1. /\ n \in Names /\ g \in Names \cup {null}
        /\ HasName(apps, id, n) /\ HasName(apps, id, g)
    BY <1>2 DEF Populated, HasName, AppsType, Managed_application, Application
  <2>2. CASE g = null
    <3>1. r \in remove_name_mapping(apps, m, id, n)
      BY <1>2, <2>2 DEF RemoveNames
    <3> HIDE DEF n, g
    <3> QED BY <2>1, <3>1, RemoveNameKeeps
  <2>3. CASE g # null
    <3>1. PICK m1 \in remove_name_mapping(apps, m, id, n) :
            r \in remove_name_mapping(apps, m1, id, g)
      BY <1>2, <2>3 DEF RemoveNames
    <3> HIDE DEF n, g
    <3>2. m1 \in MapType /\ \A k \in Names : m[k] # null /\ m[k].app # id => m1[k] = m[k]
      BY <2>1, RemoveNameMapping, RemoveNameKeeps
    <3>3. \A k \in Names : m1[k] # null /\ m1[k].app # id => r[k] = m1[k]
      BY <2>1, <2>3, <3>1, <3>2, RemoveNameKeeps
    <3> QED BY <3>2, <3>3
  <2> QED BY <2>2, <2>3
<1> QED
  BY <1>1, <1>2

-----------------------------------------------------------------------------
\* The entry e is left alone, or it now belongs to element id, whose rank is lower
\* than that of the element it belonged to.
TakesOver(apps, id, e, f) ==
    \/ f = e
    \/ f.app = id /\ apps[id].rank < apps[e.app].rank

\* replace_name_mapping() gives a name to the application only if its rank is lower.
LEMMA ReplaceNameTakesOver ==
    ASSUME NEW apps \in AppsType, NEW id \in IDs, NEW m \in MapType,
           NEW n \in Names, NEW g \in BOOLEAN,
           NEW r \in replace_name_mapping(apps, m, id, n, g)
    PROVE  /\ r \in MapType
           /\ \A k \in Names : m[k] # null =>
                 r[k] # null /\ TakesOver(apps, id, m[k], r[k])
<1> DEFINE erased == [m EXCEPT ![n] = null]
<1>1. erased \in MapType /\ erased[n] = null /\ \A k \in Names \ {n} : erased[k] = m[k]
  BY DEF MapType
<1>2. CASE m[n] = null
  <2>1. r = try_emplace(m, n, id, g)
    BY <1>2 DEF replace_name_mapping
  <2>2. r \in MapType /\ \A k \in Names \ {n} : r[k] = m[k]
    <3> DEFINE t == try_emplace(m, n, id, g)
    <3>1. t \in MapType /\ \A k \in Names \ {n} : t[k] = m[k]
      BY TryEmplace
    <3>2. r = t
      BY <2>1
    <3> HIDE DEF t
    <3> QED BY <3>1, <3>2
  <2> QED
    BY <1>2, <2>2 DEF TakesOver
<1>3. CASE m[n] # null /\ r = m
  BY <1>3 DEF TakesOver
<1>4. CASE m[n] # null /\ r # m
  <2>1. r = try_emplace(erased, n, id, g) /\ apps[id].rank < apps[m[n].app].rank
    BY <1>4 DEF replace_name_mapping
  <2> HIDE DEF erased
  <2>2. /\ r \in MapType /\ \A k \in Names \ {n} : r[k] = m[k]
        /\ r[n] # null
        /\ r[n] = [app |-> id, is_generic |-> g, live |-> TRUE]
    BY <1>1, <2>1, TryEmplace
  <2>3. r[n].app = id
    BY <2>2
  <2> QED
    BY <2>1, <2>2, <2>3 DEF TakesOver
<1> QED
  BY <1>2, <1>3, <1>4

\* The same for both names of the application: the second call does not take back
\* what the first one gave, also when the names are the same string.
LEMMA ReplaceNamesTakeOver ==
    ASSUME NEW apps \in AppsType, NEW id \in IDs, NEW m \in MapType,
           NEW r \in ReplaceNames(apps, m, id)
    PROVE  \A k \in Names : m[k] # null =>
               r[k] # null /\ TakesOver(apps, id, m[k], r[k])
<1>1. CASE ~Populated(apps, id)
  BY <1>1 DEF ReplaceNames, TakesOver
<1>2. CASE Populated(apps, id)
  <2> DEFINE n == apps[id].app.name
             g == apps[id].app.generic_name
  <2>1. n \in Names /\ g \in Names \cup {null} /\ apps[id].rank \in Nat
    BY <1>2, ConstantsAssumption
    DEF Populated, AppsType, Managed_application, Application, Ranks
  <2>2. CASE g = null
    <3>1. r \in replace_name_mapping(apps, m, id, n, FALSE)
      BY <1>2, <2>2 DEF ReplaceNames
    <3> HIDE DEF n, g
    <3> QED BY <2>1, <3>1, ReplaceNameTakesOver
  <2>3. CASE g # null
    <3>1. PICK m1 \in replace_name_mapping(apps, m, id, n, FALSE) :
            r \in replace_name_mapping(apps, m1, id, g, TRUE)
      BY <1>2, <2>3 DEF ReplaceNames
    <3> HIDE DEF n, g
    <3>2. m1 \in MapType /\ \A k \in Names : m[k] # null =>
              m1[k] # null /\ TakesOver(apps, id, m[k], m1[k])
      BY <2>1, ReplaceNameTakesOver
    <3>3. \A k \in Names : m1[k] # null =>
              r[k] # null /\ TakesOver(apps, id, m1[k], r[k])
      BY <2>1, <2>3, <3>1, <3>2, ReplaceNameTakesOver
    <3> QED BY <2>1, <3>2, <3>3 DEF TakesOver
  <2> QED BY <2>2, <2>3
<1> QED
  BY <1>1, <1>2

-----------------------------------------------------------------------------
\* A call changes the applications to apps and the mapping to m, and the elements
\* other than id lose a name to id only, and only for its rank.
Replaced(id, apps, m) ==
    \A k \in Names : name_app_mapping[k] # null /\ name_app_mapping[k].app # id =>
        m[k] # null /\ TakesOver(apps, id, name_app_mapping[k], m[k])

\* Such a call is a step of the catalogue.
LEMMA ReplacedIsChange ==
    ASSUME Inv, Inv', NEW id \in IDs,
           \A i \in IDs \ {id} : applications'[i] = applications[i],
           Replaced(id, applications', name_app_mapping')
    PROVE  Catalogue!Change(id)
<1> DEFINE A == Offered_applications
           O == Owners
<1>1. /\ applications \in AppsType /\ applications' \in AppsType
      /\ name_app_mapping \in MapType /\ name_app_mapping' \in MapType
  BY DEF Inv, TypeOK, AppsType, MapType
<1>2. ASSUME NEW i \in IDs
      PROVE  /\ A[i] # null <=> Populated(applications, i)
             /\ A'[i] # null <=> Populated(applications', i)
             /\ Populated(applications, i) => A[i].rank = applications[i].rank
             /\ Populated(applications', i) => A'[i].rank = applications'[i].rank
             /\ \A n \in Names : HasName(applications, i, n) <=> A[i] # null /\ n \in A[i].names
             /\ \A n \in Names : HasName(applications', i, n) <=> A'[i] # null /\ n \in A'[i].names
  <2>1. ASSUME NEW apps \in AppsType
        PROVE  LET e == [names |-> {apps[i].app.name, apps[i].app.generic_name} \ {null},
                         rank |-> apps[i].rank]
                   a == IF Populated(apps, i) THEN e ELSE null
               IN  /\ a # null <=> Populated(apps, i)
                   /\ Populated(apps, i) => a.rank = apps[i].rank
                   /\ \A n \in Names : HasName(apps, i, n) <=> a # null /\ n \in a.names
    <3> DEFINE e == [names |-> {apps[i].app.name, apps[i].app.generic_name} \ {null},
                     rank |-> apps[i].rank]
    <3>1. CASE Populated(apps, i)
      <4>1. e.names \in SUBSET Names /\ e.rank \in Ranks
        BY <3>1 DEF Populated, AppsType, Managed_application, Application
      <4>2. e \in [names: SUBSET Names, rank: Ranks]
        BY <4>1
      <4>3. e # null
        <5> HIDE DEF e
        <5> QED BY <4>2, NullAssumption
      <4>4. \A n \in Names : HasName(apps, i, n) <=> n \in e.names
        BY <3>1, NullAssumption DEF HasName
      <4> QED BY <3>1, <4>3, <4>4
    <3>2. CASE ~Populated(apps, i)
      BY <3>2 DEF HasName
    <3> QED BY <3>1, <3>2
  <2>2. /\ A[i] = IF Populated(applications, i)
                  THEN [names |-> {applications[i].app.name, applications[i].app.generic_name} \ {null},
                        rank |-> applications[i].rank]
                  ELSE null
        /\ A'[i] = IF Populated(applications', i)
                  THEN [names |-> {applications'[i].app.name, applications'[i].app.generic_name} \ {null},
                        rank |-> applications'[i].rank]
                  ELSE null
    BY DEF Offered_applications, Populated
  <2> HIDE DEF A
  <2>3. /\ A[i] # null <=> Populated(applications, i)
        /\ Populated(applications, i) => A[i].rank = applications[i].rank
        /\ \A n \in Names : HasName(applications, i, n) <=> A[i] # null /\ n \in A[i].names
    BY <1>1, <2>1, <2>2
  <2>4. /\ A'[i] # null <=> Populated(applications', i)
        /\ Populated(applications', i) => A'[i].rank = applications'[i].rank
        /\ \A n \in Names : HasName(applications', i, n) <=> A'[i] # null /\ n \in A'[i].names
    BY <1>1, <2>1, <2>2
  <2> QED BY <2>3, <2>4
<1>3. ASSUME NEW n \in Names
      PROVE  /\ O[n] = IF name_app_mapping[n] = null THEN null ELSE name_app_mapping[n].app
             /\ O'[n] = IF name_app_mapping'[n] = null THEN null ELSE name_app_mapping'[n].app
             /\ O[n] # null <=> name_app_mapping[n] # null
             /\ O'[n] # null <=> name_app_mapping'[n] # null
             /\ O[n] \in IDs \cup {null}
             /\ O'[n] \in IDs \cup {null}
  <2>1. /\ O[n] = IF name_app_mapping[n] = null THEN null ELSE name_app_mapping[n].app
        /\ O'[n] = IF name_app_mapping'[n] = null THEN null ELSE name_app_mapping'[n].app
    BY DEF Owners
  <2> HIDE DEF O
  <2>2. /\ name_app_mapping[n] # null => name_app_mapping[n].app \in IDs
        /\ name_app_mapping'[n] # null => name_app_mapping'[n].app \in IDs
    BY <1>1 DEF MapType, Resolved_application
  <2> QED BY <2>1, <2>2, NullAssumption
<1>4. \A i \in IDs \ {id} : A'[i] = A[i]
  BY DEF Offered_applications, Populated
<1>5. ASSUME NEW n \in Names
      PROVE  Catalogue!Owns(A', O'[n], n)
  <2>1. EntryFits(applications', name_app_mapping', n)
    BY DEF Inv, MappingFits
  <2>2. Catalogue!Claimants(A', n) = {i \in IDs : HasName(applications', i, n)}
    <3> HIDE DEF A
    <3> QED BY <1>2 DEF Catalogue!Claimants
  <2> HIDE DEF A, O
  <2>3. CASE name_app_mapping'[n] = null
    <3>1. Catalogue!Claimants(A', n) = {} /\ O'[n] = null
      BY <1>3, <2>1, <2>2, <2>3 DEF EntryFits
    <3> QED BY <3>1 DEF Catalogue!Owns
  <2>4. CASE name_app_mapping'[n] # null
    <3>1. /\ O'[n] # null /\ O'[n] \in IDs
          /\ O'[n] \in Catalogue!Claimants(A', n)
          /\ \A i \in Catalogue!Claimants(A', n) :
                applications'[O'[n]].rank <= applications'[i].rank
      BY <1>3, <2>1, <2>2, <2>4 DEF EntryFits
    <3>2. \A i \in Catalogue!Claimants(A', n) : A'[i].rank = applications'[i].rank
      BY <1>2, <2>2 DEF HasName
    <3> QED BY <3>1, <3>2 DEF Catalogue!Owns
  <2> QED BY <2>3, <2>4
<1>6. ASSUME NEW n \in Names, O[n] \notin {null, id, O'[n]}
      PROVE  O'[n] = id /\ A'[id].rank < A[O[n]].rank
  <2> DEFINE o == name_app_mapping[n].app
  <2> HIDE DEF A, O
  <2>1. name_app_mapping[n] # null /\ O[n] = o /\ o # id /\ o \in IDs
    BY <1>3, <1>6
  <2>2. /\ name_app_mapping'[n] # null
        /\ TakesOver(applications', id, name_app_mapping[n], name_app_mapping'[n])
    BY <2>1 DEF Replaced
  <2>3. name_app_mapping'[n].app = id /\ applications'[id].rank < applications'[o].rank
    BY <1>3, <1>6, <2>1, <2>2 DEF TakesOver
  <2>4. O'[n] = id
    BY <1>3, <2>2, <2>3
  <2>5. HasName(applications, o, n) /\ HasName(applications', id, n)
    <3>1. EntryFits(applications, name_app_mapping, n) /\ EntryFits(applications', name_app_mapping', n)
      BY DEF Inv, MappingFits
    <3> QED BY <2>1, <2>2, <2>3, <3>1 DEF EntryFits
  <2>6. A[o].rank = applications[o].rank /\ A'[id].rank = applications'[id].rank
    BY <1>2, <2>1, <2>5 DEF HasName
  <2> QED
    BY <2>1, <2>3, <2>4, <2>6
<1> QED
  BY <1>4, <1>5, <1>6 DEF Catalogue!Change

\* What remove() and add() leave when they put new into element id.
LEMMA OverwrittenReplaced ==
    ASSUME Inv, NEW id \in IDs, NEW new \in Managed_application \cup {null},
           NEW r \in Overwritten(id, new)
    PROVE  Replaced(id, [applications EXCEPT ![id] = new], r)
<1> DEFINE apps == [applications EXCEPT ![id] = new]
<1>1. /\ applications \in AppsType /\ name_app_mapping \in MapType
      /\ Fits(applications, name_app_mapping)
  BY DEF Inv, TypeOK, AppsType, MapType, MappingFits, Fits
<1>2. apps \in AppsType
  BY <1>1 DEF AppsType
<1>3. PICK m \in RemoveNames(applications, name_app_mapping, id) :
        r \in ReplaceNames(apps, Expire(m, id), id)
  BY DEF Overwritten
<1> HIDE DEF apps
<1>4. m \in MapType /\ Expire(m, id) = m
  BY <1>1, RemoveNamesFits
<1>5. \A k \in Names : name_app_mapping[k] # null /\ name_app_mapping[k].app # id =>
          m[k] = name_app_mapping[k]
  BY <1>1, RemoveNamesKeeps
<1>6. \A k \in Names : m[k] # null => r[k] # null /\ TakesOver(apps, id, m[k], r[k])
  BY <1>2, <1>3, <1>4, ReplaceNamesTakeOver
<1>7. Replaced(id, apps, r)
  BY <1>5, <1>6 DEF Replaced
<1> QED
  BY <1>7 DEF apps

\* A call of remove() or add() that reaches Commit is a step of the catalogue.
LEMMA CommitIsChange ==
    ASSUME Inv, Inv', NEW id \in IDs, NEW new \in Managed_application \cup {null},
           Commit([applications EXCEPT ![id] = new], Overwritten(id, new))
    PROVE  \/ UNCHANGED <<applications, name_app_mapping>>
           \/ Catalogue!Change(id)
<1>1. CASE UNCHANGED <<applications, name_app_mapping>>
  BY <1>1
<1>2. CASE /\ name_app_mapping' \in Overwritten(id, new)
           /\ applications' = [applications EXCEPT ![id] = new]
  <2>1. Replaced(id, applications', name_app_mapping')
    BY <1>2, OverwrittenReplaced
  <2>2. \A i \in IDs \ {id} : applications'[i] = applications[i]
    BY <1>2 DEF Inv, TypeOK
  <2> QED
    BY <2>1, <2>2, ReplacedIsChange
<1> QED
  BY <1>1, <1>2 DEF Commit

\* Every call is a step of the catalogue or leaves it alone.
LEMMA NextIsCatalogue ==
    Inv /\ Inv' /\ [Next]_vars => [Catalogue!Next]_<<Offered_applications, Owners>>
<1> SUFFICES ASSUME Inv, Inv', [Next]_vars
             PROVE  \/ UNCHANGED <<applications, name_app_mapping>>
                    \/ \E id \in IDs : Catalogue!Change(id)
  BY DEF Catalogue!Next, Offered_applications, Owners, Populated
<1>1. CASE ctor_next_rank
  BY <1>1 DEF ctor_next_rank
<1>2. ASSUME NEW id \in IDs, NEW file \in DesktopFile, ctor_load(id, file),
             ~UNCHANGED <<applications, name_app_mapping>>
      PROVE  Catalogue!Change(id)
  <2>1. PICK new \in Managed_application :
            /\ applications' = [applications EXCEPT ![id] = new]
            /\ ReplaceNames(applications', name_app_mapping, id) = {name_app_mapping'}
    BY <1>2, CtorLoadReplaces
  <2>2. applications' \in AppsType /\ name_app_mapping \in MapType
    BY DEF Inv, TypeOK, AppsType, MapType
  <2>3. Replaced(id, applications', name_app_mapping')
    <3>1. name_app_mapping' \in ReplaceNames(applications', name_app_mapping, id)
      BY <2>1
    <3>2. \A k \in Names : name_app_mapping[k] # null =>
              /\ name_app_mapping'[k] # null
              /\ TakesOver(applications', id, name_app_mapping[k], name_app_mapping'[k])
      BY <2>2, <3>1, ReplaceNamesTakeOver
    <3> QED BY <3>2 DEF Replaced
  <2>4. \A i \in IDs \ {id} : applications'[i] = applications[i]
    BY <2>1 DEF Inv, TypeOK
  <2> QED
    BY <2>3, <2>4, ReplacedIsChange
<1>3. ASSUME NEW id \in IDs, remove(id), ~UNCHANGED <<applications, name_app_mapping>>
      PROVE  Catalogue!Change(id)
  <2>1. Commit([applications EXCEPT ![id] = null], Overwritten(id, null))
    BY <1>3, RemoveOverwrites DEF remove
  <2> QED
    BY <1>3, <2>1, CommitIsChange
<1>4. ASSUME NEW id \in IDs, NEW rank \in Ranks, NEW file \in DesktopFile,
             add(id, rank, file), ~UNCHANGED <<applications, name_app_mapping>>
      PROVE  Catalogue!Change(id)
  <2> DEFINE new == [app |-> IF file = disabled_error THEN null ELSE file, rank |-> rank]
  <2>1. /\ file # invalid_error
        /\ Commit([applications EXCEPT ![id] = new], Overwritten(id, new))
    BY <1>4 DEF add
  <2>2. new \in Managed_application
    BY <2>1 DEF Managed_application, DesktopFile
  <2> HIDE DEF new
  <2> QED
    BY <1>4, <2>1, <2>2, CommitIsChange
<1>5. CASE UNCHANGED vars
  BY <1>5 DEF vars
<1> QED
  BY <1>1, <1>2, <1>3, <1>4, <1>5 DEF Next

\* AppManager implements the catalogue: whatever files the constructor reads and
\* whatever additions and removals follow, each call changes one application, every
\* name has an owner of lowest rank, and the names of the other applications are
\* taken only for a lower rank.
THEOREM AppManagerImplementsCatalogue == Spec => ImplementsCatalogue
<1>1. Init => Catalogue!Init
  <2> SUFFICES ASSUME Init PROVE Catalogue!Init
    OBVIOUS
  <2>1. Offered_applications = [id \in IDs |-> null]
    BY DEF Init, Offered_applications, Populated
  <2>2. Owners = [n \in Names |-> null]
    BY DEF Init, Owners
  <2> QED BY <2>1, <2>2 DEF Catalogue!Init
<1> QED
  BY <1>1, AlwaysInv, NextIsCatalogue, PTL
  DEF Spec, ImplementsCatalogue, Catalogue!Spec

=============================================================================
