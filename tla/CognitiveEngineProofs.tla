------------------------- MODULE CognitiveEngineProofs -------------------------
(***************************************************************************)
(* Proofs about the memory of facts, for any sets of keys and values and   *)
(* any bound on the ids, and about the legacy engine that works on it, for *)
(* any lines of text.  The theorems about the memory are about its own     *)
(* specification and use neither EngineAssumption nor LinesAssumption.     *)
(***************************************************************************)
EXTENDS CognitiveEngineProperties, SequenceTheorems, FiniteSetTheorems,
        WellFoundedInduction, TLAPS

-----------------------------------------------------------------------------
(* The entries of an engine that is down are those it had; the file holds  *)
(* entries that were in memory once, so as many as ids at most.            *)

TypeInv == TypeOK /\ Len(file.entries) <= MaxIds

LEMMA EmptyTyped == <<>> \in Seq(EntryType) /\ Len(<<>>) = 0
OBVIOUS

\* Superseding changes neither the number of entries, nor an id, key or value.
LEMMA SupersedeTyped ==
  ASSUME entries \in Seq(EntryType), NEW end, NEW k, NEW id \in 1..MaxIds
  PROVE  /\ SupersedeBefore(end, k, id) \in Seq(EntryType)
         /\ Len(SupersedeBefore(end, k, id)) = Len(entries)
<1> DEFINE new(i) == IF i < end /\ IsActive(i, k)
                     THEN [entries[i] EXCEPT !.status = "superseded", !.by = id]
                     ELSE entries[i]
           s == [i \in DOMAIN entries |-> new(i)]
<1>1. DOMAIN entries = 1..Len(entries) /\ Len(entries) \in Nat
  OBVIOUS
<1>2. \A i \in 1..Len(entries) : new(i) \in EntryType
  <2> SUFFICES ASSUME NEW i \in 1..Len(entries) PROVE new(i) \in EntryType
    OBVIOUS
  <2>1. entries[i] \in EntryType
    OBVIOUS
  <2>2. id \in 0..MaxIds
    BY MaxIdsAssumption
  <2>3. [entries[i] EXCEPT !.status = "superseded", !.by = id] \in EntryType
    BY <2>1, <2>2 DEF EntryType
  <2> QED  BY <2>1, <2>3
<1> HIDE DEF new
<1>3. s = [i \in 1..Len(entries) |-> new(i)]
  BY <1>1
<1>4. s \in [1..Len(entries) -> EntryType]
  BY <1>2, <1>3
<1>5. s \in Seq(EntryType)
  BY <1>1, <1>4, SeqDef
<1>6. DOMAIN s = 1..Len(entries)
  BY <1>1
<1> HIDE DEF s
<1>7. Len(s) = Len(entries)
  BY <1>1, <1>5, <1>6
<1>8. s = SupersedeBefore(end, k, id)
  BY DEF s, new, SupersedeBefore
<1> QED  BY <1>5, <1>7, <1>8

LEMMA TypeInit == Init => TypeInv
BY MaxIdsAssumption, EmptyTyped DEF Init, TypeInv, TypeOK, NoFile

LEMMA TypeStep == TypeInv /\ [Next]_vars => TypeInv'
<1> SUFFICES ASSUME TypeInv, [Next]_vars PROVE TypeInv'
  OBVIOUS
<1> USE DEF TypeInv, TypeOK
<1> USE MaxIdsAssumption
<1>1. CASE Start
  BY <1>1 DEF Start
<1>2. CASE StartFails \/ UNCHANGED vars
  BY <1>2 DEF StartFails, vars
<1>3. ASSUME NEW k \in Keys, NEW v \in Values, ConfirmFact(k, v) PROVE TypeInv'
  <2>1. counter' \in 1..MaxIds /\ counter' = counter + 1
    BY <1>3 DEF ConfirmFact, TakeId
  <2>2. PICK i \in DOMAIN entries : entries' = SupersedeBefore(i, k, counter')
    BY <1>3 DEF ConfirmFact
  <2>3. entries' \in Seq(EntryType) /\ Len(entries') = Len(entries)
    BY <2>1, <2>2, SupersedeTyped
  <2> QED  BY <1>3, <2>1, <2>3 DEF ConfirmFact
<1>4. ASSUME NEW k \in Keys, NEW v \in Values, AddFact(k, v) PROVE TypeInv'
  <2>1. counter' \in 1..MaxIds /\ counter' = counter + 1
    BY <1>4 DEF AddFact, TakeId
  <2>2. Entry(counter', k, v) \in EntryType
    BY <2>1 DEF Entry, EntryType
  <2>3. entries' \in Seq(EntryType) /\ Len(entries') = Len(entries) + 1
    BY <1>4, <2>1, <2>2, SupersedeTyped DEF AddFact
  <2> QED  BY <1>4, <2>1, <2>3 DEF AddFact
<1>5. CASE OpenFile
  BY <1>5, EmptyTyped DEF OpenFile, EmptyFile
<1>6. CASE WriteFile
  BY <1>6 DEF WriteFile, FileWith
<1>7. CASE SaveFails \/ Exit
  <2>1. UNCHANGED <<entries, counter>> /\ phase' \in {"down", "idle"} /\ returned' \in BOOLEAN
    BY <1>7 DEF SaveFails, Exit
  <2>2. file' = file \/ file' = EmptyFile \/ file' = TornFile
    BY <1>7 DEF SaveFails, Exit, Interrupted
  <2>3. CASE file' = file
    BY <2>1, <2>3
  <2>4. CASE file' = EmptyFile \/ file' = TornFile
    <3>1. file'.entries = <<>>
      BY <2>4 DEF EmptyFile, TornFile
    <3> QED  BY <2>1, <2>4, <3>1, EmptyTyped
  <2> QED  BY <2>2, <2>3, <2>4
<1> QED  BY <1>1, <1>2, <1>3, <1>4, <1>5, <1>6, <1>7 DEF Next

LEMMA AlwaysTypeInv == Spec => []TypeInv
BY TypeInit, TypeStep, PTL DEF Spec

\* Entries and file are well formed, and no more entries exist than ids were
\* taken, across any number of restarts.
THEOREM TypeCorrect == Spec => []TypeOK
<1>1. TypeInv => TypeOK
  BY DEF TypeInv
<1> QED  BY <1>1, AlwaysTypeInv, PTL

-----------------------------------------------------------------------------
(* The chains of entries.                                                  *)

Later(es, i) == {j \in DOMAIN es : j > i /\ es[j].key = es[i].key}

\* At most the last entry of a key is active, so a confirmation supersedes
\* nothing.
LEMMA ConfirmKeepsEntries ==
  ASSUME TypeInv, Chained(entries), NEW k, NEW v, ConfirmFact(k, v)
  PROVE  entries' = entries
<1>1. PICK i \in DOMAIN entries :
        IsActive(i, k) /\ entries' = SupersedeBefore(i, k, counter')
  BY DEF ConfirmFact
<1>2. ASSUME NEW j \in DOMAIN entries, j < i, IsActive(j, k) PROVE FALSE
  <2>1. i \in Later(entries, j)
    BY <1>1, <1>2 DEF IsActive, Later, TypeInv, TypeOK
  <2> QED  BY <1>2, <2>1 DEF Chained, Later, IsActive
<1>3. entries' = [j \in DOMAIN entries |-> entries[j]]
  BY <1>1, <1>2 DEF SupersedeBefore
<1> QED  BY <1>3 DEF TypeInv, TypeOK

\* A statement that is not a confirmation extends the chain of its key.
LEMMA AddKeepsChains ==
  ASSUME TypeInv, Chained(entries), NEW k \in Keys, NEW v \in Values, AddFact(k, v)
  PROVE  Chained(entries')
<1> DEFINE n == Len(entries)
           last == n + 1
<1>1. n \in Nat /\ DOMAIN entries = 1..n /\ counter' \in 1..MaxIds
  BY MaxIdsAssumption DEF TypeInv, TypeOK, AddFact, TakeId
<1>2. /\ SupersedeBefore(last, k, counter') \in Seq(EntryType)
      /\ Len(SupersedeBefore(last, k, counter')) = n
  BY <1>1, SupersedeTyped DEF TypeInv, TypeOK
<1>3. DOMAIN entries' = 1..last /\ entries'[last] = Entry(counter', k, v)
  BY <1>1, <1>2 DEF AddFact
<1>4. ASSUME NEW i \in 1..n
      PROVE  entries'[i] = IF IsActive(i, k)
                           THEN [entries[i] EXCEPT !.status = "superseded", !.by = counter']
                           ELSE entries[i]
  <2>1. entries'[i] = SupersedeBefore(last, k, counter')[i]
    BY <1>1, <1>2 DEF AddFact
  <2> QED  BY <1>1, <2>1 DEF SupersedeBefore
<1>5. ASSUME NEW i \in 1..n
      PROVE  entries'[i].key = entries[i].key /\ entries'[i].id = entries[i].id
  <2>1. entries[i] \in EntryType
    BY <1>1 DEF TypeInv, TypeOK
  <2>2. LET e == [entries[i] EXCEPT !.status = "superseded", !.by = counter'] IN
        e.key = entries[i].key /\ e.id = entries[i].id
    BY <2>1 DEF EntryType
  <2> QED  BY <1>4, <2>2
<1>6. SUFFICES ASSUME NEW i \in 1..last
               PROVE  IF Later(entries', i) = {}
                      THEN entries'[i].status = "active"
                      ELSE /\ entries'[i].status = "superseded"
                           /\ \E j \in Later(entries', i) :
                                /\ entries'[j].id = entries'[i].by
                                /\ \A m \in Later(entries', i) : j <= m
  BY <1>3 DEF Chained, Later
<1>7. CASE i = last
  BY <1>1, <1>3, <1>7 DEF Later, Entry
<1>8. CASE i \in 1..n /\ entries[i].key # k
  <2>1. Later(entries', i) = Later(entries, i)
    BY <1>1, <1>3, <1>5, <1>8 DEF Later, Entry
  <2>2. entries'[i] = entries[i]
    BY <1>4, <1>8 DEF IsActive
  <2>3. \A j \in Later(entries, i) : entries'[j].id = entries[j].id
    BY <1>1, <1>5 DEF Later
  <2> QED  BY <1>1, <1>8, <2>1, <2>2, <2>3 DEF Chained, Later
<1>9. CASE i \in 1..n /\ entries[i].key = k
  <2>1. Later(entries', i) = Later(entries, i) \cup {last}
    BY <1>1, <1>3, <1>5, <1>9 DEF Later, Entry
  <2>2. CASE Later(entries, i) = {}
    <3>1. entries[i].status = "active"
      BY <1>1, <1>9, <2>2 DEF Chained, Later
    <3>2. entries'[i] = [entries[i] EXCEPT !.status = "superseded", !.by = counter']
      BY <1>4, <1>9, <3>1 DEF IsActive
    <3>3. entries'[i].status = "superseded" /\ entries'[i].by = counter'
      BY <1>1, <1>9, <3>2 DEF TypeInv, TypeOK, EntryType
    <3> QED  BY <1>1, <1>3, <2>1, <2>2, <3>3 DEF Entry
  <2>3. CASE Later(entries, i) # {}
    <3>1. entries[i].status = "superseded"
      BY <1>1, <1>9, <2>3 DEF Chained, Later
    <3>2. PICK j \in Later(entries, i) :
            entries[j].id = entries[i].by /\ \A m \in Later(entries, i) : j <= m
      BY <1>1, <1>9, <2>3 DEF Chained, Later
    <3>3. entries'[i] = entries[i]
      BY <1>4, <1>9, <3>1 DEF IsActive
    <3>4. j \in 1..n /\ entries'[j].id = entries[j].id
      BY <1>1, <1>5 DEF Later
    <3>5. \A m \in Later(entries', i) : j <= m
      BY <1>1, <2>1, <3>2, <3>4
    <3> QED  BY <2>1, <3>1, <3>2, <3>3, <3>4, <3>5
  <2> QED  BY <2>2, <2>3
<1> QED  BY <1>1, <1>6, <1>7, <1>8, <1>9

LEMMA EmptyChained == Chained(<<>>)
BY DEF Chained

LEMMA ChainStep == TypeInv /\ FactIsLatest /\ [Next]_vars => FactIsLatest'
<1> SUFFICES ASSUME TypeInv, FactIsLatest, [Next]_vars PROVE FactIsLatest'
  OBVIOUS
<1> USE DEF FactIsLatest
<1>1. CASE Start
  BY <1>1 DEF Start
<1>2. CASE StartFails \/ UNCHANGED vars
  BY <1>2 DEF StartFails, vars
<1>3. ASSUME NEW k \in Keys, NEW v \in Values, ConfirmFact(k, v) PROVE FactIsLatest'
  BY <1>3, ConfirmKeepsEntries DEF ConfirmFact
<1>4. ASSUME NEW k \in Keys, NEW v \in Values, AddFact(k, v) PROVE FactIsLatest'
  BY <1>4, AddKeepsChains DEF AddFact
<1>5. CASE OpenFile
  BY <1>5, EmptyChained DEF OpenFile, EmptyFile
<1>6. CASE WriteFile
  BY <1>6 DEF WriteFile, FileWith
<1>7. CASE SaveFails \/ Exit
  BY <1>7, EmptyChained DEF SaveFails, Exit, Interrupted, EmptyFile, TornFile
<1> QED  BY <1>1, <1>2, <1>3, <1>4, <1>5, <1>6, <1>7 DEF Next

\* get_fact gives the latest statement about a key, whatever writes failed and
\* wherever the process ended.
THEOREM LatestFact == Spec => []FactIsLatest
<1>1. Init => FactIsLatest
  BY EmptyChained DEF Init, FactIsLatest, NoFile
<1> QED  BY <1>1, ChainStep, AlwaysTypeInv, PTL DEF Spec

-----------------------------------------------------------------------------
(* The refinement.                                                         *)

LEMMA NoFacts == FactsOf(<<>>) = <<>>
BY DEF FactsOf

LEMMA MapStart == Start => FactLogOf!Reload
BY DEF Start, FactLogOf!Reload

\* Superseding is not seen in the log, a new entry is a statement.
LEMMA MapAdd ==
  ASSUME TypeInv, NEW k \in Keys, NEW v \in Values, AddFact(k, v)
  PROVE  FactLogOf!State(<<k, v>>)
<1> DEFINE n == Len(entries)
           s == SupersedeBefore(n + 1, k, counter')
<1>1. n \in Nat /\ DOMAIN entries = 1..n /\ counter' \in 1..MaxIds
  BY MaxIdsAssumption DEF TypeInv, TypeOK, AddFact, TakeId
<1>2. s \in Seq(EntryType) /\ Len(s) = n
  BY <1>1, SupersedeTyped DEF TypeInv, TypeOK
<1>3. ASSUME NEW i \in 1..n PROVE s[i].key = entries[i].key /\ s[i].value = entries[i].value
  <2>1. entries[i] \in EntryType
    BY <1>1 DEF TypeInv, TypeOK
  <2>2. LET e == [entries[i] EXCEPT !.status = "superseded", !.by = counter'] IN
        e.key = entries[i].key /\ e.value = entries[i].value
    BY <2>1 DEF EntryType
  <2> QED  BY <1>1, <2>2 DEF SupersedeBefore
<1>4. DOMAIN entries' = 1..(n + 1) /\ entries'[n + 1] = Entry(counter', k, v)
      /\ \A i \in 1..n : entries'[i] = s[i]
  BY <1>1, <1>2 DEF AddFact
<1>5. FactsOf(entries) \in Seq(Keys \X Values) /\ Len(FactsOf(entries)) = n
  <2>1. ASSUME NEW i \in 1..n PROVE entries[i].key \in Keys /\ entries[i].value \in Values
    <3>1. entries[i] \in EntryType
      BY <1>1 DEF TypeInv, TypeOK
    <3> QED  BY <3>1 DEF EntryType
  <2>2. FactsOf(entries) \in [1..n -> Keys \X Values]
    BY <1>1, <2>1 DEF FactsOf
  <2>3. FactsOf(entries) \in Seq(Keys \X Values)
    BY <1>1, <2>2, SeqDef
  <2>4. DOMAIN FactsOf(entries) = 1..n
    BY <2>2
  <2> QED  BY <1>1, <2>3, <2>4, LenProperties
<1>6. ASSUME NEW i \in 1..(n + 1)
      PROVE  FactsOf(entries')[i] = Append(FactsOf(entries), <<k, v>>)[i]
  <2>1. FactsOf(entries')[i] = <<entries'[i].key, entries'[i].value>>
    BY <1>4 DEF FactsOf
  <2>2. CASE i = n + 1
    BY <1>4, <1>5, <2>1, <2>2, AppendProperties DEF Entry
  <2>3. CASE i \in 1..n
    <3>1. FactsOf(entries)[i] = <<entries[i].key, entries[i].value>>
      BY <1>1, <2>3 DEF FactsOf
    <3>2. Append(FactsOf(entries), <<k, v>>)[i] = FactsOf(entries)[i]
      BY <1>5, <2>3, AppendProperties
    <3> QED  BY <1>3, <1>4, <2>1, <2>3, <3>1, <3>2
  <2>4. i = n + 1 \/ i \in 1..n
    BY <1>1
  <2> QED  BY <2>2, <2>3, <2>4
<1>7. FactsOf(entries') = [i \in 1..(n + 1) |-> FactsOf(entries')[i]]
  BY <1>4 DEF FactsOf
<1>8. Append(FactsOf(entries), <<k, v>>)
        = [i \in 1..(n + 1) |-> Append(FactsOf(entries), <<k, v>>)[i]]
  BY <1>1, <1>5
<1>9. FactsOf(entries') = Append(FactsOf(entries), <<k, v>>)
  BY <1>6, <1>7, <1>8, Zenon
<1> QED  BY <1>9 DEF FactLogOf!State, AddFact

LEMMA MapOpen == OpenFile => FactLogOf!Tear
BY NoFacts DEF OpenFile, EmptyFile, FactLogOf!Tear

LEMMA MapWrite == WriteFile => FactLogOf!Save
BY DEF WriteFile, FileWith, FactLogOf!Save

LEMMA MapInterrupted ==
  ASSUME UNCHANGED entries, Interrupted
  PROVE  FactLogOf!Tear \/ UNCHANGED FactLogOf!vars
<1>1. CASE file' = file
  BY <1>1 DEF FactLogOf!vars
<1>2. CASE file' = EmptyFile \/ file' = TornFile
  <2>1. file'.entries = <<>>
    BY <1>2 DEF EmptyFile, TornFile
  <2> QED  BY <2>1, NoFacts DEF FactLogOf!Tear
<1> QED  BY <1>1, <1>2 DEF Interrupted

\* Every behaviour of the memory engine is one of the log: nothing stated is
\* rewritten, and a restart finds a whole copy of the log or none.
THEOREM RefinesFactLog == Spec => ImplementsFactLog
<1>1. Init => FactLogOf!Init
  BY NoFacts DEF Init, NoFile, FactLogOf!Init
<1>2. TypeInv /\ FactIsLatest /\ [Next]_vars => [FactLogOf!Next]_(FactLogOf!vars)
  <2> SUFFICES ASSUME TypeInv, FactIsLatest, [Next]_vars
               PROVE  FactLogOf!Next \/ UNCHANGED FactLogOf!vars
    OBVIOUS
  <2>1. CASE Start
    BY <2>1, MapStart DEF FactLogOf!Next
  <2>2. CASE StartFails \/ UNCHANGED vars
    BY <2>2 DEF StartFails, vars, FactLogOf!vars
  <2>3. ASSUME NEW k \in Keys, NEW v \in Values, ConfirmFact(k, v)
        PROVE  UNCHANGED FactLogOf!vars
    <3>1. entries' = entries /\ file' = file
      BY <2>3, ConfirmKeepsEntries DEF ConfirmFact, FactIsLatest
    <3> QED  BY <3>1 DEF FactLogOf!vars
  <2>4. ASSUME NEW k \in Keys, NEW v \in Values, AddFact(k, v)
        PROVE  FactLogOf!Next
    BY <2>4, MapAdd DEF FactLogOf!Next
  <2>5. CASE OpenFile
    BY <2>5, MapOpen DEF FactLogOf!Next
  <2>6. CASE WriteFile
    BY <2>6, MapWrite DEF FactLogOf!Next
  <2>7. CASE SaveFails \/ Exit
    BY <2>7, MapInterrupted DEF SaveFails, Exit, FactLogOf!Next
  <2> QED  BY <2>1, <2>2, <2>3, <2>4, <2>5, <2>6, <2>7 DEF Next
<1> QED  BY <1>1, <1>2, AlwaysTypeInv, LatestFact, PTL DEF Spec, ImplementsFactLog, FactLogOf!Spec

-----------------------------------------------------------------------------
(* What is on disk.                                                        *)

\* A fact that was acknowledged is on disk as long as nothing was stated after
\* it: the file equals the entries whenever a call returned last.
THEOREM AcknowledgedIsSaved == Spec => []ReturnedIsSaved
<1>1. Init => ReturnedIsSaved
  BY DEF Init, ReturnedIsSaved
<1>2. TypeInv /\ ReturnedIsSaved /\ [Next]_vars => ReturnedIsSaved'
  <2> SUFFICES ASSUME TypeInv, ReturnedIsSaved, [Next]_vars PROVE ReturnedIsSaved'
    OBVIOUS
  <2>1. CASE Start
    <3>1. file.entries # <<>> => file = FileWith(file.entries)
      BY DEF TypeInv, TypeOK, NoFile, EmptyFile, TornFile
    <3> QED  BY <2>1, <3>1 DEF Start, ReturnedIsSaved
  <2>2. CASE StartFails \/ UNCHANGED vars
    BY <2>2 DEF StartFails, vars, ReturnedIsSaved
  <2>3. ASSUME NEW k, NEW v, ConfirmFact(k, v) \/ AddFact(k, v) PROVE ReturnedIsSaved'
    BY <2>3 DEF ConfirmFact, AddFact, ReturnedIsSaved
  <2>4. CASE OpenFile \/ Exit
    BY <2>4 DEF OpenFile, Exit, ReturnedIsSaved
  <2>5. CASE WriteFile
    BY <2>5 DEF WriteFile, ReturnedIsSaved
  <2>6. CASE SaveFails
    BY <2>6 DEF SaveFails, ReturnedIsSaved
  <2> QED  BY <2>1, <2>2, <2>3, <2>4, <2>5, <2>6 DEF Next
<1> QED  BY <1>1, <1>2, AlwaysTypeInv, PTL DEF Spec

-----------------------------------------------------------------------------
(* The engine.  Facts of a line have a key each, so storing the second one *)
(* leaves the first as it is.                                              *)

LEMMA AtMostOne ==
  ASSUME NEW S, NEW x, NEW c \in BOOLEAN, c => x \in S
  PROVE  LET s == IF c THEN <<x>> ELSE <<>> IN
         /\ s \in Seq(S) /\ Len(s) \in {0, 1}
         /\ \A i \in 1..Len(s) : c /\ s[i] = x
<1>1. CASE c
  BY <1>1
<1>2. CASE ~ c
  BY <1>2
<1> QED  BY <1>1, <1>2

LEMMA FactsOfLine ==
  ASSUME NEW l \in Lines
  PROVE  /\ Facts(l) \in Seq(Keys \X Values)
         /\ \A m, n \in DOMAIN Facts(l) :
              Facts(l)[m][1] = Facts(l)[n][1] => Facts(l)[m] = Facts(l)[n]
<1> DEFINE Pair == Keys \X Values
           liked == <<l.topic, l.topic>>
           named == <<"user.name", l.name>>
           a == IF Says(l, "i like") THEN <<liked>> ELSE <<>>
           b == IF Says(l, "my name is") THEN <<named>> ELSE <<>>
<1>1. Says(l, "i like") => liked \in Pair /\ liked[1] # "user.name"
  BY LinesAssumption
<1>2. Says(l, "my name is") => named \in Pair /\ named[1] = "user.name"
  BY LinesAssumption, EngineAssumption
<1>3. Facts(l) = a \o b
  BY DEF Facts
<1> HIDE DEF liked, named, Pair
<1>4. /\ a \in Seq(Pair) /\ Len(a) \in {0, 1}
      /\ \A i \in 1..Len(a) : a[i] = liked /\ liked[1] # "user.name"
  BY <1>1, AtMostOne DEF Says
<1>5. /\ b \in Seq(Pair) /\ Len(b) \in {0, 1}
      /\ \A i \in 1..Len(b) : b[i] = named /\ named[1] = "user.name"
  BY <1>2, AtMostOne DEF Says
<1> HIDE DEF a, b
<1>6. /\ a \o b \in Seq(Pair) /\ Len(a \o b) = Len(a) + Len(b)
      /\ \A i \in 1..(Len(a) + Len(b)) :
           (a \o b)[i] = IF i <= Len(a) THEN a[i] ELSE b[i - Len(a)]
  BY <1>4, <1>5, ConcatProperties
<1>7. ASSUME NEW i \in DOMAIN (a \o b)
      PROVE  \/ (a \o b)[i] = liked /\ liked[1] # "user.name"
             \/ (a \o b)[i] = named /\ named[1] = "user.name"
  <2>1. i \in 1..(Len(a) + Len(b))
    BY <1>6
  <2>2. CASE i <= Len(a)
    <3>1. i \in 1..Len(a) /\ (a \o b)[i] = a[i]
      BY <1>4, <1>6, <2>1, <2>2
    <3> QED  BY <1>4, <3>1
  <2>3. CASE ~ (i <= Len(a))
    <3>1. i - Len(a) \in 1..Len(b)
      BY <1>4, <1>5, <2>1, <2>3
    <3>2. (a \o b)[i] = b[i - Len(a)]
      BY <1>6, <2>1, <2>3
    <3> QED  BY <1>5, <3>1, <3>2
  <2> QED  BY <2>2, <2>3
<1>8. \A m, n \in DOMAIN (a \o b) :
        (a \o b)[m][1] = (a \o b)[n][1] => (a \o b)[m] = (a \o b)[n]
  BY <1>7
<1>9. Facts(l) \in Seq(Pair)
  BY <1>3, <1>6
<1>10. \A m, n \in DOMAIN Facts(l) :
         Facts(l)[m][1] = Facts(l)[n][1] => Facts(l)[m] = Facts(l)[n]
  BY <1>3, <1>8
<1> QED  BY <1>9, <1>10, Zenon DEF Pair

\* Where process is, what it works on, and what the memory engine does then.
ControlInv ==
  /\ stage \in {"down", "idle", "retrieve", "goal", "decide", "respond", "learn", "store",
                "trace", "write"}
  /\ stage = "down" => phase = "down"
  /\ stage = "store" => phase \in {"saving", "writing"} /\ todo # <<>>
  /\ stage \notin {"down", "store"} => phase = "idle"
  /\ stage \notin {"down", "idle"} => line \in Lines
  /\ todo \in Seq(Keys \X Values)
  /\ stage \in {"learn", "store"} =>
       \A n \in DOMAIN todo : \E m \in DOMAIN Facts(line) : todo[n] = Facts(line)[m]

LEMMA ControlInit == EngineInit => ControlInv
BY DEF EngineInit, Init, ControlInv

LEMMA TailOfTodo ==
  ASSUME ControlInv, todo # <<>>
  PROVE  /\ Head(todo) \in Keys \X Values /\ Head(todo) = todo[1] /\ 1 \in DOMAIN todo
         /\ Head(todo) = <<Head(todo)[1], Head(todo)[2]>>
         /\ Head(todo)[1] \in Keys /\ Head(todo)[2] \in Values
         /\ Tail(todo) \in Seq(Keys \X Values)
         /\ \A n \in DOMAIN Tail(todo) : n + 1 \in DOMAIN todo /\ Tail(todo)[n] = todo[n + 1]
         /\ \A n \in DOMAIN todo :
              n # 1 => n - 1 \in DOMAIN Tail(todo) /\ Tail(todo)[n - 1] = todo[n]
<1>1. todo \in Seq(Keys \X Values)
  BY DEF ControlInv
<1>2. Head(todo) \in Keys \X Values /\ Head(todo) = todo[1] /\ 1 \in DOMAIN todo
  BY <1>1
<1>3. /\ Head(todo) = <<Head(todo)[1], Head(todo)[2]>>
      /\ Head(todo)[1] \in Keys /\ Head(todo)[2] \in Values
  BY <1>2
<1> QED  BY <1>1, <1>2, <1>3

LEMMA ControlStep == ControlInv /\ [EngineNext]_engineVars => ControlInv'
<1> SUFFICES ASSUME ControlInv, [EngineNext]_engineVars PROVE ControlInv'
  OBVIOUS
<1>0. <<>> \in Seq(Keys \X Values) /\ DOMAIN <<>> = {}
  OBVIOUS
<1>1. CASE Launch
  BY <1>1 DEF Launch, Start, ControlInv
<1>2. ASSUME NEW l \in Lines, Perceive(l) PROVE ControlInv'
  BY <1>2 DEF Perceive, vars, ControlInv
<1>3. CASE Retrieve \/ SelectGoal \/ Decide
  BY <1>3 DEF Retrieve, SelectGoal, Decide, vars, ControlInv
<1>4. CASE Respond
  BY <1>4, FactsOfLine DEF Respond, vars, ControlInv
<1>5. CASE StoreFact
  BY <1>5 DEF StoreFact, ConfirmFact, AddFact, ControlInv
<1>6. CASE SaveFact
  BY <1>6 DEF SaveFact, OpenFile, ControlInv
<1>7. CASE FactStored
  <2>1. \A n \in DOMAIN Tail(todo) : \E m \in DOMAIN Facts(line) : Tail(todo)[n] = Facts(line)[m]
    BY <1>7, TailOfTodo DEF FactStored, ControlInv
  <2> QED  BY <1>7, <2>1, TailOfTodo DEF FactStored, WriteFile, ControlInv
<1>8. CASE StoreRaises
  BY <1>0, <1>8 DEF StoreRaises, SaveFails, Forget, ControlInv
<1>9. CASE FinishLearning
  BY <1>9 DEF FinishLearning, vars, ControlInv
<1>10. CASE OpenTrace
  BY <1>10 DEF OpenTrace, vars, ControlInv
<1>11. CASE CloseTrace \/ TraceRaises
  BY <1>0, <1>11 DEF CloseTrace, TraceRaises, Forget, vars, ControlInv
<1>12. CASE EndProcess
  BY <1>0, <1>12 DEF EndProcess, Exit, Forget, ControlInv
<1>13. CASE UNCHANGED engineVars
  BY <1>13 DEF engineVars, vars, ControlInv
<1> QED
  BY <1>1, <1>2, <1>3, <1>4, <1>5, <1>6, <1>7, <1>8, <1>9, <1>10, <1>11, <1>12, <1>13
  DEF EngineNext, Cycle

LEMMA AlwaysControlInv == EngineSpec => []ControlInv
BY ControlInit, ControlStep, PTL DEF EngineSpec

\* Whatever the engine does, its memory behaves as the memory engine is
\* specified: what is proved of the one holds of the other.
LEMMA MemoryStep == ControlInv /\ [EngineNext]_engineVars => [Next]_vars
<1> SUFFICES ASSUME ControlInv, [EngineNext]_engineVars PROVE [Next]_vars
  OBVIOUS
<1>1. CASE StoreFact
  BY <1>1, TailOfTodo DEF StoreFact, Next
<1>2. CASE Launch
  BY <1>2 DEF Launch, Next
<1>3. CASE SaveFact \/ FactStored \/ StoreRaises \/ EndProcess
  BY <1>3 DEF SaveFact, FactStored, StoreRaises, EndProcess, Next
<1>4. CASE UNCHANGED vars
  BY <1>4
<1>5. CASE \/ \E l \in Lines : Perceive(l)
           \/ Retrieve \/ SelectGoal \/ Decide \/ Respond
           \/ FinishLearning \/ OpenTrace \/ CloseTrace \/ TraceRaises \/ UNCHANGED engineVars
  BY <1>4, <1>5 DEF Perceive, Retrieve, SelectGoal, Decide, Respond, FinishLearning, OpenTrace,
                    CloseTrace, TraceRaises, engineVars
<1> QED  BY <1>1, <1>2, <1>3, <1>5 DEF EngineNext, Cycle

\* The engine uses its memory by the memory's own operations only, so all that
\* is proved of the memory holds within the engine.
THEOREM EngineRunsTheMemory == EngineSpec => Spec
<1>1. EngineInit => Init
  BY DEF EngineInit
<1> QED  BY <1>1, MemoryStep, AlwaysControlInv, PTL DEF EngineSpec, Spec

LEMMA EngineTypeInv == EngineSpec => []TypeInv
BY EngineRunsTheMemory, AlwaysTypeInv, PTL

-----------------------------------------------------------------------------
(* What a statement does to the facts memory has as active.                *)

Holds(k, v) == \E i \in Active(k) : entries[i].value = v

\* Entries of other keys, and those that are not before the end, stay.
LEMMA SupersedeLeaves ==
  ASSUME TypeInv, NEW end, NEW k, NEW id, NEW i \in DOMAIN entries,
         entries[i].key # k \/ ~ (i < end)
  PROVE  i \in DOMAIN SupersedeBefore(end, k, id) /\ SupersedeBefore(end, k, id)[i] = entries[i]
BY DEF SupersedeBefore, IsActive

\* Appending keeps every entry at its place.
LEMMA AddedEntry ==
  ASSUME TypeInv, NEW k \in Keys, NEW v \in Values, AddFact(k, v)
  PROVE  /\ Len(entries) + 1 \in DOMAIN entries'
         /\ entries'[Len(entries) + 1] = Entry(counter', k, v)
         /\ \A i \in DOMAIN entries :
              entries[i].key # k => i \in DOMAIN entries' /\ entries'[i] = entries[i]
<1> DEFINE n == Len(entries)
           s == SupersedeBefore(n + 1, k, counter')
<1>1. n \in Nat /\ DOMAIN entries = 1..n /\ counter' \in 1..MaxIds
  BY MaxIdsAssumption DEF TypeInv, TypeOK, AddFact, TakeId
<1>2. s \in Seq(EntryType) /\ Len(s) = n
  BY <1>1, SupersedeTyped DEF TypeInv, TypeOK
<1>3. entries' = Append(s, Entry(counter', k, v))
  BY DEF AddFact
<1>4. \A i \in DOMAIN entries : entries[i].key # k => s[i] = entries[i]
  BY <1>1, SupersedeLeaves
<1> HIDE DEF s
<1> QED  BY <1>1, <1>2, <1>3, <1>4

LEMMA StatementHolds ==
  ASSUME TypeInv, NEW k \in Keys, NEW v \in Values, ConfirmFact(k, v) \/ AddFact(k, v)
  PROVE  /\ Holds(k, v)'
         /\ \A key, value : key # k /\ Holds(key, value) => Holds(key, value)'
<1>1. CASE ConfirmFact(k, v)
  <2>1. PICK i \in DOMAIN entries :
          IsActive(i, k) /\ entries[i].value = v /\ entries' = SupersedeBefore(i, k, counter')
    BY <1>1 DEF ConfirmFact
  <2>2. ~ (i < i)
    BY DEF TypeInv, TypeOK
  <2>3. i \in DOMAIN entries' /\ entries'[i] = entries[i]
    BY <2>1, <2>2, SupersedeLeaves
  <2>4. Holds(k, v)'
    BY <2>1, <2>3 DEF Holds, Active, IsActive
  <2>5. ASSUME NEW key, NEW value, key # k, Holds(key, value) PROVE Holds(key, value)'
    <3>1. PICK j \in Active(key) : entries[j].value = value
      BY <2>5 DEF Holds
    <3>2. j \in DOMAIN entries' /\ entries'[j] = entries[j]
      BY <2>1, <2>5, <3>1, SupersedeLeaves DEF Active
    <3> QED  BY <3>1, <3>2 DEF Holds, Active
  <2> QED  BY <2>4, <2>5
<1>2. CASE AddFact(k, v)
  <2>1. Holds(k, v)'
    <3>1. Entry(counter', k, v).key = k /\ Entry(counter', k, v).value = v
          /\ Entry(counter', k, v).status = "active"
      BY DEF Entry
    <3>2. \E i \in DOMAIN entries' : entries'[i] = Entry(counter', k, v)
      BY <1>2, AddedEntry
    <3> QED  BY <3>1, <3>2 DEF Holds, Active
  <2>2. ASSUME NEW key, NEW value, key # k, Holds(key, value) PROVE Holds(key, value)'
    <3>1. PICK j \in Active(key) : entries[j].value = value
      BY <2>2 DEF Holds
    <3>2. j \in DOMAIN entries' /\ entries'[j] = entries[j]
      BY <1>2, <2>2, <3>1, AddedEntry DEF Active
    <3> QED  BY <3>1, <3>2 DEF Holds, Active
  <2> QED  BY <2>1, <2>2
<1> QED  BY <1>1, <1>2

LEMMA HoldsUnchanged ==
  ASSUME UNCHANGED entries
  PROVE  \A key, value : Holds(key, value)' <=> Holds(key, value)
BY DEF Holds, Active

-----------------------------------------------------------------------------
(* Learning: a fact of the line is still to be stored, or it is active and *)
(* saved; the one being stored is active already.                          *)

Due(f) == \E n \in DOMAIN todo : todo[n] = f

LearnInv ==
  /\ stage = "learn" =>
       \A m \in DOMAIN Facts(line) :
         \/ Due(Facts(line)[m])
         \/ Holds(Facts(line)[m][1], Facts(line)[m][2]) /\ file = FileWith(entries)
  /\ stage = "store" =>
       /\ Holds(Head(todo)[1], Head(todo)[2])
       /\ \A m \in DOMAIN Facts(line) :
            Due(Facts(line)[m]) \/ Holds(Facts(line)[m][1], Facts(line)[m][2])
  /\ LearnedIsSaved

LEMMA LearnInit == EngineInit => LearnInv
BY DEF EngineInit, LearnInv, LearnedIsSaved

LEMMA StoreFactLearns ==
  ASSUME TypeInv, ControlInv, LearnInv, StoreFact
  PROVE  LearnInv'
<1> DEFINE k == Head(todo)[1]
           v == Head(todo)[2]
<1>1. /\ stage = "learn" /\ stage' = "store" /\ todo # <<>> /\ UNCHANGED <<todo, line>>
      /\ ConfirmFact(k, v) \/ AddFact(k, v)
  BY DEF StoreFact
<1>2. k \in Keys /\ v \in Values /\ Head(todo) = todo[1] /\ 1 \in DOMAIN todo
  BY <1>1, TailOfTodo
<1>3. Holds(k, v)' /\ \A key, value : key # k /\ Holds(key, value) => Holds(key, value)'
  BY <1>1, <1>2, StatementHolds
<1>4. line \in Lines /\ \E m \in DOMAIN Facts(line) : Head(todo) = Facts(line)[m]
  BY <1>1, <1>2 DEF ControlInv
<1>5. ASSUME NEW m \in DOMAIN Facts(line)
      PROVE  \/ \E n \in DOMAIN todo : todo[n] = Facts(line)[m]
             \/ Holds(Facts(line)[m][1], Facts(line)[m][2])'
  <2>1. CASE Facts(line)[m][1] = k
    <3>1. Facts(line)[m] = Head(todo)
      BY <1>4, <2>1, FactsOfLine
    <3> QED  BY <1>2, <3>1
  <2>2. CASE Facts(line)[m][1] # k
    BY <1>1, <1>3, <2>2 DEF LearnInv, Due
  <2> QED  BY <2>1, <2>2
<1>6. \A m \in DOMAIN Facts(line)' :
        \/ \E n \in DOMAIN todo' : todo'[n] = Facts(line)'[m]
        \/ Holds(Facts(line)[m][1], Facts(line)[m][2])'
  BY <1>1, <1>5
<1> QED  BY <1>1, <1>3, <1>6 DEF LearnInv, LearnedIsSaved, Due

LEMMA LearnStep == TypeInv /\ ControlInv /\ LearnInv /\ [EngineNext]_engineVars => LearnInv'
<1> SUFFICES ASSUME TypeInv, ControlInv, LearnInv, [EngineNext]_engineVars PROVE LearnInv'
  OBVIOUS
<1>1. CASE Respond
  BY <1>1 DEF Respond, LearnInv, LearnedIsSaved, Due
<1>2. CASE StoreFact
  BY <1>2, StoreFactLearns
<1>3. CASE SaveFact
  <2>1. stage = "store" /\ stage' = "store" /\ UNCHANGED <<entries, todo, line>>
    BY <1>3 DEF SaveFact, OpenFile
  <2> QED  BY <2>1, HoldsUnchanged DEF LearnInv, LearnedIsSaved, Due
<1>4. CASE FactStored
  <2>1. /\ stage = "store" /\ stage' = "learn" /\ UNCHANGED <<entries, line>>
        /\ todo' = Tail(todo) /\ todo # <<>> /\ file' = FileWith(entries')
    BY <1>4 DEF FactStored, WriteFile, ControlInv
  <2>2. ASSUME NEW f, Due(f) PROVE f = Head(todo) \/ Due(f)'
    <3>1. PICK n \in DOMAIN todo : todo[n] = f
      BY <2>2 DEF Due
    <3>2. CASE n = 1
      BY <2>1, <3>1, <3>2, TailOfTodo
    <3>3. CASE n # 1
      BY <2>1, <3>1, <3>3, TailOfTodo DEF Due
    <3> QED  BY <3>2, <3>3
  <2>3. ASSUME NEW m \in DOMAIN Facts(line)
        PROVE  Due(Facts(line)[m])' \/ Holds(Facts(line)[m][1], Facts(line)[m][2])'
    BY <2>1, <2>2, HoldsUnchanged DEF LearnInv
  <2> QED  BY <2>1, <2>3 DEF LearnInv, LearnedIsSaved
<1>5. CASE FinishLearning
  <2>1. /\ stage = "learn" /\ stage' = "trace" /\ todo = <<>>
        /\ UNCHANGED <<entries, file, line>>
    BY <1>5 DEF FinishLearning, vars
  <2>2. \A m \in DOMAIN Facts(line) :
          Holds(Facts(line)[m][1], Facts(line)[m][2]) /\ file = FileWith(entries)
    BY <2>1 DEF LearnInv, Due
  <2> QED  BY <2>1, <2>2 DEF LearnInv, LearnedIsSaved, Holds, Active
<1>6. CASE \/ Launch \/ \E l \in Lines : Perceive(l)
           \/ Retrieve \/ SelectGoal \/ Decide \/ StoreRaises
           \/ OpenTrace \/ CloseTrace \/ TraceRaises \/ EndProcess
  <2>1. stage' \notin {"learn", "store", "trace"}
    BY <1>6 DEF Launch, Perceive, Retrieve, SelectGoal, Decide, StoreRaises, OpenTrace,
                CloseTrace, TraceRaises, EndProcess
  <2> QED  BY <2>1 DEF LearnInv, LearnedIsSaved
<1>7. CASE UNCHANGED engineVars
  BY <1>7 DEF engineVars, vars, LearnInv, LearnedIsSaved, Due, Holds, Active
<1> QED  BY <1>1, <1>2, <1>3, <1>4, <1>5, <1>6, <1>7 DEF EngineNext, Cycle

\* A cycle whose learning ended has every fact of its line active and on disk,
\* also when the line states two and whatever raised before.
THEOREM LearningIsSaved == EngineSpec => []LearnedIsSaved
<1>1. LearnInv => LearnedIsSaved
  BY DEF LearnInv
<1> QED  BY <1>1, LearnInit, LearnStep, EngineTypeInv, AlwaysControlInv, PTL DEF EngineSpec

-----------------------------------------------------------------------------
(* Replies.  What retrieval brought and what the context holds is active   *)
(* as long as it is used: the context is set with the statement that makes *)
(* the fact active, and forgotten with the process.                        *)

RecallInv ==
  /\ stage \in {"goal", "decide"} =>
       \E n \in Nat :
         /\ DOMAIN recalled = 1..n
         /\ \A m \in 1..n : \E i \in ActiveAt : recalled[m] = entries[i]
  /\ context \in [Keys -> Values \cup {"none"}]
  /\ \A k \in Keys : context[k] # "none" => Holds(k, context[k])

LEMMA RecallInit == EngineInit => RecallInv
BY DEF EngineInit, RecallInv, NoContext

LEMMA RetrievedIsActive ==
  ASSUME TypeInv, NEW r \in Retrievals
  PROVE  \E n \in Nat :
           DOMAIN r = 1..n /\ \A m \in 1..n : \E i \in ActiveAt : r[m] = entries[i]
<1> DEFINE n == IF Cardinality(ActiveAt) < TopK THEN Cardinality(ActiveAt) ELSE TopK
<1>1. PICK s \in [1..n -> ActiveAt] : r = [i \in 1..n |-> entries[s[i]]]
  BY DEF Retrievals
<1>2. n \in Nat
  <2>1. IsFiniteSet(DOMAIN entries) /\ ActiveAt \subseteq DOMAIN entries
    <3>1. DOMAIN entries = 1..Len(entries) /\ Len(entries) \in Nat
      BY DEF TypeInv, TypeOK
    <3> QED  BY <3>1, FS_Interval DEF ActiveAt
  <2>2. Cardinality(ActiveAt) \in Nat
    BY <2>1, FS_Subset, FS_CardinalityType
  <2> QED  BY <2>2, EngineAssumption
<1> QED  BY <1>1, <1>2

LEMMA ContextFollows ==
  ASSUME TypeInv, RecallInv, NEW k \in Keys, NEW v \in Values, ConfirmFact(k, v) \/ AddFact(k, v),
         context' = [context EXCEPT ![k] = v], stage' = "store"
  PROVE  RecallInv'
<1>1. Holds(k, v)' /\ \A key, value : key # k /\ Holds(key, value) => Holds(key, value)'
  BY StatementHolds
<1>2. context' \in [Keys -> Values \cup {"none"}]
  BY DEF RecallInv
<1>3. context'[k] = v /\ \A key \in Keys : key # k => context'[key] = context[key]
  BY DEF RecallInv
<1>4. ASSUME NEW key \in Keys, context'[key] # "none"
      PROVE  \E i \in Active(key)' : entries'[i].value = context'[key]
  <2>1. CASE key = k
    BY <1>1, <1>3, <2>1 DEF Holds
  <2>2. CASE key # k
    <3>1. Holds(key, context[key])
      BY <1>3, <1>4, <2>2 DEF RecallInv
    <3>2. ASSUME NEW value, value = context[key] PROVE Holds(key, value)'
      BY <1>1, <2>2, <3>1, <3>2
    <3> QED  BY <1>3, <2>2, <3>2 DEF Holds
  <2> QED  BY <2>1, <2>2
<1> QED  BY <1>2, <1>4 DEF RecallInv, Holds

LEMMA RecallStep == TypeInv /\ ControlInv /\ RecallInv /\ [EngineNext]_engineVars => RecallInv'
<1> SUFFICES ASSUME TypeInv, ControlInv, RecallInv, [EngineNext]_engineVars PROVE RecallInv'
  OBVIOUS
<1>1. CASE Launch
  BY <1>1 DEF Launch, RecallInv, NoContext
<1>2. CASE Retrieve
  <2>1. /\ recalled' \in Retrievals /\ UNCHANGED <<entries, context>>
    BY <1>2 DEF Retrieve, vars
  <2> QED  BY <2>1, RetrievedIsActive, HoldsUnchanged DEF RecallInv, ActiveAt
<1>3. CASE SelectGoal
  <2>1. stage = "goal" /\ UNCHANGED <<entries, context, recalled>>
    BY <1>3 DEF SelectGoal, vars
  <2> QED  BY <2>1, HoldsUnchanged DEF RecallInv, ActiveAt
<1>4. CASE StoreFact
  BY <1>4, TailOfTodo, ContextFollows DEF StoreFact
<1>5. CASE \/ \E l \in Lines : Perceive(l)
           \/ Decide \/ Respond \/ SaveFact \/ FactStored \/ StoreRaises \/ FinishLearning
           \/ OpenTrace \/ CloseTrace \/ TraceRaises \/ EndProcess
  <2>1. stage' \notin {"goal", "decide"} /\ UNCHANGED <<entries, context>>
    BY <1>5 DEF Perceive, Decide, Respond, SaveFact, OpenFile, FactStored, WriteFile, StoreRaises,
                SaveFails, FinishLearning, OpenTrace, CloseTrace, TraceRaises, EndProcess, Exit, vars
  <2> QED  BY <2>1, HoldsUnchanged DEF RecallInv
<1>6. CASE UNCHANGED engineVars
  BY <1>6, HoldsUnchanged DEF engineVars, vars, RecallInv, ActiveAt
<1> QED  BY <1>1, <1>2, <1>3, <1>4, <1>5, <1>6 DEF EngineNext, Cycle

LEMMA AlwaysRecallInv == EngineSpec => []RecallInv
BY RecallInit, RecallStep, EngineTypeInv, AlwaysControlInv, PTL DEF EngineSpec

\* A nonempty set of positions has a last one.
LEMMA LeastOfNaturals ==
  ASSUME NEW T \in SUBSET Nat, T # {}
  PROVE  \E x \in T : \A y \in T : x <= y
<1> DEFINE R == {p \in Nat \X Nat : p[1] < p[2]}
<1>1. IsWellFoundedOn(R, Nat)
  BY NatLessThanWellFounded DEF OpToRel
<1>2. PICK x \in T : \A y \in T : ~ (<<y, x>> \in R)
  <2> HIDE DEF R
  <2> QED  BY <1>1, WFMin
<1>3. ASSUME NEW y \in T PROVE x <= y
  <2>1. <<y, x>> \in Nat \X Nat /\ <<y, x>>[1] = y /\ <<y, x>>[2] = x
    OBVIOUS
  <2>2. ~ (y < x)
    BY <1>2, <2>1
  <2> QED  BY <2>2
<1> QED  BY <1>3

LEMMA MaxIsIn ==
  ASSUME NEW n \in Nat, NEW S \in SUBSET (1..n), S # {}
  PROVE  Max(S) \in S
<1> DEFINE T == {n - i : i \in S}
<1>1. T \in SUBSET Nat /\ T # {}
  <2>1. \A i \in S : n - i \in Nat
    OBVIOUS
  <2> QED  BY <2>1
<1>2. PICK t \in T : \A u \in T : t <= u
  <2> HIDE DEF T
  <2> QED  BY <1>1, LeastOfNaturals
<1>3. PICK i \in S : t = n - i
  OBVIOUS
<1>4. \A j \in S : i >= j
  BY <1>2, <1>3
<1> QED  BY <1>3, <1>4 DEF Max

LEMMA RecalledUser ==
  ASSUME TypeInv, RecallInv, stage = "decide", EngineAssumption,
         UserName \notin {"none", EntityName(line)}
  PROVE  Holds("user.name", UserName)
<1>1. CASE NamesAt # {}
  <2>1. PICK n \in Nat :
          /\ DOMAIN recalled = 1..n
          /\ \A m \in 1..n : \E i \in ActiveAt : recalled[m] = entries[i]
    BY DEF RecallInv
  <2>2. Max(NamesAt) \in NamesAt
    BY <1>1, <2>1, MaxIsIn DEF NamesAt
  <2>3. UserName = recalled[Max(NamesAt)].value
    BY <1>1 DEF UserName
  <2>4. \E i \in ActiveAt : recalled[Max(NamesAt)] = entries[i]
    BY <2>1, <2>2 DEF NamesAt
  <2> QED  BY <2>2, <2>3, <2>4 DEF Holds, Active, ActiveAt, NamesAt
<1>2. CASE NamesAt = {}
  <2>1. UserName = context["user.name"]
    BY <1>2 DEF UserName
  <2> QED  BY <2>1 DEF RecallInv, EngineAssumption
<1> QED  BY <1>1, <1>2

LEMMA ReplyNames ==
  CandidateResponse.name \in {"none", UserName, EntityName(line)}
<1>1. \A s, a, b : Reply(s, a, b).name = a
  BY DEF Reply
<1>2. CASE goal = "AcknowledgeGreeting"
  BY <1>1, <1>2 DEF CandidateResponse
<1>3. CASE goal = "RememberFact"
  <2>1. \E s, b : \/ CandidateResponse = Reply(s, EntityName(line), b)
                  \/ CandidateResponse = Reply(s, "none", b)
    BY <1>3 DEF CandidateResponse
  <2> QED  BY <1>1, <2>1
<1>4. CASE goal = "ProvideRecommendation"
  BY <1>1, <1>4 DEF CandidateResponse
<1>5. CASE goal = "AnswerQuestion"
  BY <1>1, <1>5 DEF CandidateResponse
<1>6. CASE goal \notin {"AcknowledgeGreeting", "RememberFact", "ProvideRecommendation",
                       "AnswerQuestion"}
  <2>1. CandidateResponse = Reply("default", "none", "none")
    BY <1>6 DEF CandidateResponse
  <2> QED  BY <1>1, <2>1
<1> QED  BY <1>2, <1>3, <1>4, <1>5, <1>6

LEMMA RepliesStep ==
  TypeInv /\ ControlInv /\ RecallInv /\ RepliesWithStoredName /\ [EngineNext]_engineVars
    => RepliesWithStoredName'
<1> SUFFICES ASSUME TypeInv, ControlInv, RecallInv, RepliesWithStoredName,
                    [EngineNext]_engineVars
             PROVE  RepliesWithStoredName'
  OBVIOUS
<1>1. CASE Decide
  <2>1. /\ stage = "decide" /\ UNCHANGED <<entries, line>>
        /\ record'.reply = CandidateResponse
    BY <1>1 DEF Decide, vars
  <2>2. CandidateResponse.name \in {"none", UserName, EntityName(line)}
    BY ReplyNames
  <2>3. ASSUME CandidateResponse.name \notin {"none", EntityName(line)}
        PROVE  Holds("user.name", CandidateResponse.name)
    BY <2>1, <2>2, <2>3, RecalledUser, EngineAssumption
  <2>4. EntityName(line)' = EntityName(line)
    BY <2>1 DEF EntityName, Says, Intent
  <2> QED  BY <2>1, <2>3, <2>4 DEF RepliesWithStoredName, Holds, Active
<1>2. CASE \/ Launch \/ \E l \in Lines : Perceive(l)
           \/ Retrieve \/ SelectGoal \/ Respond
           \/ StoreFact \/ SaveFact \/ FactStored \/ StoreRaises
           \/ FinishLearning \/ OpenTrace \/ CloseTrace \/ TraceRaises \/ EndProcess
  <2>1. stage' # "respond"
    BY <1>2 DEF Launch, Perceive, Retrieve, SelectGoal, Respond, StoreFact, SaveFact, FactStored,
                StoreRaises, FinishLearning, OpenTrace, CloseTrace, TraceRaises, EndProcess
  <2> QED  BY <2>1 DEF RepliesWithStoredName
<1>3. CASE UNCHANGED engineVars
  <2>1. UNCHANGED <<stage, record, entries, line>>
    BY <1>3 DEF engineVars, vars
  <2>2. EntityName(line)' = EntityName(line)
    BY <2>1 DEF EntityName, Says, Intent
  <2> QED  BY <2>1, <2>2 DEF RepliesWithStoredName, Active
<1> QED  BY <1>1, <1>2, <1>3 DEF EngineNext, Cycle

\* A reply that names the user says what the line itself says or what memory
\* has as the user's name, after cycles that raised and restarts as well.
THEOREM RepliesAreStored == EngineSpec => []RepliesWithStoredName
<1>1. EngineInit => RepliesWithStoredName
  BY DEF EngineInit, RepliesWithStoredName
<1> QED  BY <1>1, RepliesStep, EngineTypeInv, AlwaysControlInv, AlwaysRecallInv, PTL
         DEF EngineSpec

-----------------------------------------------------------------------------
(* Traces.  Every stage of a cycle adds its spans to those of the stages   *)
(* before it, so that a trace is written with all of them.                 *)

SpansTo(n) == spans = SubSeq(Spans, 1, n)

TraceInv ==
  /\ stage = "retrieve" => SpansTo(3)
  /\ stage = "goal" => SpansTo(5)
  /\ stage = "decide" => SpansTo(6)
  /\ stage = "respond" => SpansTo(10)
  /\ stage \in {"learn", "store"} => SpansTo(11)
  /\ stage \in {"trace", "write"} => spans = Spans
  /\ stage \in {"respond", "learn", "store", "trace", "write"} => record.cycle = cycle
  /\ record = [cycle |-> record.cycle, used |-> record.used, reply |-> record.reply,
               trace |-> record.trace]
  /\ TraceOfLastRecord

Stages == {Spans[i] : i \in 1..12}

LEMMA SpansTyped == Spans \in Seq(Stages) /\ Len(Spans) = 12
<1>1. Len(Spans) = 12
  BY DEF Spans
<1>2. Spans \in Seq(Stages)
  BY DEF Spans, Stages
<1> QED  BY <1>1, <1>2

LEMMA Extended ==
  ASSUME NEW S, NEW s \in Seq(S), NEW m \in 1..Len(s), NEW n \in (m + 1)..Len(s)
  PROVE  SubSeq(s, 1, m) \o SubSeq(s, m + 1, n) = SubSeq(s, 1, n)
OBVIOUS

LEMMA VisitExtends ==
  ASSUME NEW m \in 1..11, NEW n \in (m + 1)..12, SpansTo(m), Visit(m + 1, n)
  PROVE  spans' = SubSeq(Spans, 1, n)
BY SpansTyped, Extended DEF SpansTo, Visit

LEMMA AllSpans == SubSeq(Spans, 1, 12) = Spans
BY SpansTyped

LEMMA TraceInit == EngineInit => TraceInv
BY DEF EngineInit, NoRecord, TraceInv, TraceOfLastRecord

\* Steps that change neither record nor traces keep what is offered.
LEMMA OfferKept ==
  ASSUME TraceInv, UNCHANGED <<record, lastState>>, traces \subseteq traces'
  PROVE  /\ TraceOfLastRecord'
         /\ record' = [cycle |-> record'.cycle, used |-> record'.used, reply |-> record'.reply,
                       trace |-> record'.trace]
BY DEF TraceInv, TraceOfLastRecord

LEMMA CloseTraceOffers ==
  ASSUME TraceInv, CloseTrace
  PROVE  TraceInv'
<1>1. /\ stage = "write" /\ stage' = "idle" /\ lastState' = cycle
      /\ record' = [record EXCEPT !.trace = cycle]
      /\ Trace(TRUE) \in traces'
  BY DEF CloseTrace
<1>2. spans = Spans /\ record.cycle = cycle
  BY <1>1 DEF TraceInv
<1>3. record' = [cycle |-> record.cycle, used |-> record.used, reply |-> record.reply,
                 trace |-> cycle]
  BY <1>1 DEF TraceInv
<1>4. [cycle |-> record'.trace, spans |-> Spans, whole |-> TRUE] \in traces'
  BY <1>1, <1>2, <1>3 DEF Trace
<1> QED  BY <1>1, <1>2, <1>3, <1>4 DEF TraceInv, TraceOfLastRecord

LEMMA TraceStep == ControlInv /\ TraceInv /\ [EngineNext]_engineVars => TraceInv'
<1> SUFFICES ASSUME ControlInv, TraceInv, [EngineNext]_engineVars PROVE TraceInv'
  OBVIOUS
<1>1. CASE Launch
  <2>1. /\ stage' = "idle" /\ record' = NoRecord
    BY <1>1 DEF Launch
  <2> QED  BY <2>1 DEF NoRecord, TraceInv, TraceOfLastRecord
<1>2. ASSUME NEW l \in Lines, Perceive(l) PROVE TraceInv'
  <2>1. stage' = "retrieve" /\ spans' = SubSeq(Spans, 1, 3)
        /\ UNCHANGED <<record, lastState, traces>>
    BY <1>2 DEF Perceive
  <2> QED  BY <2>1, OfferKept DEF TraceInv, SpansTo
<1>3. CASE Retrieve
  <2>1. /\ stage = "retrieve" /\ stage' = "goal" /\ Visit(3 + 1, 5)
        /\ UNCHANGED <<record, lastState, traces>>
    BY <1>3 DEF Retrieve
  <2>2. spans' = SubSeq(Spans, 1, 5)
    BY <2>1, VisitExtends DEF TraceInv
  <2> QED  BY <2>1, <2>2, OfferKept DEF TraceInv, SpansTo
<1>4. CASE SelectGoal
  <2>1. /\ stage = "goal" /\ stage' = "decide" /\ Visit(5 + 1, 6)
        /\ UNCHANGED <<record, lastState, traces>>
    BY <1>4 DEF SelectGoal
  <2>2. spans' = SubSeq(Spans, 1, 6)
    BY <2>1, VisitExtends DEF TraceInv
  <2> QED  BY <2>1, <2>2, OfferKept DEF TraceInv, SpansTo
<1>5. CASE Decide
  <2>1. /\ stage = "decide" /\ stage' = "respond" /\ Visit(6 + 1, 10) /\ cycle' = cycle
        /\ record' = [cycle |-> cycle, used |-> [i \in DOMAIN recalled |-> recalled[i].id],
                      reply |-> CandidateResponse, trace |-> 0]
    BY <1>5 DEF Decide
  <2>2. spans' = SubSeq(Spans, 1, 10)
    BY <2>1, VisitExtends DEF TraceInv
  <2> QED  BY <2>1, <2>2 DEF TraceInv, SpansTo, TraceOfLastRecord
<1>6. CASE Respond
  <2>1. /\ stage = "respond" /\ stage' = "learn" /\ Visit(10 + 1, 11)
        /\ UNCHANGED <<cycle, record, lastState, traces>>
    BY <1>6 DEF Respond
  <2>2. spans' = SubSeq(Spans, 1, 11)
    BY <2>1, VisitExtends DEF TraceInv
  <2> QED  BY <2>1, <2>2, OfferKept DEF TraceInv, SpansTo
<1>7. CASE StoreFact \/ SaveFact \/ FactStored
  <2>1. /\ stage \in {"learn", "store"} /\ stage' \in {"learn", "store"}
        /\ UNCHANGED <<cycle, record, lastState, spans, traces>>
    BY <1>7 DEF StoreFact, SaveFact, FactStored
  <2> QED  BY <2>1, OfferKept DEF TraceInv, SpansTo
<1>8. CASE FinishLearning
  <2>1. /\ stage = "learn" /\ stage' = "trace" /\ Visit(11 + 1, 12)
        /\ UNCHANGED <<cycle, record, lastState, traces>>
    BY <1>8 DEF FinishLearning
  <2>2. spans' = Spans
    BY <2>1, VisitExtends, AllSpans DEF TraceInv
  <2> QED  BY <2>1, <2>2, OfferKept DEF TraceInv, SpansTo
<1>9. CASE OpenTrace
  <2>1. /\ stage = "trace" /\ stage' = "write" /\ traces \subseteq traces'
        /\ UNCHANGED <<cycle, record, lastState, spans>>
    BY <1>9 DEF OpenTrace
  <2> QED  BY <2>1, OfferKept DEF TraceInv, SpansTo
<1>10. CASE CloseTrace
  BY <1>10, CloseTraceOffers
<1>11. CASE StoreRaises \/ TraceRaises \/ EndProcess
  <2>1. stage' \in {"idle", "down"} /\ UNCHANGED <<record, lastState, traces>>
    BY <1>11 DEF StoreRaises, TraceRaises, EndProcess
  <2> QED  BY <2>1, OfferKept DEF TraceInv
<1>12. CASE UNCHANGED engineVars
  <2>1. UNCHANGED <<stage, cycle, record, lastState, spans, traces>>
    BY <1>12 DEF engineVars
  <2> QED  BY <2>1, OfferKept DEF TraceInv, SpansTo
<1> QED
  BY <1>1, <1>2, <1>3, <1>4, <1>5, <1>6, <1>7, <1>8, <1>9, <1>10, <1>11, <1>12
  DEF EngineNext, Cycle

\* The trace that goes with the last record is the whole trace of its cycle,
\* with every stage once, whatever cycles raised or were cut short before.
THEOREM TraceIsOfTheRecord == EngineSpec => []TraceOfLastRecord
<1>1. TraceInv => TraceOfLastRecord
  BY DEF TraceInv
<1> QED  BY <1>1, TraceInit, TraceStep, AlwaysControlInv, PTL DEF EngineSpec
=============================================================================
