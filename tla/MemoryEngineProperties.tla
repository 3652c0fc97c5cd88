------------------------- MODULE MemoryEngineProperties -------------------------
(***************************************************************************)
(* What the memory of facts must satisfy across statements, failed writes  *)
(* and restarts.                                                           *)
(***************************************************************************)
EXTENDS MemoryEngine

EntryType ==
  [id : 1..MaxIds, key : Keys, value : Values, status : {"active", "superseded"}, by : 0..MaxIds]

\* There are never more entries than ids were taken.
TypeOK ==
  /\ entries \in Seq(EntryType) /\ file.entries \in Seq(EntryType)
  /\ counter \in 0..MaxIds
  /\ Len(entries) <= counter
  /\ phase \in {"down", "idle", "saving", "writing"}
  /\ returned \in BOOLEAN
  /\ file \in {NoFile, EmptyFile, TornFile, FileWith(file.entries)}

\* The entries of a key form one chain: an entry is active exactly when it is
\* the last of its key, and one that is not names the id of the next.
Chained(es) ==
  \A i \in DOMAIN es :
    LET later == {j \in DOMAIN es : j > i /\ es[j].key = es[i].key} IN
    IF later = {}
    THEN es[i].status = "active"
    ELSE /\ es[i].status = "superseded"
         /\ \E j \in later : es[j].id = es[i].by /\ \A m \in later : j <= m

\* get_fact answers with the latest statement about a key, in memory and after
\* a restart from whatever the file holds, although ids may repeat.
FactIsLatest == Chained(entries) /\ Chained(file.entries)

\* A store_fact that returned is on disk, with all that was stated before it
\* and with the statements of calls that raised.
ReturnedIsSaved == phase = "idle" /\ returned /\ entries # <<>> => file = FileWith(entries)

\* The entries are a log: statements are appended, also by calls that raise;
\* a value is never rewritten, and what a restart brings back is a whole copy
\* or nothing.
FactsOf(es) == [i \in DOMAIN es |-> <<es[i].key, es[i].value>>]
FactLogOf ==
  INSTANCE FactLog WITH
    Facts <- Keys \X Values,
    log <- FactsOf(entries),
    disk <- FactsOf(file.entries),
    readable <- file.form # "torn"

ImplementsFactLog == FactLogOf!Spec

-----------------------------------------------------------------------------
(* What the documentation says and the code does not do. *)

=============================================================================
