------------------------------ MODULE MemoryEngine ------------------------------
(***************************************************************************)
(* DeterministicMemoryEngine over JSONMemoryRepository: facts stored under *)
(* keys, superseded and never removed, and written as a whole to one file  *)
(* after every statement.  The process may end at any point, and writing   *)
(* may raise.  One step is the part of store_fact that changes the entries *)
(* in memory, the opening of the file, which truncates it, or the end of   *)
(* the write.                                                              *)
(***************************************************************************)
EXTENDS Naturals, Sequences

CONSTANTS
  Keys, Values,
  MaxIds           \* bound on the ids one engine issues

ASSUME MaxIdsAssumption == MaxIds \in Nat

VARIABLES
  entries,   \* MemoryEngine._entries
  counter,   \* MemoryEngine._counter
  phase,     \* "down", "idle", "saving" (before open), "writing" (after it)
  returned,  \* whether the last store_fact returned; it raised otherwise
  file       \* the repository's file

vars == <<entries, counter, phase, returned, file>>

Entry(id, k, v) == [id |-> id, key |-> k, value |-> v, status |-> "active", by |-> 0]

\* The file is missing, has no content, is cut short, or holds entries.
NoFile == [form |-> "missing", entries |-> <<>>]
EmptyFile == [form |-> "empty", entries |-> <<>>]
TornFile == [form |-> "torn", entries |-> <<>>]
FileWith(es) == [form |-> "whole", entries |-> es]

Init ==
  /\ entries = <<>> /\ counter = 0
  /\ phase = "down" /\ returned = TRUE
  /\ file = NoFile

\* load_all and __init__: ids go on from the number of entries.
Start ==
  /\ phase = "down" /\ file.form # "torn"
  /\ entries' = file.entries
  /\ counter' = Len(file.entries)
  /\ phase' = "idle" /\ returned' = TRUE
  /\ UNCHANGED file

\* load_all raises on a file it cannot decode.
StartFails ==
  /\ phase = "down" /\ file.form = "torn"
  /\ UNCHANGED vars

-----------------------------------------------------------------------------
(* store_fact takes an id first, whatever becomes of it. *)

IsActive(i, k) == entries[i].key = k /\ entries[i].status = "active"

TakeId == phase = "idle" /\ counter < MaxIds /\ counter' = counter + 1

\* Fault: superseded entries stay active.
SupersedeBeforeNone(end, k, id) == entries

\* The entries before index `end` that hold the key are superseded by the id.
SupersedeBefore(end, k, id) ==
  [i \in DOMAIN entries |->
     IF i < end /\ IsActive(i, k)
     THEN [entries[i] EXCEPT !.status = "superseded", !.by = id]
     ELSE entries[i]]

\* Fault: the call returns without the save.
ConfirmFactUnsaved(k, v) ==
  /\ TakeId
  /\ \E i \in DOMAIN entries : IsActive(i, k) /\ entries[i].value = v
  /\ returned' = TRUE
  /\ UNCHANGED <<entries, phase, file>>

\* An active entry has the value already: it is confirmed, and those of the
\* key before it are superseded.
ConfirmFact(k, v) ==
  /\ TakeId
  /\ \E i \in DOMAIN entries :
        /\ IsActive(i, k) /\ entries[i].value = v
        /\ \A j \in 1..(i - 1) : ~ (IsActive(j, k) /\ entries[j].value = v)
        /\ entries' = SupersedeBefore(i, k, counter')
  /\ phase' = "saving"
  /\ UNCHANGED <<returned, file>>

\* Fault: the value of the active entry is replaced.
AddFactInPlace(k, v) ==
  /\ TakeId
  /\ ~ \E i \in DOMAIN entries : IsActive(i, k) /\ entries[i].value = v
  /\ entries' = IF \E i \in DOMAIN entries : IsActive(i, k)
                THEN [i \in DOMAIN entries |->
                        IF IsActive(i, k) THEN Entry(entries[i].id, k, v) ELSE entries[i]]
                ELSE Append(entries, Entry(counter', k, v))
  /\ phase' = "saving"
  /\ UNCHANGED <<returned, file>>

AddFact(k, v) ==
  /\ TakeId
  /\ ~ \E i \in DOMAIN entries : IsActive(i, k) /\ entries[i].value = v
  /\ entries' =
       Append(SupersedeBefore(Len(entries) + 1, k, counter'), Entry(counter', k, v))
  /\ phase' = "saving"
  /\ UNCHANGED <<returned, file>>

-----------------------------------------------------------------------------
(* save_all. *)

\* open(..., "w")
OpenFile ==
  /\ phase = "saving"
  /\ phase' = "writing"
  /\ file' = EmptyFile
  /\ UNCHANGED <<entries, counter, returned>>

WriteFile ==
  /\ phase = "writing"
  /\ phase' = "idle" /\ returned' = TRUE
  /\ file' = FileWith(entries)
  /\ UNCHANGED <<entries, counter>>

\* What a write that was not finished leaves.
Interrupted == IF phase = "writing" THEN file' \in {EmptyFile, TornFile} ELSE UNCHANGED file

\* open or dump raises and store_fact with it: the entries stay changed.
SaveFails ==
  /\ phase \in {"saving", "writing"}
  /\ phase' = "idle" /\ returned' = FALSE
  /\ Interrupted
  /\ UNCHANGED <<entries, counter>>

\* The process ends.
Exit ==
  /\ phase # "down"
  /\ phase' = "down"
  /\ Interrupted
  /\ UNCHANGED <<entries, counter, returned>>

Next ==
  \/ Start \/ StartFails
  \/ \E k \in Keys, v \in Values : ConfirmFact(k, v) \/ AddFact(k, v)
  \/ OpenFile \/ WriteFile \/ SaveFails \/ Exit

Spec == Init /\ [][Next]_vars
=============================================================================
