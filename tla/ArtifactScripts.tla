---------------------------- MODULE ArtifactScripts ----------------------------
(***************************************************************************)
(* The scripts of scripts/dataset_generator as processes over the files    *)
(* of one data directory.  What a script does with files that other        *)
(* scripts write is its body, a sequence of steps:                         *)
(*   pin      hash the file and assert the hash that is in the source      *)
(*   hold     hash the file and keep the hash                              *)
(*   read     parse the file                                               *)
(*   check    assert something of what was read                            *)
(*   write    open the file, which truncates it, and dump the result       *)
(*   report   write files that no script reads                             *)
(*   compare  hash the file again and assert the hash pinned or held       *)
(* A file that is hashed, parsed and hashed again is opened three times,   *)
(* and another script may write it in between.                             *)
(*                                                                         *)
(* A file whose hash some script asserts has the time of its writing in    *)
(* it, or weights that another training run does not give again bit by     *)
(* bit: no two writes give the same bytes.  A content has a stamp of its   *)
(* own, and only the file the hashes in the sources were taken of has      *)
(* stamp 0.                                                                *)
(***************************************************************************)
EXTENDS Naturals, Sequences

CONSTANTS
    Scripts,            \* names of the scripts
    Files,              \* names of the files some script writes
    Body,               \* the steps of each script
    Starts,             \* where the model begins: a disk, the scripts launched
                        \* from there, and how many launches (a bound)
    Slots,              \* processes at a time (a bound)
    Labels(_, _),       \* the labels of a file a script writes: those of a review,
                        \* or of the file read that they are copied from
    Accepts(_, _)       \* the script's check of what it read

Kinds == {"pin", "hold", "read", "check", "write", "report", "compare"}

\* The positions of the steps of a script of one kind on one file.
Positions(s, kind, f) == {i \in DOMAIN Body[s] : Body[s][i].do = kind /\ Body[s][i].file = f}

Hashes(s, f) == Positions(s, "pin", f) \cup Positions(s, "hold", f)

Compared(s) == {f \in Files : Positions(s, "compare", f) # {}}

\* A script hashes what it will compare once, before it parses it, and what it
\* parses of it comes before a comparison.  It checks what it read when it has
\* read everything, and has read a file whose labels it copies.
ASSUME BodyAssumption ==
    \A s \in Scripts :
        /\ Body[s] \in Seq([do : Kinds, file : Files])
        /\ \A f \in Compared(s) :
            /\ \E h \in Hashes(s, f) :
                /\ Hashes(s, f) = {h}
                /\ \A i \in Positions(s, "read", f) \cup Positions(s, "compare", f) : h < i
            /\ \E c \in Positions(s, "compare", f) : \A i \in Positions(s, "read", f) : i < c
        /\ \A f, g \in Files :
            \A c \in Positions(s, "check", f), i \in Positions(s, "read", g) : i < c
        /\ \A f, g \in Files : Labels(s, f) = g =>
            \A i \in Positions(s, "write", f) : \E j \in Positions(s, "read", g) : j < i

Bases == {"none", "blank", "finished"}

\* The bytes of a file: whose write they are of, whether that write came to its
\* end, and the review the labels in it go back to.
Content == [stamp : Nat, whole : BOOLEAN, basis : Bases]

\* The model begins with files that nobody has written yet.
ASSUME StartsAssumption ==
    \A s \in Starts :
        /\ s.disk \in [Files -> Content] /\ \A f \in Files : s.disk[f].stamp = 0
        /\ s.scripts \subseteq Scripts /\ s.launches \in Nat

ASSUME LabelsAssumption ==
    /\ "" \notin Scripts
    /\ \A s \in Scripts : \A f \in Files : Labels(s, f) \in Bases \cup Files

VARIABLES
    disk,       \* the content of each file
    stamp,      \* of the last write
    procs,      \* what runs in each slot
    start,      \* the member of Starts
    launched,   \* launches so far
    closed      \* the launches that ran to their end, with what they hashed and read

vars == <<disk, stamp, procs, start, launched, closed>>

Missing     == [stamp |-> 0, whole |-> FALSE, basis |-> "none"]
Original(b) == [stamp |-> 0, whole |-> TRUE, basis |-> b]

Process(script, at) ==
    [script |-> script, at |-> at, opened |-> 0,
     held |-> [f \in Files |-> Missing], read |-> [f \in Files |-> Missing]]

Idle == Process("", 0)

Init ==
    /\ start \in Starts /\ disk = start.disk
    /\ stamp = 0 /\ launched = 0 /\ closed = {}
    /\ procs = [p \in Slots |-> Idle]

\* main() is called.
Launch(p, s) ==
    /\ procs[p] = Idle /\ launched < start.launches /\ s \in start.scripts
    /\ procs' = [procs EXCEPT ![p] = Process(s, 1)]
    /\ launched' = launched + 1
    /\ UNCHANGED <<disk, stamp, start, closed>>

\* The step a process is at, if it has one left.
Steps(p) ==
    IF procs[p] = Idle \/ procs[p].at > Len(Body[procs[p].script]) THEN {}
    ELSE {Body[procs[p].script][procs[p].at]}

At(p, kind, f) == [do |-> kind, file |-> f] \in Steps(p)

HavingWritten(q)          == [q EXCEPT !.opened = 0, !.at = @ + 1]
Holding(q, f, content)    == [q EXCEPT !.held[f] = content, !.at = @ + 1]
HavingRead(q, f, content) == [q EXCEPT !.read[f] = content, !.at = @ + 1]

\* A file without a hash to assert can be hashed in any state but missing.
Hash(p, f) ==
    /\ \/ At(p, "pin", f) /\ disk[f].stamp = 0 /\ disk[f].whole
       \/ At(p, "hold", f) /\ disk[f] # Missing
    /\ procs' = [procs EXCEPT ![p] = Holding(@, f, disk[f])]
    /\ UNCHANGED <<disk, stamp, start, launched, closed>>

\* json.load raises on a file cut short.
Read(p, f) ==
    /\ At(p, "read", f) /\ disk[f].whole
    /\ procs' = [procs EXCEPT ![p] = HavingRead(@, f, disk[f])]
    /\ UNCHANGED <<disk, stamp, start, launched, closed>>

Check(p) ==
    /\ \E s \in Steps(p) : s.do = "check"
    /\ Accepts(procs[p].script, procs[p].read)
    /\ procs' = [procs EXCEPT ![p].at = @ + 1]
    /\ UNCHANGED <<disk, stamp, start, launched, closed>>

Report(p) ==
    /\ \E s \in Steps(p) : s.do = "report"
    /\ procs' = [procs EXCEPT ![p].at = @ + 1]
    /\ UNCHANGED <<disk, stamp, start, launched, closed>>

Open(p, f) ==
    /\ At(p, "write", f) /\ procs[p].opened = 0
    /\ stamp' = stamp + 1
    /\ disk' = [disk EXCEPT ![f] = [stamp |-> stamp', whole |-> FALSE, basis |-> "none"]]
    /\ procs' = [procs EXCEPT ![p].opened = stamp']
    /\ UNCHANGED <<start, launched, closed>>

Written(p, f) ==
    LET l == Labels(procs[p].script, f) IN IF l \in Bases THEN l ELSE procs[p].read[l].basis

\* A file that another process has opened since holds parts of both.
Write(p, f) ==
    /\ At(p, "write", f) /\ procs[p].opened # 0
    /\ stamp' = stamp + 1
    /\ LET alone == disk[f].stamp = procs[p].opened
       IN disk' = [disk EXCEPT ![f] = [stamp |-> stamp', whole |-> alone,
                                       basis |-> IF alone THEN Written(p, f) ELSE "none"]]
    /\ procs' = [procs EXCEPT ![p] = HavingWritten(@)]
    /\ UNCHANGED <<start, launched, closed>>

\* Mutant: the hash is taken again and not compared.
CompareSkips(p, f) ==
    /\ At(p, "compare", f)
    /\ procs' = [procs EXCEPT ![p].at = @ + 1]
    /\ UNCHANGED <<disk, stamp, start, launched, closed>>

Compare(p, f) ==
    /\ At(p, "compare", f) /\ disk[f] = procs[p].held[f]
    /\ procs' = [procs EXCEPT ![p].at = @ + 1]
    /\ UNCHANGED <<disk, stamp, start, launched, closed>>

Finish(p) ==
    /\ procs[p] # Idle /\ procs[p].at > Len(Body[procs[p].script])
    /\ closed' = closed \cup {[script |-> procs[p].script, held |-> procs[p].held,
                               read |-> procs[p].read]}
    /\ procs' = [procs EXCEPT ![p] = Idle]
    /\ UNCHANGED <<disk, stamp, start, launched>>

\* The process ends early: an assertion fails, a file is missing or does not
\* parse, or it is killed.  What it wrote stays.
Exit(p) ==
    /\ procs[p] # Idle
    /\ procs' = [procs EXCEPT ![p] = Idle]
    /\ UNCHANGED <<disk, stamp, start, launched, closed>>

Step(p) ==
    \/ \E f \in {s.file : s \in Steps(p)} :
            Hash(p, f) \/ Read(p, f) \/ Open(p, f) \/ Write(p, f) \/ Compare(p, f)
    \/ Check(p) \/ Report(p) \/ Finish(p) \/ Exit(p)

Next == \E p \in Slots : Step(p) \/ \E s \in Scripts : Launch(p, s)

Spec == Init /\ [][Next]_vars

-----------------------------------------------------------------------------
Running == [script : Scripts, at : Nat \ {0}, opened : Nat, held : [Files -> Content],
            read : [Files -> Content]]

\* Contents, processes and the directory they work on are well formed.
TypeOK ==
    /\ disk \in [Files -> Content] /\ stamp \in Nat /\ launched \in Nat
    /\ procs \in [Slots -> Running \cup {Idle}]
    /\ start \in Starts

\* A script that came to its end parsed, of every file that it hashes before and
\* after, the bytes it hashed, although these are three separate opens and other
\* scripts may write the file between any two (the closing "was modified"
\* assertions, e.g. run_calibration_batch.py:300).
ClosedOnWhatItRead ==
    \A l \in closed : \A f \in Compared(l.script) : l.read[f] \in {Missing, l.held[f]}
=============================================================================
