------------------------- MODULE ArtifactScriptsProofs -------------------------
(***************************************************************************)
(* What the closing comparison of a script is worth, for every set of      *)
(* scripts whose steps meet BodyAssumption, every directory, any number of *)
(* processes at a time and of launches.                                    *)
(***************************************************************************)
EXTENDS DatasetScripts, FiniteSetTheorems, TLAPS

\* Of two contents a file has had, the second is a later write, or the same.
Ordered(c, d) == c.stamp < d.stamp \/ c = d

(* What holds of a file that the script s compares, for a process at step  *)
(* `at` that keeps the content `held` and parsed the content `read`, while *)
(* the file has the content `now`: parsed after it was hashed, and still   *)
(* what was hashed once a comparison after all the parsing has passed.     *)
Vouched(s, f, at, held, read, now) ==
    /\ \A i \in Hashes(s, f) : at <= i => read = Missing
    /\ \A i \in Hashes(s, f) : at > i => Ordered(held, now)
    /\ read # Missing => Ordered(held, read) /\ Ordered(read, now)
    /\ \A i \in Positions(s, "compare", f) :
         at > i /\ (\A j \in Positions(s, "read", f) : j < i) => read \in {Missing, held}

StampsAreCurrent == \A f \in Files : disk[f].stamp <= stamp

EveryProcessVouches ==
    \A p \in Slots : procs[p] # Idle =>
        \A f \in Compared(procs[p].script) :
            Vouched(procs[p].script, f, procs[p].at, procs[p].held[f], procs[p].read[f], disk[f])

IInv == TypeOK /\ StampsAreCurrent /\ EveryProcessVouches /\ ClosedOnWhatItRead

-----------------------------------------------------------------------------
(* The order of contents, and what a step does to one file's part of       *)
(* Vouched.                                                                *)

LEMMA OrderIsAntisymmetric ==
    ASSUME NEW c \in Content, NEW d \in Content, Ordered(c, d), Ordered(d, c)
    PROVE  c = d
BY DEF Ordered, Content

LEMMA OrderIsTransitive ==
    ASSUME NEW b \in Content, NEW c \in Content, NEW d \in Content, Ordered(b, c), Ordered(c, d)
    PROVE  Ordered(b, d)
BY DEF Ordered, Content

\* Another write of the file only makes it later.
LEMMA VouchedAfterWrite ==
    ASSUME NEW s \in Scripts, NEW f \in Files, NEW at \in Nat,
           NEW held \in Content, NEW read \in Content, NEW now \in Content, NEW later \in Content,
           Vouched(s, f, at, held, read, now), Ordered(now, later)
    PROVE  Vouched(s, f, at, held, read, later)
BY OrderIsTransitive DEF Vouched

\* The positions of the steps are numbers, and a step is of one kind and one file.
LEMMA PositionsOfOneStep ==
    ASSUME NEW s \in Scripts, NEW i \in DOMAIN Body[s]
    PROVE  /\ i \in Nat \ {0}
           /\ \A kind \in Kinds : \A f \in Files :
                i \in Positions(s, kind, f) <=> Body[s][i] = [do |-> kind, file |-> f]
<1>1. Body[s] \in Seq([do : Kinds, file : Files])  BY BodyAssumption
<1>2. i \in Nat \ {0}  BY <1>1
<1>3. Body[s][i] \in [do : Kinds, file : Files]
  <2> DEFINE S == [do : Kinds, file : Files]
  <2>1. Body[s] \in Seq(S)  BY <1>1
  <2> HIDE DEF S
  <2>2. Body[s][i] \in S  BY <2>1
  <2> QED  BY <2>2 DEF S
<1> QED  BY <1>2, <1>3 DEF Positions

LEMMA PositionsAreNumbers ==
    ASSUME NEW s \in Scripts, NEW kind, NEW f, NEW i \in Positions(s, kind, f)
    PROVE  i \in Nat \ {0} /\ i \in DOMAIN Body[s] /\ i <= Len(Body[s])
<1>1. Body[s] \in Seq([do : Kinds, file : Files])  BY BodyAssumption
<1> QED  BY <1>1 DEF Positions

\* A step that neither hashes the file nor parses it; if it compares it, the file
\* has the content that was held.
LEMMA VouchedAfterOtherStep ==
    ASSUME NEW s \in Scripts, NEW f \in Files, NEW at \in Nat,
           NEW held \in Content, NEW read \in Content, NEW now \in Content,
           Vouched(s, f, at, held, read, now),
           at \notin Hashes(s, f), at \in Positions(s, "compare", f) => now = held,
           \A i \in Positions(s, "compare", f) : \A h \in Hashes(s, f) : h < i
    PROVE  Vouched(s, f, at + 1, held, read, now)
<1>1. \A i \in Hashes(s, f) : i \in Nat  BY PositionsAreNumbers DEF Hashes
<1>2. \A i \in Positions(s, "compare", f) : i \in Nat  BY PositionsAreNumbers
<1>3. \A i \in Hashes(s, f) : (at + 1 <= i => at <= i) /\ (at + 1 > i => at > i)  BY <1>1
<1>4. ASSUME NEW i \in Positions(s, "compare", f), at + 1 > i,
             \A j \in Positions(s, "read", f) : j < i
      PROVE  read \in {Missing, held}
  <2>1. CASE at > i  BY <1>4, <2>1 DEF Vouched
  <2>2. CASE at = i
    <3>1. now = held  BY <2>2
    <3> QED  BY <3>1, OrderIsAntisymmetric DEF Vouched
  <2> QED  BY <1>2, <1>4, <2>1, <2>2
<1> QED  BY <1>3, <1>4 DEF Vouched

-----------------------------------------------------------------------------
(* One process steps, and files may be written. *)

LEMMA ContentsTyped ==
    Missing \in Content /\ \A s \in Starts : s.disk \in [Files -> Content]
BY StartsAssumption DEF Missing, Content, Bases

LEMMA IdleIsNotRunning == Idle \notin Running
BY LabelsAssumption DEF Idle, Process, Running

LEMMA IInvInit == Init => IInv
<1> SUFFICES ASSUME Init PROVE IInv
  OBVIOUS
<1>1. TypeOK  BY ContentsTyped DEF Init, TypeOK
<1>2. StampsAreCurrent  BY StartsAssumption DEF Init, StampsAreCurrent
<1>3. EveryProcessVouches  BY DEF Init, EveryProcessVouches
<1>4. ClosedOnWhatItRead  BY DEF Init, ClosedOnWhatItRead
<1> QED  BY <1>1, <1>2, <1>3, <1>4 DEF IInv

\* A process's part of the invariant for a record that may take its place.
Vouches(q) == q # Idle =>
    \A f \in Compared(q.script) : Vouched(q.script, f, q.at, q.held[f], q.read[f], disk[f])

LEMMA ProcessReplaced ==
    ASSUME IInv, NEW p \in Slots, NEW q \in Running \cup {Idle},
           procs' = [procs EXCEPT ![p] = q], Vouches(q),
           disk' \in [Files -> Content], stamp' \in Nat, StampsAreCurrent',
           \A f \in Files : Ordered(disk[f], disk'[f]),
           launched' \in Nat, start' = start, ClosedOnWhatItRead'
    PROVE  IInv'
<1>1. TypeOK'  BY DEF IInv, TypeOK
<1>2. \A r \in Slots : Vouches(procs[r])  BY DEF IInv, EveryProcessVouches, Vouches
<1>3. ASSUME NEW r \in Slots, procs'[r] # Idle, NEW f \in Compared(procs'[r].script)
      PROVE  Vouched(procs'[r].script, f, procs'[r].at, procs'[r].held[f], procs'[r].read[f],
                     disk'[f])
  <2> DEFINE v == procs'[r]
  <2>1. v \in Running /\ Vouches(v)
    BY <1>2, <1>3 DEF IInv, TypeOK
  <2>2. f \in Files /\ v.script \in Scripts /\ v.at \in Nat /\ v.held[f] \in Content
        /\ v.read[f] \in Content
    BY <1>3, <2>1 DEF Running, Compared
  <2>3. disk[f] \in Content /\ disk'[f] \in Content /\ Ordered(disk[f], disk'[f])
    BY <2>2 DEF IInv, TypeOK
  <2>4. Vouched(v.script, f, v.at, v.held[f], v.read[f], disk[f])
    BY <1>3, <2>1 DEF Vouches
  <2> QED  BY <2>2, <2>3, <2>4, VouchedAfterWrite
<1>4. EveryProcessVouches'  BY <1>3 DEF EveryProcessVouches
<1> QED  BY <1>1, <1>4 DEF IInv

\* The case of a step that leaves the files as they are.
LEMMA ProcessAlone ==
    ASSUME IInv, NEW p \in Slots, NEW q \in Running \cup {Idle},
           procs' = [procs EXCEPT ![p] = q], Vouches(q),
           disk' = disk, stamp' = stamp, launched' \in Nat, start' = start, ClosedOnWhatItRead'
    PROVE  IInv'
<1>1. disk' \in [Files -> Content] /\ stamp' \in Nat  BY DEF IInv, TypeOK
<1>2. StampsAreCurrent'  BY DEF IInv, StampsAreCurrent
<1>3. \A f \in Files : Ordered(disk[f], disk'[f])  BY DEF Ordered
<1> QED  BY <1>1, <1>2, <1>3, ProcessReplaced

\* The case of a step that writes one file.
LEMMA ProcessWrites ==
    ASSUME IInv, NEW p \in Slots, NEW q \in Running,
           procs' = [procs EXCEPT ![p] = q], Vouches(q),
           NEW g \in Files, NEW c \in Content, c.stamp = stamp + 1,
           disk' = [disk EXCEPT ![g] = c], stamp' = stamp + 1,
           launched' = launched, start' = start, closed' = closed
    PROVE  IInv'
<1>1. disk \in [Files -> Content] /\ stamp \in Nat /\ launched \in Nat  BY DEF IInv, TypeOK
<1>2. \A f \in Files : disk[f].stamp \in Nat /\ disk[f].stamp <= stamp
  BY <1>1 DEF IInv, StampsAreCurrent, Content
<1>3. disk' \in [Files -> Content] /\ stamp' \in Nat  BY <1>1
<1>4. \A f \in Files : disk'[f] = IF f = g THEN c ELSE disk[f]  BY <1>1
<1>5. \A f \in Files : Ordered(disk[f], disk'[f])  BY <1>1, <1>2, <1>4 DEF Ordered
<1>6. StampsAreCurrent'  BY <1>1, <1>2, <1>4 DEF StampsAreCurrent
<1>7. ClosedOnWhatItRead'  BY DEF IInv, ClosedOnWhatItRead
<1> QED  BY <1>1, <1>3, <1>5, <1>6, <1>7, ProcessReplaced

(***************************************************************************)
(* The records a process goes through.                                     *)
(***************************************************************************)
LEMMA Advanced ==
    ASSUME NEW q \in Running
    PROVE  LET r == [q EXCEPT !.at = @ + 1] IN
           /\ r \in Running /\ r.script = q.script /\ r.at = q.at + 1
           /\ r.held = q.held /\ r.read = q.read
<1>1. q.at + 1 \in Nat \ {0}  BY DEF Running
<1> QED  BY <1>1, Zenon DEF Running

LEMMA Opened ==
    ASSUME NEW q \in Running, NEW n \in Nat
    PROVE  LET r == [q EXCEPT !.opened = n] IN
           /\ r \in Running /\ r.script = q.script /\ r.at = q.at
           /\ r.held = q.held /\ r.read = q.read
BY Zenon DEF Running

LEMMA Wrote ==
    ASSUME NEW q \in Running
    PROVE  LET r == HavingWritten(q) IN
           /\ r \in Running /\ r.script = q.script /\ r.at = q.at + 1
           /\ r.held = q.held /\ r.read = q.read
<1>1. q.at + 1 \in Nat \ {0} /\ 0 \in Nat  BY DEF Running
<1> QED  BY <1>1, Zenon DEF Running, HavingWritten

LEMMA Held ==
    ASSUME NEW q \in Running, NEW f \in Files, NEW c \in Content
    PROVE  LET r == Holding(q, f, c) IN
           /\ r \in Running /\ r.script = q.script /\ r.at = q.at + 1
           /\ r.held = [q.held EXCEPT ![f] = c] /\ r.read = q.read
<1>1. q.at + 1 \in Nat \ {0} /\ [q.held EXCEPT ![f] = c] \in [Files -> Content]  BY DEF Running
<1> QED  BY <1>1, Zenon DEF Running, Holding

LEMMA Parsed ==
    ASSUME NEW q \in Running, NEW f \in Files, NEW c \in Content
    PROVE  LET r == HavingRead(q, f, c) IN
           /\ r \in Running /\ r.script = q.script /\ r.at = q.at + 1
           /\ r.held = q.held /\ r.read = [q.read EXCEPT ![f] = c]
<1>1. q.at + 1 \in Nat \ {0} /\ [q.read EXCEPT ![f] = c] \in [Files -> Content]  BY DEF Running
<1> QED  BY <1>1, Zenon DEF Running, HavingRead

-----------------------------------------------------------------------------
(* Each action. *)

\* The process at a step is running its script and is inside it.
LEMMA AtAStep ==
    ASSUME TypeOK, NEW p \in Slots, NEW step \in Steps(p)
    PROVE  /\ procs[p] # Idle /\ procs[p] \in Running /\ procs[p].script \in Scripts
           /\ procs[p].at \in DOMAIN Body[procs[p].script]
           /\ step = Body[procs[p].script][procs[p].at]
           /\ step.do \in Kinds /\ step.file \in Files
<1>1. procs[p] # Idle /\ procs[p] \in Running  BY DEF TypeOK, Steps
<1>2. procs[p].script \in Scripts /\ procs[p].at \in Nat \ {0}  BY <1>1 DEF Running
<1> DEFINE b == Body[procs[p].script]
<1>3. b \in Seq([do : Kinds, file : Files])  BY <1>2, BodyAssumption
<1>4. procs[p].at <= Len(b) /\ step = b[procs[p].at]  BY <1>1, <1>2, <1>3 DEF Steps
<1>5. procs[p].at \in DOMAIN b  BY <1>2, <1>3, <1>4
<1>6. b[procs[p].at] \in [do : Kinds, file : Files]
  <2> DEFINE S == [do : Kinds, file : Files]
  <2>1. b \in Seq(S)  BY <1>3
  <2> HIDE DEF S, b
  <2>2. b[procs[p].at] \in S  BY <1>5, <2>1
  <2> QED  BY <2>2 DEF S
<1> QED  BY <1>1, <1>2, <1>4, <1>5, <1>6

\* What BodyAssumption says of the step a process is at.
LEMMA WhereTheStepIs ==
    ASSUME TypeOK, NEW p \in Slots, NEW step \in Steps(p), NEW f \in Compared(procs[p].script)
    PROVE  LET s == procs[p].script
               at == procs[p].at
           IN /\ s \in Scripts /\ f \in Files /\ at \in Nat
              /\ at \in Hashes(s, f) <=> step.file = f /\ step.do \in {"pin", "hold"}
              /\ at \in Positions(s, "compare", f) <=> step.file = f /\ step.do = "compare"
              /\ at \in Positions(s, "read", f) <=> step.file = f /\ step.do = "read"
              /\ \A i \in Positions(s, "compare", f) \cup Positions(s, "read", f) :
                    \A h \in Hashes(s, f) : h < i
              /\ \A h, i \in Hashes(s, f) : h = i
<1> DEFINE s == procs[p].script  at == procs[p].at
<1>1. s \in Scripts /\ at \in DOMAIN Body[s] /\ step = Body[s][at]  BY AtAStep
<1>2. f \in Files  BY DEF Compared
<1>3. at \in Nat  BY <1>1, PositionsOfOneStep
<1>4. \A kind \in Kinds : at \in Positions(s, kind, f) <=> step.do = kind /\ step.file = f
  BY <1>1 DEF Positions
<1>5. \E h \in Hashes(s, f) :
        /\ Hashes(s, f) = {h}
        /\ \A i \in Positions(s, "read", f) \cup Positions(s, "compare", f) : h < i
  BY <1>1, BodyAssumption
<1> HIDE DEF s, at
<1>6. /\ at \in Hashes(s, f) <=> step.file = f /\ step.do \in {"pin", "hold"}
      /\ at \in Positions(s, "compare", f) <=> step.file = f /\ step.do = "compare"
      /\ at \in Positions(s, "read", f) <=> step.file = f /\ step.do = "read"
  BY <1>4 DEF Hashes, Kinds
<1>7. /\ \A i \in Positions(s, "compare", f) \cup Positions(s, "read", f) :
            \A h \in Hashes(s, f) : h < i
      /\ \A h, i \in Hashes(s, f) : h = i
  BY <1>5
<1> QED  BY <1>1, <1>2, <1>3, <1>6, <1>7 DEF s, at

\* A file that the step neither hashes nor parses keeps what was vouched.
LEMMA OtherFileVouched ==
    ASSUME IInv, NEW p \in Slots, NEW step \in Steps(p), NEW q \in Running,
           q.script = procs[p].script, q.at = procs[p].at + 1,
           NEW f \in Compared(q.script), q.held[f] = procs[p].held[f],
           q.read[f] = procs[p].read[f],
           ~ (step.file = f /\ step.do \in {"pin", "hold"}),
           step.file = f /\ step.do = "compare" => disk[f] = procs[p].held[f]
    PROVE  Vouched(q.script, f, q.at, q.held[f], q.read[f], disk[f])
<1> DEFINE v == procs[p]
<1>0. TypeOK  BY DEF IInv
<1>1. v # Idle /\ v \in Running  BY <1>0, AtAStep
<1>2. f \in Compared(v.script)  OBVIOUS
<1>3. v.held[f] \in Content /\ v.read[f] \in Content /\ disk[f] \in Content
  BY <1>0, <1>1, <1>2, WhereTheStepIs DEF Running, TypeOK
<1>4. Vouched(v.script, f, v.at, v.held[f], v.read[f], disk[f])
  BY <1>1, <1>2 DEF IInv, EveryProcessVouches
<1>5. /\ v.script \in Scripts /\ f \in Files /\ v.at \in Nat
      /\ v.at \notin Hashes(v.script, f)
      /\ v.at \in Positions(v.script, "compare", f) => disk[f] = v.held[f]
      /\ \A i \in Positions(v.script, "compare", f) : \A h \in Hashes(v.script, f) : h < i
  BY <1>0, <1>2, WhereTheStepIs
<1> HIDE DEF v
<1>6. Vouched(v.script, f, v.at + 1, v.held[f], v.read[f], disk[f])
  BY <1>3, <1>4, <1>5, VouchedAfterOtherStep
<1> QED  BY <1>6 DEF v

LEMMA AdvanceVouches ==
    ASSUME IInv, NEW p \in Slots, NEW step \in Steps(p), NEW q \in Running,
           q.script = procs[p].script, q.at = procs[p].at + 1,
           q.held = procs[p].held, q.read = procs[p].read,
           step.do \notin {"pin", "hold"},
           step.do = "compare" => disk[step.file] = procs[p].held[step.file]
    PROVE  Vouches(q)
<1> SUFFICES ASSUME NEW f \in Compared(q.script)
             PROVE  Vouched(q.script, f, q.at, q.held[f], q.read[f], disk[f])
  BY DEF Vouches
<1> QED  BY OtherFileVouched

LEMMA LaunchPreserves ==
    ASSUME IInv, NEW p \in Slots, NEW s \in Scripts, Launch(p, s)
    PROVE  IInv'
<1> DEFINE q == Process(s, 1)
<1>1. /\ q \in Running /\ q.at = 1 /\ q.script = s
      /\ \A f \in Files : q.read[f] = Missing
  BY ContentsTyped DEF Process, Running
<1>2. procs' = [procs EXCEPT ![p] = q]  BY DEF Launch
<1> HIDE DEF q
<1>3. ASSUME NEW f \in Compared(q.script)
      PROVE  Vouched(q.script, f, q.at, q.held[f], q.read[f], disk[f])
  <2>1. q.read[f] = Missing  BY <1>1, <1>3 DEF Compared
  <2>2. \A i \in Hashes(s, f) : i \in Nat \ {0}  BY PositionsAreNumbers DEF Hashes
  <2>3. \A i \in Hashes(s, f) : ~ (q.at > i)  BY <1>1, <2>2
  <2> QED  BY <1>1, <2>1, <2>3 DEF Vouched
<1>4. Vouches(q)  BY <1>3 DEF Vouches
<1>5. launched' \in Nat /\ disk' = disk /\ stamp' = stamp /\ start' = start /\ closed' = closed
  BY DEF Launch, IInv, TypeOK
<1>6. ClosedOnWhatItRead'  BY <1>5 DEF IInv, ClosedOnWhatItRead
<1> QED  BY <1>1, <1>2, <1>4, <1>5, <1>6, ProcessAlone

LEMMA HashPreserves ==
    ASSUME IInv, NEW p \in Slots, NEW step \in Steps(p), Hash(p, step.file)
    PROVE  IInv'
<1> DEFINE v == procs[p]
           g == step.file
           q == Holding(v, g, disk[g])
<1>0. TypeOK  BY DEF IInv
<1>1. v \in Running /\ v # Idle /\ g \in Files /\ v.script \in Scripts  BY <1>0, AtAStep
<1>2. disk[g] \in Content  BY <1>0, <1>1 DEF TypeOK
<1>3. /\ q \in Running /\ q.script = v.script /\ q.at = v.at + 1
      /\ q.held = [v.held EXCEPT ![g] = disk[g]] /\ q.read = v.read
  BY <1>1, <1>2, Held
<1>4. procs' = [procs EXCEPT ![p] = q]  BY DEF Hash
<1>5. step.do \in {"pin", "hold"}
  <2>1. At(p, "pin", g) \/ At(p, "hold", g)  BY DEF Hash
  <2>2. \A x \in Steps(p) : x = step  BY DEF Steps
  <2> QED  BY <2>1, <2>2 DEF At
<1>6. v.held \in [Files -> Content]  BY <1>1 DEF Running
<1> HIDE DEF q
<1>7. ASSUME NEW f \in Compared(q.script)
      PROVE  Vouched(q.script, f, q.at, q.held[f], q.read[f], disk[f])
  <2>1. f \in Compared(v.script) /\ f \in Files  BY <1>3 DEF Compared
  <2>2. CASE f # g
    <3>1. q.held[f] = v.held[f]  BY <1>3, <1>6, <2>1, <2>2
    <3> QED  BY <1>3, <1>5, <2>2, <3>1, OtherFileVouched
  <2>3. CASE f = g
    <3> DEFINE s == v.script
    <3>1. /\ v.at \in Hashes(s, f) /\ v.at \in Nat
          /\ \A i \in Positions(s, "compare", f) : \A h \in Hashes(s, f) : h < i
          /\ \A h, i \in Hashes(s, f) : h = i
      BY <1>0, <1>5, <2>1, <2>3, WhereTheStepIs
    <3>2. Vouched(s, f, v.at, v.held[f], v.read[f], disk[f])
      BY <1>1, <2>1 DEF IInv, EveryProcessVouches
    <3>3. v.read[f] = Missing  BY <3>1, <3>2 DEF Vouched
    <3>4. q.held[f] = disk[f] /\ q.read[f] = Missing  BY <1>3, <1>6, <2>1, <2>3, <3>3
    <3> QED  BY <1>3, <3>4 DEF Vouched, Ordered
  <2> QED  BY <2>2, <2>3
<1>8. Vouches(q)  BY <1>7 DEF Vouches
<1>9. launched' \in Nat /\ disk' = disk /\ stamp' = stamp /\ start' = start /\ closed' = closed
  BY <1>0 DEF Hash, TypeOK
<1>10. ClosedOnWhatItRead'  BY <1>9 DEF IInv, ClosedOnWhatItRead
<1> QED  BY <1>3, <1>4, <1>8, <1>9, <1>10, ProcessAlone

LEMMA ReadPreserves ==
    ASSUME IInv, NEW p \in Slots, NEW step \in Steps(p), Read(p, step.file)
    PROVE  IInv'
<1> DEFINE v == procs[p]
           g == step.file
           q == HavingRead(v, g, disk[g])
<1>0. TypeOK  BY DEF IInv
<1>1. v \in Running /\ v # Idle /\ g \in Files /\ v.script \in Scripts  BY <1>0, AtAStep
<1>2. disk[g] \in Content  BY <1>0, <1>1 DEF TypeOK
<1>3. /\ q \in Running /\ q.script = v.script /\ q.at = v.at + 1
      /\ q.held = v.held /\ q.read = [v.read EXCEPT ![g] = disk[g]]
  BY <1>1, <1>2, Parsed
<1>4. procs' = [procs EXCEPT ![p] = q]  BY DEF Read
<1>5. step.do = "read"
  <2>1. At(p, "read", g)  BY DEF Read
  <2>2. \A x \in Steps(p) : x = step  BY DEF Steps
  <2> QED  BY <2>1, <2>2 DEF At
<1>6. v.read \in [Files -> Content]  BY <1>1 DEF Running
<1> HIDE DEF q
<1>7. ASSUME NEW f \in Compared(q.script)
      PROVE  Vouched(q.script, f, q.at, q.held[f], q.read[f], disk[f])
  <2>1. f \in Compared(v.script) /\ f \in Files  BY <1>3 DEF Compared
  <2>2. CASE f # g
    <3>1. q.read[f] = v.read[f]  BY <1>3, <1>6, <2>1, <2>2
    <3> QED  BY <1>3, <1>5, <2>2, <3>1, OtherFileVouched
  <2>3. CASE f = g
    <3> DEFINE s == v.script
    <3>1. /\ v.at \in Positions(s, "read", f) /\ v.at \in Nat
          /\ \A h \in Hashes(s, f) : h < v.at
      BY <1>0, <1>5, <2>1, <2>3, WhereTheStepIs
    <3>2. Vouched(s, f, v.at, v.held[f], v.read[f], disk[f])
      BY <1>1, <2>1 DEF IInv, EveryProcessVouches
    <3>3. \A i \in Hashes(s, f) : i \in Nat  BY <1>1, PositionsAreNumbers DEF Hashes
    <3>4. Hashes(s, f) # {}  BY <1>1, <2>1, BodyAssumption
    <3>5. Ordered(v.held[f], disk[f])  BY <3>1, <3>2, <3>3, <3>4 DEF Vouched
    <3>6. q.read[f] = disk[f] /\ q.held[f] = v.held[f]  BY <1>3, <1>6, <2>1, <2>3
    <3>7. \A i \in Positions(s, "compare", f) : i \in Nat  BY <1>1, PositionsAreNumbers
    <3>8. \A i \in Positions(s, "compare", f) : v.at < i => ~ (v.at + 1 > i)  BY <3>1, <3>7
    <3> QED  BY <1>3, <3>1, <3>3, <3>5, <3>6, <3>8 DEF Vouched, Ordered
  <2> QED  BY <2>2, <2>3
<1>8. Vouches(q)  BY <1>7 DEF Vouches
<1>9. launched' \in Nat /\ disk' = disk /\ stamp' = stamp /\ start' = start /\ closed' = closed
  BY <1>0 DEF Read, TypeOK
<1>10. ClosedOnWhatItRead'  BY <1>9 DEF IInv, ClosedOnWhatItRead
<1> QED  BY <1>3, <1>4, <1>8, <1>9, <1>10, ProcessAlone

\* The steps that only go on to the next.
GoesOn(p, step) ==
    /\ procs' = [procs EXCEPT ![p].at = @ + 1]
    /\ UNCHANGED <<disk, stamp, start, launched, closed>>
    /\ step.do \notin {"pin", "hold"}
    /\ step.do = "compare" => disk[step.file] = procs[p].held[step.file]

LEMMA GoingOnPreserves ==
    ASSUME IInv, NEW p \in Slots, NEW step \in Steps(p), GoesOn(p, step)
    PROVE  IInv'
<1> DEFINE v == procs[p]
           q == [v EXCEPT !.at = @ + 1]
<1>0. TypeOK  BY DEF IInv
<1>1. v \in Running  BY <1>0, AtAStep
<1>2. /\ q \in Running /\ q.script = v.script /\ q.at = v.at + 1
      /\ q.held = v.held /\ q.read = v.read
  BY <1>1, Advanced
<1>3. procs' = [procs EXCEPT ![p] = q]  BY Zenon DEF GoesOn
<1> HIDE DEF q
<1>4. step.do \notin {"pin", "hold"}
      /\ (step.do = "compare" => disk[step.file] = v.held[step.file])
  BY DEF GoesOn
<1>5. Vouches(q)  BY <1>2, <1>4, AdvanceVouches
<1>6. launched' \in Nat /\ disk' = disk /\ stamp' = stamp /\ start' = start /\ closed' = closed
  BY <1>0 DEF GoesOn, TypeOK
<1>7. ClosedOnWhatItRead'  BY <1>6 DEF IInv, ClosedOnWhatItRead
<1> QED  BY <1>2, <1>3, <1>5, <1>6, <1>7, ProcessAlone

LEMMA OpenPreserves ==
    ASSUME IInv, NEW p \in Slots, NEW step \in Steps(p), Open(p, step.file)
    PROVE  IInv'
<1> DEFINE v == procs[p]
           q == [v EXCEPT !.opened = stamp']
           c == [stamp |-> stamp', whole |-> FALSE, basis |-> "none"]
<1>0. TypeOK  BY DEF IInv
<1>1. v \in Running /\ v # Idle /\ step.file \in Files  BY <1>0, AtAStep
<1>2. stamp' = stamp + 1 /\ stamp' \in Nat  BY <1>0 DEF Open, TypeOK
<1>3. /\ q \in Running /\ q.script = v.script /\ q.at = v.at
      /\ q.held = v.held /\ q.read = v.read
  BY <1>1, <1>2, Opened
<1>4. c \in Content /\ c.stamp = stamp + 1  BY <1>2 DEF Content, Bases
<1>5. procs' = [procs EXCEPT ![p] = q] /\ disk' = [disk EXCEPT ![step.file] = c]
  BY Zenon DEF Open
<1>6. launched' = launched /\ start' = start /\ closed' = closed  BY DEF Open
<1>7. Vouches(v)  BY DEF IInv, EveryProcessVouches, Vouches
<1> HIDE DEF q, c
<1>8. Vouches(q)  BY <1>1, <1>3, <1>7 DEF Vouches
<1> QED  BY <1>1, <1>2, <1>3, <1>4, <1>5, <1>6, <1>8, ProcessWrites

LEMMA WritePreserves ==
    ASSUME IInv, NEW p \in Slots, NEW step \in Steps(p), Write(p, step.file)
    PROVE  IInv'
<1> DEFINE v == procs[p]
           f == step.file
           alone == disk[f].stamp = v.opened
           q == HavingWritten(v)
           c == [stamp |-> stamp', whole |-> alone,
                 basis |-> IF alone THEN Written(p, f) ELSE "none"]
<1>0. TypeOK  BY DEF IInv
<1>1. v \in Running /\ v # Idle /\ f \in Files /\ v.script \in Scripts  BY <1>0, AtAStep
<1>2. stamp' = stamp + 1 /\ stamp' \in Nat  BY <1>0 DEF Write, TypeOK
<1>3. /\ q \in Running /\ q.script = v.script /\ q.at = v.at + 1
      /\ q.held = v.held /\ q.read = v.read
  BY <1>1, Wrote
<1>4. Written(p, f) \in Bases
  <2>1. Labels(v.script, f) \in Bases \cup Files  BY <1>1, LabelsAssumption
  <2>2. ASSUME Labels(v.script, f) \in Files PROVE v.read[Labels(v.script, f)].basis \in Bases
    BY <1>1, <2>2 DEF Running, Content
  <2> QED  BY <2>1, <2>2 DEF Written
<1>5. c \in Content /\ c.stamp = stamp + 1
  <2>1. "none" \in Bases  BY DEF Bases
  <2> QED  BY <1>2, <1>4, <2>1 DEF Content
<1>6. procs' = [procs EXCEPT ![p] = q] /\ disk' = [disk EXCEPT ![f] = c]
  BY DEF Write
<1>7. launched' = launched /\ start' = start /\ closed' = closed  BY DEF Write
<1>8. step.do = "write"
  <2>1. At(p, "write", f)  BY DEF Write
  <2>2. \A x \in Steps(p) : x = step  BY DEF Steps
  <2> QED  BY <2>1, <2>2 DEF At
<1> HIDE DEF q, c
<1>9. Vouches(q)  BY <1>3, <1>8, AdvanceVouches
<1> QED  BY <1>1, <1>2, <1>3, <1>5, <1>6, <1>7, <1>9, ProcessWrites

\* A process that goes back to idle, for whatever reason.
LEMMA ExitPreserves ==
    ASSUME IInv, NEW p \in Slots, Exit(p)
    PROVE  IInv'
<1>1. Vouches(Idle)  BY DEF Vouches
<1>2. launched' \in Nat /\ disk' = disk /\ stamp' = stamp /\ start' = start /\ closed' = closed
  BY DEF Exit, IInv, TypeOK
<1>3. ClosedOnWhatItRead'  BY <1>2 DEF IInv, ClosedOnWhatItRead
<1> QED  BY <1>1, <1>2, <1>3, ProcessAlone DEF Exit

\* Past its last step a script has compared every file after parsing it.
LEMMA FinishPreserves ==
    ASSUME IInv, NEW p \in Slots, Finish(p)
    PROVE  IInv'
<1> DEFINE v == procs[p]
           l == [script |-> v.script, held |-> v.held, read |-> v.read]
<1>0. TypeOK  BY DEF IInv
<1>1. v # Idle /\ v \in Running /\ v.script \in Scripts /\ v.at \in Nat
      /\ v.at > Len(Body[v.script])
  BY <1>0 DEF Finish, TypeOK, Running
<1>2. ASSUME NEW f \in Compared(v.script) PROVE v.read[f] \in {Missing, v.held[f]}
  <2>1. Vouched(v.script, f, v.at, v.held[f], v.read[f], disk[f])
    BY <1>1, <1>2 DEF IInv, EveryProcessVouches
  <2>2. PICK c \in Positions(v.script, "compare", f) :
          \A i \in Positions(v.script, "read", f) : i < c
    BY <1>1, <1>2, BodyAssumption
  <2>3. c \in Nat /\ c <= Len(Body[v.script])  BY <1>1, PositionsAreNumbers
  <2>4. Len(Body[v.script]) \in Nat
    <3>1. Body[v.script] \in Seq([do : Kinds, file : Files])  BY <1>1, BodyAssumption
    <3> QED  BY <3>1
  <2>5. v.at > c  BY <1>1, <2>3, <2>4
  <2> QED  BY <2>1, <2>2, <2>5 DEF Vouched
<1>3. /\ closed' = closed \cup {l} /\ procs' = [procs EXCEPT ![p] = Idle]
      /\ UNCHANGED <<disk, stamp, start, launched>>
  BY Zenon DEF Finish
<1>4. l.script = v.script /\ l.read = v.read /\ l.held = v.held  OBVIOUS
<1> HIDE DEF l
<1>5. ASSUME NEW k \in closed', NEW f \in Compared(k.script)
      PROVE  k.read[f] \in {Missing, k.held[f]}
  <2>1. CASE k \in closed  BY <1>5, <2>1 DEF IInv, ClosedOnWhatItRead
  <2>2. CASE k = l  BY <1>2, <1>4, <1>5, <2>2
  <2> QED  BY <1>3, <2>1, <2>2
<1>6. ClosedOnWhatItRead'  BY <1>5 DEF ClosedOnWhatItRead
<1>7. launched' \in Nat /\ disk' = disk /\ stamp' = stamp /\ start' = start
  BY <1>0, <1>3 DEF TypeOK
<1>8. Vouches(Idle)  BY DEF Vouches
<1> QED  BY <1>3, <1>6, <1>7, <1>8, ProcessAlone

LEMMA IInvNext ==
    ASSUME IInv, [Next]_vars
    PROVE  IInv'
<1>0. TypeOK  BY DEF IInv
<1>1. ASSUME NEW p \in Slots, NEW s \in Scripts, Launch(p, s) PROVE IInv'
  BY <1>1, LaunchPreserves
<1>2. ASSUME NEW p \in Slots, NEW step \in Steps(p),
             \/ Hash(p, step.file) \/ Read(p, step.file) \/ Open(p, step.file)
             \/ Write(p, step.file) \/ Compare(p, step.file)
      PROVE  IInv'
  <2>1. CASE Compare(p, step.file)
    <3>1. step.do = "compare"
      <4>1. At(p, "compare", step.file)  BY <2>1 DEF Compare
      <4>2. \A x \in Steps(p) : x = step  BY DEF Steps
      <4> QED  BY <4>1, <4>2 DEF At
    <3>2. GoesOn(p, step)  BY <2>1, <3>1 DEF Compare, GoesOn
    <3> QED  BY <1>2, <3>2, GoingOnPreserves
  <2> QED  BY <1>2, <2>1, HashPreserves, ReadPreserves, OpenPreserves, WritePreserves
<1>3. ASSUME NEW p \in Slots, Check(p) \/ Report(p) PROVE IInv'
  <2>1. PICK step \in Steps(p) : step.do \in {"check", "report"}
    BY <1>3 DEF Check, Report
  <2>2. GoesOn(p, step)  BY <1>3, <2>1 DEF Check, Report, GoesOn
  <2> QED  BY <1>3, <2>1, <2>2, GoingOnPreserves
<1>4. ASSUME NEW p \in Slots, Finish(p) \/ Exit(p) PROVE IInv'
  BY <1>4, FinishPreserves, ExitPreserves
<1>5. CASE UNCHANGED vars
  BY <1>5 DEF vars, IInv, TypeOK, StampsAreCurrent, EveryProcessVouches, ClosedOnWhatItRead
<1> QED  BY <1>1, <1>2, <1>3, <1>4, <1>5 DEF Next, Step

(***************************************************************************)
(* Contents and processes are well formed under any interleaving of the    *)
(* scripts, a crash of each at any step included.                          *)
(***************************************************************************)
THEOREM TypeCorrect == Spec => []TypeOK
<1>1. IInv => TypeOK  BY DEF IInv
<1> QED  BY <1>1, IInvInit, IInvNext, PTL DEF Spec

(***************************************************************************)
(* A script that comes to its end parsed the bytes it hashed, of every     *)
(* file that it hashes before and after, whatever other scripts write and  *)
(* however many of them run (the closing "was modified" assertions, e.g.   *)
(* run_calibration_batch.py:300).  What makes it true is that no two       *)
(* writes give the same bytes: a file that has the held hash again has not *)
(* been written since.                                                     *)
(***************************************************************************)
THEOREM ClosingComparison == Spec => []ClosedOnWhatItRead
<1>1. IInv => ClosedOnWhatItRead  BY DEF IInv
<1> QED  BY <1>1, IInvInit, IInvNext, PTL DEF Spec

-----------------------------------------------------------------------------
(***************************************************************************)
(* What a frozen corpus rests on.  Besides the type invariant it needs     *)
(* that a whole file of ReviewFiles has the labels of a review, that a     *)
(* process has read what lies behind it, and that the checks it passed     *)
(* still accept what it read: nothing is read after a check.               *)
(***************************************************************************)
Labelled(c) == c.whole => c.basis \in {"blank", "finished"}

\* What holds of a process of the script s at step `at` that has read `read`.
Sourced(s, at, read) ==
    /\ \A f \in Files : \A i \in Positions(s, "read", f) : at > i => read[f].whole
    /\ \A f \in ReviewFiles : Labelled(read[f])
    /\ \A f \in Files : \A i \in Positions(s, "check", f) : at > i => Accepts(s, read)

FilesLabelled == \A f \in ReviewFiles : Labelled(disk[f])

EveryProcessSourced ==
    \A p \in Slots : procs[p] # Idle =>
        Sourced(procs[p].script, procs[p].at, procs[p].read)

EndedSourced ==
    \A l \in closed : l.script \in Scripts /\ Sourced(l.script, Len(Body[l.script]) + 1, l.read)

LabelInv == FilesLabelled /\ EveryProcessSourced /\ EndedSourced

\* A step that reads nothing, and checks only what holds.
LEMMA SourcedOnward ==
    ASSUME NEW s \in Scripts, NEW at \in Nat, NEW read, Sourced(s, at, read),
           \A f \in Files : at \notin Positions(s, "read", f),
           \A f \in Files : at \in Positions(s, "check", f) => Accepts(s, read)
    PROVE  Sourced(s, at + 1, read)
<1>1. ASSUME NEW f \in Files, NEW i \in Positions(s, "read", f), at + 1 > i
      PROVE  read[f].whole
  <2>1. i \in Nat  BY PositionsAreNumbers
  <2>2. at > i  BY <1>1, <2>1
  <2> QED  BY <2>2 DEF Sourced
<1>2. ASSUME NEW f \in Files, NEW i \in Positions(s, "check", f), at + 1 > i
      PROVE  Accepts(s, read)
  <2>1. i \in Nat  BY PositionsAreNumbers
  <2>2. at > i \/ at = i  BY <1>2, <2>1
  <2> QED  BY <2>2 DEF Sourced
<1> QED  BY <1>1, <1>2 DEF Sourced

\* A step that reads a whole file: every check is still ahead.
LEMMA SourcedByReading ==
    ASSUME NEW s \in Scripts, NEW at \in Nat, NEW read \in [Files -> Content],
           NEW g \in Files, NEW c \in Content, Sourced(s, at, read),
           at \in Positions(s, "read", g), c.whole, g \in ReviewFiles => Labelled(c),
           \A f \in Files : f # g => at \notin Positions(s, "read", f)
    PROVE  Sourced(s, at + 1, [read EXCEPT ![g] = c])
<1> DEFINE new == [read EXCEPT ![g] = c]
<1>1. \A f \in Files : new[f] = IF f = g THEN c ELSE read[f]  OBVIOUS
<1> HIDE DEF new
<1>2. ASSUME NEW f \in Files, NEW i \in Positions(s, "read", f), at + 1 > i
      PROVE  new[f].whole
  <2>1. i \in Nat  BY PositionsAreNumbers
  <2>2. at > i \/ at = i  BY <1>2, <2>1
  <2>3. CASE f = g  BY <1>1, <2>3
  <2>4. CASE f # g
    <3>1. at > i  BY <2>2, <2>4
    <3> QED  BY <1>1, <2>4, <3>1 DEF Sourced
  <2> QED  BY <2>3, <2>4
<1>3. ASSUME NEW f \in Files, NEW i \in Positions(s, "check", f), at + 1 > i
      PROVE  FALSE
  <2>1. i \in Nat  BY PositionsAreNumbers
  <2>2. at < i  BY BodyAssumption
  <2> QED  BY <1>3, <2>1, <2>2
<1>4. ReviewFiles \subseteq Files  BY DirectoryAssumption
<1>5. \A f \in ReviewFiles : Labelled(new[f])  BY <1>1, <1>4 DEF Sourced
<1>6. Sourced(s, at + 1, new)  BY <1>2, <1>3, <1>5 DEF Sourced
<1> QED  BY <1>6 DEF new

\* At the first step nothing is behind the process.
LEMMA SourcedAtFirst ==
    ASSUME NEW s \in Scripts
    PROVE  Sourced(s, 1, [f \in Files |-> Missing])
<1>1. \A kind : \A f : \A i \in Positions(s, kind, f) : ~ (1 > i)
  <2> SUFFICES ASSUME NEW kind, NEW f, NEW i \in Positions(s, kind, f) PROVE ~ (1 > i)
    OBVIOUS
  <2>1. i \in Nat \ {0}  BY PositionsAreNumbers
  <2> QED  BY <2>1
<1>2. ReviewFiles \subseteq Files  BY DirectoryAssumption
<1>3. ~ Missing.whole  BY DEF Missing
<1> QED  BY <1>1, <1>2, <1>3 DEF Sourced, Labelled

\* One process goes on, and the files keep their labels.
LEMMA SourcedReplaced ==
    ASSUME TypeOK, LabelInv, NEW p \in Slots, NEW q \in Running \cup {Idle},
           procs' = [procs EXCEPT ![p] = q], q # Idle => Sourced(q.script, q.at, q.read),
           FilesLabelled', closed' = closed
    PROVE  LabelInv'
<1>1. \A r \in Slots : procs'[r] = IF r = p THEN q ELSE procs[r]  BY DEF TypeOK
<1>2. EveryProcessSourced'  BY <1>1 DEF LabelInv, EveryProcessSourced
<1>3. EndedSourced'  BY DEF LabelInv, EndedSourced
<1> QED  BY <1>2, <1>3 DEF LabelInv

\* The step a process is at is one step.
LEMMA StepAt ==
    ASSUME TypeOK, NEW p \in Slots, NEW step \in Steps(p)
    PROVE  /\ procs[p] # Idle /\ procs[p] \in Running /\ procs[p].script \in Scripts
           /\ procs[p].at \in Nat /\ procs[p].read \in [Files -> Content] /\ step.file \in Files
           /\ procs[p].at \in Positions(procs[p].script, step.do, step.file)
           /\ \A kind, f : procs[p].at \in Positions(procs[p].script, kind, f) =>
                kind = step.do /\ f = step.file
<1>1. /\ procs[p] # Idle /\ procs[p] \in Running /\ procs[p].script \in Scripts
      /\ procs[p].at \in DOMAIN Body[procs[p].script]
      /\ step = Body[procs[p].script][procs[p].at] /\ step.file \in Files
  BY AtAStep
<1>2. procs[p].at \in Nat /\ procs[p].read \in [Files -> Content]  BY <1>1 DEF Running
<1> QED  BY <1>1, <1>2 DEF Positions

\* A step at which the process neither reads nor checks.
LEMMA OtherStepSourced ==
    ASSUME TypeOK, LabelInv, NEW p \in Slots, NEW step \in Steps(p),
           step.do \notin {"read", "check"}
    PROVE  Sourced(procs[p].script, procs[p].at + 1, procs[p].read)
<1> DEFINE s == procs[p].script  at == procs[p].at
<1>1. procs[p] # Idle /\ s \in Scripts /\ at \in Nat  BY StepAt
<1>2. \A f \in Files : at \notin Positions(s, "read", f) /\ at \notin Positions(s, "check", f)
  BY StepAt
<1>3. Sourced(s, at, procs[p].read)  BY <1>1 DEF LabelInv, EveryProcessSourced
<1> QED  BY <1>1, <1>2, <1>3, SourcedOnward

LEMMA LaunchSourced ==
    ASSUME TypeOK, LabelInv, NEW p \in Slots, NEW s \in Scripts, Launch(p, s)
    PROVE  LabelInv'
<1> DEFINE q == Process(s, 1)
<1>1. q \in Running /\ q.script = s /\ q.at = 1 /\ q.read = [f \in Files |-> Missing]
  BY ContentsTyped DEF Process, Running
<1>2. procs' = [procs EXCEPT ![p] = q] /\ disk' = disk /\ closed' = closed  BY DEF Launch
<1> HIDE DEF q
<1>3. Sourced(q.script, q.at, q.read)  BY <1>1, SourcedAtFirst
<1>4. FilesLabelled'  BY <1>2 DEF LabelInv, FilesLabelled
<1> QED  BY <1>1, <1>2, <1>3, <1>4, SourcedReplaced

LEMMA HashSourced ==
    ASSUME TypeOK, LabelInv, NEW p \in Slots, NEW step \in Steps(p), Hash(p, step.file)
    PROVE  LabelInv'
<1> DEFINE v == procs[p]
           q == Holding(v, step.file, disk[step.file])
<1>1. v \in Running /\ step.file \in Files  BY StepAt
<1>2. disk[step.file] \in Content  BY <1>1 DEF TypeOK
<1>3. /\ q \in Running /\ q.script = v.script /\ q.at = v.at + 1
      /\ q.held = [v.held EXCEPT ![step.file] = disk[step.file]] /\ q.read = v.read
  BY <1>1, <1>2, Held
<1>4. procs' = [procs EXCEPT ![p] = q] /\ disk' = disk /\ closed' = closed
  BY Zenon DEF Hash
<1> HIDE DEF q
<1>5. step.do \in {"pin", "hold"}
  <2>1. At(p, "pin", step.file) \/ At(p, "hold", step.file)  BY DEF Hash
  <2>2. \A x \in Steps(p) : x = step  BY DEF Steps
  <2> QED  BY <2>1, <2>2 DEF At
<1>6. Sourced(q.script, q.at, q.read)  BY <1>3, <1>5, OtherStepSourced
<1>7. FilesLabelled'  BY <1>4 DEF LabelInv, FilesLabelled
<1> QED  BY <1>3, <1>4, <1>6, <1>7, SourcedReplaced

LEMMA ReadSourced ==
    ASSUME TypeOK, LabelInv, NEW p \in Slots, NEW step \in Steps(p), Read(p, step.file)
    PROVE  LabelInv'
<1> DEFINE v == procs[p]
           g == step.file
           q == HavingRead(v, g, disk[g])
<1>1. /\ v # Idle /\ v \in Running /\ g \in Files /\ v.script \in Scripts /\ v.at \in Nat
      /\ v.read \in [Files -> Content]
  BY StepAt
<1>2. disk[g] \in Content /\ disk[g].whole  BY <1>1 DEF TypeOK, Read
<1>3. /\ q \in Running /\ q.script = v.script /\ q.at = v.at + 1
      /\ q.read = [v.read EXCEPT ![g] = disk[g]]
  BY <1>1, <1>2, Parsed
<1>4. procs' = [procs EXCEPT ![p] = q] /\ disk' = disk /\ closed' = closed
  BY Zenon DEF Read
<1> HIDE DEF q
<1>5. step.do = "read"
  <2>1. At(p, "read", g)  BY DEF Read
  <2>2. \A x \in Steps(p) : x = step  BY DEF Steps
  <2> QED  BY <2>1, <2>2 DEF At
<1>6. /\ v.at \in Positions(v.script, "read", g)
      /\ \A f \in Files : f # g => v.at \notin Positions(v.script, "read", f)
  BY <1>5, StepAt
<1>7. Sourced(v.script, v.at, v.read)  BY <1>1 DEF LabelInv, EveryProcessSourced
<1>8. g \in ReviewFiles => Labelled(disk[g])  BY DEF LabelInv, FilesLabelled
<1>9. Sourced(v.script, v.at + 1, [v.read EXCEPT ![g] = disk[g]])
  BY <1>1, <1>2, <1>6, <1>7, <1>8, SourcedByReading
<1>10. Sourced(q.script, q.at, q.read)  BY <1>3, <1>9
<1>11. FilesLabelled'  BY <1>4 DEF LabelInv, FilesLabelled
<1> QED  BY <1>3, <1>4, <1>10, <1>11, SourcedReplaced

LEMMA CheckSourced ==
    ASSUME TypeOK, LabelInv, NEW p \in Slots, Check(p)
    PROVE  LabelInv'
<1> DEFINE v == procs[p]
           q == [v EXCEPT !.at = @ + 1]
<1>1. PICK step \in Steps(p) : step.do = "check"  BY DEF Check
<1>2. v # Idle /\ v \in Running /\ v.script \in Scripts /\ v.at \in Nat  BY StepAt
<1>3. q \in Running /\ q.script = v.script /\ q.at = v.at + 1 /\ q.read = v.read
  BY <1>2, Advanced
<1>4. procs' = [procs EXCEPT ![p] = q] /\ disk' = disk /\ closed' = closed
  BY Zenon DEF Check
<1> HIDE DEF q
<1>5. \A f \in Files : v.at \notin Positions(v.script, "read", f)  BY <1>1, StepAt
<1>6. Accepts(v.script, v.read)  BY DEF Check
<1>7. Sourced(v.script, v.at, v.read)  BY <1>2 DEF LabelInv, EveryProcessSourced
<1>8. Sourced(v.script, v.at + 1, v.read)  BY <1>2, <1>5, <1>6, <1>7, SourcedOnward
<1>9. FilesLabelled'  BY <1>4 DEF LabelInv, FilesLabelled
<1> QED  BY <1>3, <1>4, <1>8, <1>9, SourcedReplaced

LEMMA OnwardSourced ==
    ASSUME TypeOK, LabelInv, NEW p \in Slots, NEW step \in Steps(p),
           step.do \in {"report", "compare"},
           procs' = [procs EXCEPT ![p].at = @ + 1], disk' = disk, closed' = closed
    PROVE  LabelInv'
<1> DEFINE v == procs[p]
           q == [v EXCEPT !.at = @ + 1]
<1>1. v \in Running  BY StepAt
<1>2. q \in Running /\ q.script = v.script /\ q.at = v.at + 1 /\ q.read = v.read
  BY <1>1, Advanced
<1>3. procs' = [procs EXCEPT ![p] = q]  BY Zenon
<1> HIDE DEF q
<1>4. Sourced(q.script, q.at, q.read)  BY <1>2, OtherStepSourced
<1>5. FilesLabelled'  BY DEF LabelInv, FilesLabelled
<1> QED  BY <1>2, <1>3, <1>4, <1>5, SourcedReplaced

LEMMA OpenSourced ==
    ASSUME TypeOK, LabelInv, NEW p \in Slots, NEW step \in Steps(p), Open(p, step.file)
    PROVE  LabelInv'
<1> DEFINE v == procs[p]
           q == [v EXCEPT !.opened = stamp']
           c == [stamp |-> stamp', whole |-> FALSE, basis |-> "none"]
<1>1. v # Idle /\ v \in Running /\ step.file \in Files  BY StepAt
<1>2. stamp' \in Nat  BY DEF Open, TypeOK
<1>3. q \in Running /\ q.script = v.script /\ q.at = v.at /\ q.read = v.read
  BY <1>1, <1>2, Opened
<1>4. procs' = [procs EXCEPT ![p] = q] /\ disk' = [disk EXCEPT ![step.file] = c]
      /\ closed' = closed
  BY Zenon DEF Open
<1>5. Labelled(c)  BY DEF Labelled
<1> HIDE DEF q, c
<1>6. Sourced(q.script, q.at, q.read)  BY <1>1, <1>3 DEF LabelInv, EveryProcessSourced
<1>7. \A f \in Files : disk'[f] = IF f = step.file THEN c ELSE disk[f]  BY <1>1, <1>4 DEF TypeOK
<1>8. FilesLabelled'
  BY <1>5, <1>7, DirectoryAssumption DEF LabelInv, FilesLabelled
<1> QED  BY <1>3, <1>4, <1>6, <1>8, SourcedReplaced

\* A process that writes one of ReviewFiles takes the labels of a review, its own
\* or that of the review file it has read.
LEMMA WrittenIsLabelled ==
    ASSUME TypeOK, LabelInv, NEW p \in Slots, NEW step \in Steps(p),
           step.do = "write", step.file \in ReviewFiles
    PROVE  Written(p, step.file) \in {"blank", "finished"}
<1> DEFINE v == procs[p]
           f == step.file
           l == Labels(v.script, f)
<1>1. /\ v # Idle /\ v.script \in Scripts /\ v.at \in Nat /\ f \in Files
      /\ v.at \in Positions(v.script, "write", f)
  BY StepAt
<1>2. l \in {"blank", "finished", "review"}  BY <1>1, DirectoryAssumption
<1>3. CASE l \in Bases  BY <1>2, <1>3 DEF Written, Bases
<1>4. CASE l \notin Bases
  <2>1. l = "review" /\ l \in Files  BY <1>2, <1>4, DirectoryAssumption DEF Bases, ReviewFiles
  <2>2. PICK j \in Positions(v.script, "read", l) : j < v.at  BY <1>1, <2>1, BodyAssumption
  <2>3. j \in Nat  BY <1>1, PositionsAreNumbers
  <2>4. Sourced(v.script, v.at, v.read)  BY <1>1 DEF LabelInv, EveryProcessSourced
  <2>5. v.read[l].whole  BY <1>1, <2>1, <2>2, <2>3, <2>4 DEF Sourced
  <2>6. v.read[l].basis \in {"blank", "finished"}
    BY <2>1, <2>4, <2>5 DEF Sourced, Labelled, ReviewFiles
  <2> QED  BY <1>4, <2>6 DEF Written
<1> QED  BY <1>3, <1>4

LEMMA WriteSourced ==
    ASSUME TypeOK, LabelInv, NEW p \in Slots, NEW step \in Steps(p), Write(p, step.file)
    PROVE  LabelInv'
<1> DEFINE v == procs[p]
           f == step.file
           alone == disk[f].stamp = v.opened
           q == HavingWritten(v)
           c == [stamp |-> stamp', whole |-> alone,
                 basis |-> IF alone THEN Written(p, f) ELSE "none"]
<1>1. v \in Running /\ f \in Files  BY StepAt
<1>2. q \in Running /\ q.script = v.script /\ q.at = v.at + 1 /\ q.read = v.read
  BY <1>1, Wrote
<1>3. procs' = [procs EXCEPT ![p] = q] /\ disk' = [disk EXCEPT ![f] = c] /\ closed' = closed
  BY DEF Write
<1>4. step.do = "write"
  <2>1. At(p, "write", f)  BY DEF Write
  <2>2. \A x \in Steps(p) : x = step  BY DEF Steps
  <2> QED  BY <2>1, <2>2 DEF At
<1>5. f \in ReviewFiles => Labelled(c)  BY <1>4, WrittenIsLabelled DEF Labelled
<1> HIDE DEF q, c
<1>6. Sourced(q.script, q.at, q.read)  BY <1>2, <1>4, OtherStepSourced
<1>7. \A g \in Files : disk'[g] = IF g = f THEN c ELSE disk[g]  BY <1>1, <1>3 DEF TypeOK
<1>8. FilesLabelled'
  BY <1>5, <1>7, DirectoryAssumption DEF LabelInv, FilesLabelled
<1> QED  BY <1>2, <1>3, <1>6, <1>8, SourcedReplaced

\* Past its last step a script has everything behind it.
LEMMA FinishSourced ==
    ASSUME TypeOK, LabelInv, NEW p \in Slots, Finish(p)
    PROVE  LabelInv'
<1> DEFINE v == procs[p]
           l == [script |-> v.script, held |-> v.held, read |-> v.read]
<1>1. v # Idle /\ v \in Running /\ v.script \in Scripts /\ v.at \in Nat
      /\ v.at > Len(Body[v.script])
  BY DEF Finish, TypeOK, Running
<1>2. Len(Body[v.script]) \in Nat
  <2>1. Body[v.script] \in Seq([do : Kinds, file : Files])  BY <1>1, BodyAssumption
  <2> QED  BY <2>1
<1>3. \A kind \in Kinds : \A f : \A i \in Positions(v.script, kind, f) : v.at > i
  <2> SUFFICES ASSUME NEW kind \in Kinds, NEW f, NEW i \in Positions(v.script, kind, f)
               PROVE  v.at > i
    OBVIOUS
  <2>1. i \in Nat /\ i <= Len(Body[v.script])  BY <1>1, PositionsAreNumbers
  <2> QED  BY <1>1, <1>2, <2>1
<1>4. Sourced(v.script, v.at, v.read)  BY <1>1 DEF LabelInv, EveryProcessSourced
<1>5. Sourced(v.script, Len(Body[v.script]) + 1, v.read)
  BY <1>3, <1>4 DEF Sourced, Kinds
<1>6. /\ closed' = closed \cup {l} /\ procs' = [procs EXCEPT ![p] = Idle] /\ disk' = disk
  BY Zenon DEF Finish
<1>7. l.script = v.script /\ l.read = v.read  OBVIOUS
<1> HIDE DEF l
<1>8. EndedSourced'  BY <1>1, <1>5, <1>6, <1>7 DEF LabelInv, EndedSourced
<1>9. FilesLabelled'  BY <1>6 DEF LabelInv, FilesLabelled
<1>10. EveryProcessSourced'  BY <1>6 DEF TypeOK, LabelInv, EveryProcessSourced
<1> QED  BY <1>8, <1>9, <1>10 DEF LabelInv

LEMMA ExitSourced ==
    ASSUME TypeOK, LabelInv, NEW p \in Slots, Exit(p)
    PROVE  LabelInv'
<1>1. procs' = [procs EXCEPT ![p] = Idle] /\ disk' = disk /\ closed' = closed  BY DEF Exit
<1>2. FilesLabelled'  BY <1>1 DEF LabelInv, FilesLabelled
<1> QED  BY <1>1, <1>2, SourcedReplaced

LEMMA LabelInvInit == Init => LabelInv
<1> SUFFICES ASSUME Init PROVE LabelInv
  OBVIOUS
<1>1. FilesLabelled  BY DirectoryAssumption DEF Init, FilesLabelled, Labelled
<1> QED  BY <1>1 DEF Init, LabelInv, EveryProcessSourced, EndedSourced

LEMMA LabelInvNext ==
    ASSUME TypeOK, LabelInv, [Next]_vars
    PROVE  LabelInv'
<1>1. ASSUME NEW p \in Slots, NEW s \in Scripts, Launch(p, s) PROVE LabelInv'
  BY <1>1, LaunchSourced
<1>2. ASSUME NEW p \in Slots, NEW step \in Steps(p),
             \/ Hash(p, step.file) \/ Read(p, step.file) \/ Open(p, step.file)
             \/ Write(p, step.file) \/ Compare(p, step.file)
      PROVE  LabelInv'
  <2>1. CASE Compare(p, step.file)
    <3>1. At(p, "compare", step.file)  BY <2>1 DEF Compare
    <3>2. \A x \in Steps(p) : x = step  BY DEF Steps
    <3>3. step.do = "compare"  BY <3>1, <3>2 DEF At
    <3>4. procs' = [procs EXCEPT ![p].at = @ + 1] /\ disk' = disk /\ closed' = closed
      BY <2>1 DEF Compare
    <3> QED  BY <3>3, <3>4, OnwardSourced
  <2> QED  BY <1>2, <2>1, HashSourced, ReadSourced, OpenSourced, WriteSourced
<1>3. ASSUME NEW p \in Slots, Report(p) PROVE LabelInv'
  <2>1. PICK step \in Steps(p) : step.do = "report"  BY <1>3 DEF Report
  <2>2. procs' = [procs EXCEPT ![p].at = @ + 1] /\ disk' = disk /\ closed' = closed
    BY <1>3 DEF Report
  <2> QED  BY <2>1, <2>2, OnwardSourced
<1>4. ASSUME NEW p \in Slots, Check(p) \/ Finish(p) \/ Exit(p) PROVE LabelInv'
  BY <1>4, CheckSourced, FinishSourced, ExitSourced
<1>5. CASE UNCHANGED vars
  BY <1>5 DEF vars, LabelInv, FilesLabelled, EveryProcessSourced, EndedSourced
<1> QED  BY <1>1, <1>2, <1>3, <1>4, <1>5 DEF Next, Step

\* The check of the freeze is FreezeAccepts, in the scripts of the directory.
LEMMA ChecksPassIsFreezeAccepts ==
    \A read : ChecksPass("FinalFreeze", read) => FreezeAccepts(read)
BY DEF ChecksPass

\* A blank review has no record that is GOLD_POSITIVE.
LEMMA BlankHasNoPositive == LabelCounts["blank"]["GOLD_POSITIVE"] = 0
<1> DEFINE L == CuratedLabels("blank")
<1>1. \A k \in 1..Total : L[k] = "HARD_NEGATIVE"  BY DEF CuratedLabels
<1> HIDE DEF L
<1>2. {k \in 1..Total : L[k] = "GOLD_POSITIVE"} = {}  BY <1>1
<1>3. LabelCounts["blank"]["GOLD_POSITIVE"] = Cardinality({k \in 1..Total : L[k] = "GOLD_POSITIVE"})
  BY DEF LabelCounts, L
<1>4. Cardinality({}) = 0  BY FS_EmptySet
<1> QED  BY <1>2, <1>3, <1>4

(***************************************************************************)
(* A final freeze that comes to its end read a corpus and records of a     *)
(* finished review (execute_final_freeze.py:87 and :94), for every         *)
(* directory and every set of scripts that meets the assumptions, if the   *)
(* check of the freeze is FreezeAccepts: the count of propositions keeps a *)
(* corpus repaired by the blank review out, the count of labels the blank  *)
(* review itself.                                                          *)
(***************************************************************************)
THEOREM FrozenIsReviewed ==
    ASSUME \A read : Accepts("FinalFreeze", read) => FreezeAccepts(read)
    PROVE  Spec => []FrozenFromFinishedReview
<1>1. TypeOK /\ LabelInv => FrozenFromFinishedReview
  <2> SUFFICES ASSUME LabelInv, NEW l \in closed, l.script = "FinalFreeze"
               PROVE  l.read["dedup"].basis = "finished" /\ l.read["review"].basis = "finished"
    BY DEF FrozenFromFinishedReview
  <2> DEFINE s == "FinalFreeze"  at == Len(Body[s]) + 1
  <2>1. s \in Scripts /\ Sourced(s, at, l.read)  BY DEF LabelInv, EndedSourced
  <2>2. \A kind \in Kinds : \A f : \A i \in Positions(s, kind, f) : at > i
    <3> SUFFICES ASSUME NEW kind \in Kinds, NEW f, NEW i \in Positions(s, kind, f)
                 PROVE  at > i
      OBVIOUS
    <3>1. i \in Nat /\ i <= Len(Body[s])  BY <2>1, PositionsAreNumbers
    <3>2. Len(Body[s]) \in Nat
      <4>1. Body[s] \in Seq([do : Kinds, file : Files])  BY <2>1, BodyAssumption
      <4> QED  BY <4>1
    <3> QED  BY <3>1, <3>2
  <2> HIDE DEF at
  <2>3. FreezeAccepts(l.read)
    <3>1. PICK f \in Files : Positions(s, "check", f) # {}  BY <2>1, DirectoryAssumption
    <3>2. Accepts(s, l.read)  BY <2>1, <2>2, <3>1 DEF Sourced, Kinds
    <3> QED  BY <3>2
  <2>4. \A f \in ReviewFiles : l.read[f].basis \in {"blank", "finished"}
    <3> SUFFICES ASSUME NEW f \in ReviewFiles PROVE l.read[f].basis \in {"blank", "finished"}
      OBVIOUS
    <3>1. PICK i \in Positions(s, "read", f) : TRUE  BY <2>1, DirectoryAssumption
    <3>2. l.read[f].whole  BY <2>1, <2>2, DirectoryAssumption DEF Sourced, Kinds
    <3> QED  BY <2>1, <3>2 DEF Sourced, Labelled
  <2>5. l.read["dedup"].basis # "blank"  BY <2>3, BlankAssumption DEF FreezeAccepts
  <2>6. l.read["review"].basis # "blank"
    <3>1. LabelCounts[l.read["review"].basis]["GOLD_POSITIVE"] = 67  BY <2>3 DEF FreezeAccepts
    <3> QED  BY <3>1, BlankHasNoPositive
  <2> QED  BY <2>4, <2>5, <2>6 DEF ReviewFiles
<1>2. Init => TypeOK /\ LabelInv  BY IInvInit, LabelInvInit DEF IInv
<1>3. TypeOK /\ LabelInv /\ TypeOK' /\ [Next]_vars => (TypeOK /\ LabelInv)'  BY LabelInvNext
<1> QED  BY <1>1, <1>2, <1>3, TypeCorrect, PTL DEF Spec
=============================================================================
