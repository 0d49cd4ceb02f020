---------------------------- MODULE DataFiles_proofs ----------------------------
(***************************************************************************)
(* For any number of directories and threads: the files are whole at every *)
(* moment, saves land in order, and a start loads the last one.  The lock  *)
(* of a kind is what all of it rests on: while a thread holds it, the      *)
(* temporary file of the kind is its own.                                  *)
(***************************************************************************)
EXTENDS DataFiles, TLAPS

\* One thread at a time saves a kind.
Exclusive ==
  \A s, t \in Threads :
    pc[s] # "idle" /\ pc[t] # "idle" /\ job[s].kind = job[t].kind => s = t

\* What is about to be renamed is what the thread wrote.
Filled ==
  \A t \in Threads :
    pc[t] = "rename" =>
      temp[job[t].dir][job[t].kind] = Content(job[t].kind, job[t].version, TRUE)

\* No thread saves before everything is loaded.
SaversUp == \A t \in Threads : pc[t] # "idle" => Up

\* The save that counts is where it was put.
HomeHolds == \A k \in Kinds : file[home[k]][k].version = saved[k]

\* What is saved is older than what is being saved, and that than memory.
Newest ==
  /\ \A k \in Kinds : mem[k] <= last[k]
  /\ \A k \in Kinds : mem[k] # Gone => saved[k] <= mem[k]
  /\ \A d \in Dirs : \A k \in Kinds : file[d][k].version <= last[k]
  /\ \A t \in Threads :
       pc[t] # "idle" =>
         saved[job[t].kind] <= job[t].version /\ job[t].version <= mem[job[t].kind]

IInv == TypeOK /\ NothingTorn /\ Exclusive /\ Filled /\ SaversUp /\ HomeHolds /\ Newest

\* The inductive invariant holds at the start.
LEMMA InitIInv == Init => IInv
<1> SUFFICES ASSUME Init PROVE IInv
  OBVIOUS
<1> USE BoundsAssumption DEF Init, Dirs, Kinds, Contents, Content, Blank, Saving, NoSave, Gone
<1>1. TypeOK
  BY DEF TypeOK
<1>2. NothingTorn
  BY DEF NothingTorn
<1>3. Exclusive /\ Filled /\ SaversUp
  BY DEF Exclusive, Filled, SaversUp
<1>4. HomeHolds /\ Newest
  BY DEF HomeHolds, Newest
<1> QED
  BY <1>1, <1>2, <1>3, <1>4 DEF IInv

\* Two directories are not both the first that can be written.
LEMMA OneIsChosen ==
  ASSUME NEW d \in Dirs, NEW e \in Dirs, IsChosen(d), IsChosen(e)
  PROVE  d = e
<1>1. CASE \E f \in Dirs : IsWritable(f)
  BY <1>1, BoundsAssumption DEF IsChosen, Dirs
<1>2. CASE \A f \in Dirs : ~IsWritable(f)
  BY <1>2, BoundsAssumption DEF IsChosen, Dirs
<1> QED
  BY <1>1, <1>2

\* Writing a file, temporary or not, keeps the types of them all.
LEMMA PutTyped ==
  ASSUME NEW f \in [Dirs -> [Kinds -> Contents]], NEW d \in Dirs, NEW k \in Kinds, NEW c \in Contents
  PROVE  [f EXCEPT ![d][k] = c] \in [Dirs -> [Kinds -> Contents]]
  OBVIOUS

LEMMA ContentTyped ==
  ASSUME NEW k \in Kinds, NEW v \in Nat, NEW whole \in BOOLEAN
  PROVE  Content(k, v, whole) \in Contents
  BY DEF Content, Contents

\* What a thread is saving, by its parts.
LEMMA JobTyped ==
  ASSUME TypeOK, NEW t \in Threads
  PROVE  /\ job[t].kind \in Kinds /\ job[t].version \in Nat /\ job[t].dir \in Dirs
         /\ NoSave \in Saving
  BY BoundsAssumption DEF TypeOK, Saving, NoSave, Dirs, Kinds

\* A step keeps the types.
LEMMA NextTypeOK == TypeOK /\ [Next]_vars => TypeOK'
<1> SUFFICES ASSUME TypeOK, [Next]_vars PROVE TypeOK'
  OBVIOUS
<1>1. ASSUME NEW k \in Kinds, Load(k) PROVE TypeOK'
  <2>1. PICK d \in Dirs :
          /\ mem' = [mem EXCEPT ![k] = Parsed(k, file[d][k])]
          /\ saved' = [saved EXCEPT ![k] = Parsed(k, file[d][k])]
          /\ home' = [home EXCEPT ![k] = d]
    BY <1>1 DEF Load
  <2>2. Parsed(k, file[d][k]) \in Nat
    BY DEF Parsed, TypeOK, Contents
  <2> QED
    BY <1>1, <2>1, <2>2 DEF Load, TypeOK
<1>2. ASSUME NEW k \in Kinds, Changed(k)
      PROVE  /\ mem' \in [Kinds -> Nat \cup {Gone}] /\ last' \in [Kinds -> Nat]
             /\ mem'[k] \in Nat
  BY <1>2 DEF Changed, TypeOK
<1>3. ASSUME StoreChanges PROVE TypeOK'
  BY <1>2, <1>3 DEF StoreChanges, Kinds, TypeOK
<1>4. ASSUME NEW t \in Threads, NEW k \in Kinds, Begins(t, k),
             mem' \in [Kinds -> Nat \cup {Gone}], last' \in [Kinds -> Nat],
             mem'[k] \in Nat
      PROVE  TypeOK'
  <2>1. [kind |-> k, version |-> mem'[k], dir |-> 1] \in Saving
    BY <1>4, BoundsAssumption DEF Dirs, Saving
  <2> QED
    BY <1>4, <2>1 DEF Begins, TypeOK
<1>5. ASSUME NEW t \in Threads, RecordObservation(t) PROVE TypeOK'
  <2>1. "states" \in Kinds /\ mem["states"] \in Nat
    BY <1>5 DEF RecordObservation, Begins, Up, Kinds, TypeOK
  <2> QED
    BY <1>4, <1>5, <2>1 DEF RecordObservation, TypeOK
<1>6. ASSUME NEW t \in Threads, NoteOutcome(t) PROVE TypeOK'
  BY <1>2, <1>4, <1>6 DEF NoteOutcome, Kinds
<1>7. ASSUME NEW t \in Threads, FinishTest(t) PROVE TypeOK'
  BY <1>2, <1>4, <1>7 DEF FinishTest, Kinds
<1>8. ASSUME NEW t \in Threads, Choose(t) PROVE TypeOK'
  <2>1. PICK d \in Dirs : job' = [job EXCEPT ![t].dir = d]
    BY <1>8 DEF Choose
  <2>2. [job[t] EXCEPT !.dir = d] \in Saving
    BY DEF Saving, TypeOK
  <2>3. job' \in [Threads -> Saving]
    BY <2>1, <2>2 DEF TypeOK
  <2> QED
    BY <1>8, <2>3 DEF Choose, Step, TypeOK
<1>9. ASSUME NEW t \in Threads, OpenTemp(t) PROVE TypeOK'
  <2>1. temp' \in [Dirs -> [Kinds -> Contents]]
    BY <1>9, JobTyped, ContentTyped, PutTyped DEF OpenTemp, Temp, TypeOK
  <2> QED
    BY <1>9, <2>1 DEF OpenTemp, Step, TypeOK
<1>10. ASSUME NEW t \in Threads, FillTemp(t) PROVE TypeOK'
  <2>1. temp' \in [Dirs -> [Kinds -> Contents]]
    BY <1>10, JobTyped, ContentTyped, PutTyped DEF FillTemp, Temp, TypeOK
  <2> QED
    BY <1>10, <2>1 DEF FillTemp, Step, TypeOK
<1>11. ASSUME NEW t \in Threads, SaveFails(t) PROVE TypeOK'
  <2>1. temp' \in [Dirs -> [Kinds -> Contents]]
    BY <1>11, JobTyped, ContentTyped, PutTyped DEF SaveFails, Temp, TypeOK, Blank
  <2>2. job' \in [Threads -> Saving]
    BY <1>11, JobTyped DEF SaveFails, TypeOK
  <2> QED
    BY <1>11, <2>1, <2>2 DEF SaveFails, Step, TypeOK
<1>12. ASSUME NEW t \in Threads, Rename(t) PROVE TypeOK'
  <2> DEFINE c == temp[job[t].dir][job[t].kind]
  <2>1. c \in Contents
    BY JobTyped DEF TypeOK
  <2>2. file' = [file EXCEPT ![job[t].dir][job[t].kind] = c]
    BY <1>12 DEF Rename, Temp
  <2>3. file' \in [Dirs -> [Kinds -> Contents]]
    BY <2>1, <2>2, JobTyped, PutTyped DEF TypeOK
  <2>4. temp' \in [Dirs -> [Kinds -> Contents]]
    BY <1>12, JobTyped, ContentTyped, PutTyped DEF Rename, Temp, TypeOK, Blank
  <2>5. job' \in [Threads -> Saving] /\ home' \in [Kinds -> Dirs] /\ saved' \in [Kinds -> Nat]
    BY <1>12, JobTyped DEF Rename, TypeOK
  <2> QED
    BY <1>12, <2>3, <2>4, <2>5 DEF Rename, Step, TypeOK
<1>13. ASSUME NEW d \in Dirs, Remount(d) PROVE TypeOK'
  BY <1>13 DEF Remount, TypeOK
<1>14. ASSUME Crash PROVE TypeOK'
  <2>1. temp' \in [Dirs -> [Kinds -> Contents]]
    BY <1>14, ContentTyped DEF Crash, Blank
  <2>2. NoSave \in Saving
    BY BoundsAssumption DEF NoSave, Saving, Dirs, Kinds
  <2>3. mem' \in [Kinds -> Nat \cup {Gone}] /\ job' \in [Threads -> Saving]
    BY <1>14, <2>2 DEF Crash
  <2>4. pc' \in [Threads -> {"idle", "choose", "open", "fill", "rename"}]
    BY <1>14 DEF Crash
  <2> QED
    BY <1>14, <2>1, <2>3, <2>4 DEF Crash, TypeOK
<1>15. CASE UNCHANGED vars
  BY <1>15 DEF vars, TypeOK
<1> QED
  BY <1>1, <1>3, <1>5, <1>6, <1>7, <1>8, <1>9, <1>10, <1>11, <1>12, <1>13, <1>14, <1>15
     DEF Next, Save

\* Whole files stay whole, because only what is filled is renamed.
LEMMA NextNothingTorn == IInv /\ [Next]_vars => NothingTorn'
<1> SUFFICES ASSUME IInv, [Next]_vars PROVE NothingTorn'
  OBVIOUS
<1>1. ASSUME NEW t \in Threads, Rename(t) PROVE NothingTorn'
  <2>1. temp[job[t].dir][job[t].kind] = Content(job[t].kind, job[t].version, TRUE)
    BY <1>1 DEF IInv, Filled, Rename, Step
  <2> QED
    BY <1>1, <2>1 DEF IInv, TypeOK, NothingTorn, Rename, Temp, Content, Saving
<1>2. CASE UNCHANGED file
  BY <1>2 DEF IInv, NothingTorn
<1> QED
  BY <1>1, <1>2
     DEF Next, Save, vars, Load, StoreChanges, RecordObservation, NoteOutcome, FinishTest,
         Begins, Choose, OpenTemp, FillTemp, SaveFails, Remount, Crash

\* A thread gets to save a kind only when nobody else is at it.
LEMMA NextExclusive == IInv /\ [Next]_vars => Exclusive' /\ SaversUp'
<1> SUFFICES ASSUME IInv, [Next]_vars PROVE Exclusive' /\ SaversUp'
  OBVIOUS
<1> USE DEF IInv, TypeOK, Exclusive, SaversUp
<1>1. ASSUME NEW t \in Threads, NEW k \in Kinds, Begins(t, k),
             mem' = mem \/ Changed(k)
      PROVE  Exclusive' /\ SaversUp'
  <2>1. /\ pc' = [pc EXCEPT ![t] = "choose"]
        /\ job'[t].kind = k
        /\ \A s \in Threads \ {t} : job'[s] = job[s] /\ pc'[s] = pc[s]
    BY <1>1 DEF Begins
  <2>2. Exclusive'
    BY <1>1, <2>1 DEF Begins, Free
  <2>3. Up'
    BY <1>1 DEF Begins, Up, Changed, Gone
  <2> QED
    BY <2>2, <2>3
<1>2. ASSUME NEW t \in Threads, RecordObservation(t) \/ NoteOutcome(t) \/ FinishTest(t)
      PROVE  Exclusive' /\ SaversUp'
  BY <1>1, <1>2 DEF RecordObservation, NoteOutcome, FinishTest, Kinds
<1>3. ASSUME NEW t \in Threads, Choose(t) PROVE Exclusive' /\ SaversUp'
  <2>1. \A s \in Threads : job'[s].kind = job[s].kind
    BY <1>3 DEF Choose, Saving
  <2>2. \A s \in Threads : pc'[s] # "idle" => pc[s] # "idle"
    BY <1>3 DEF Choose, Step
  <2> QED
    BY <1>3, <2>1, <2>2 DEF Choose, Up
<1>4. ASSUME NEW t \in Threads, OpenTemp(t) \/ FillTemp(t) PROVE Exclusive' /\ SaversUp'
  <2>1. \A s \in Threads : pc'[s] # "idle" => pc[s] # "idle"
    BY <1>4 DEF OpenTemp, FillTemp, Step
  <2> QED
    BY <1>4, <2>1 DEF OpenTemp, FillTemp, Up
<1>5. ASSUME NEW t \in Threads, SaveFails(t) \/ Rename(t) PROVE Exclusive' /\ SaversUp'
  <2>1. /\ pc'[t] = "idle" /\ mem' = mem
        /\ \A s \in Threads \ {t} : job'[s] = job[s] /\ pc'[s] = pc[s]
    BY <1>5 DEF SaveFails, Rename, Step
  <2> QED
    BY <2>1 DEF Up
<1>6. ASSUME NEW k \in Kinds, Load(k) PROVE Exclusive' /\ SaversUp'
  <2>1. ~Up
    BY <1>6 DEF Load, Up
  <2> QED
    BY <1>6, <2>1 DEF Load
<1>7. ASSUME StoreChanges PROVE Exclusive' /\ SaversUp'
  BY <1>7 DEF StoreChanges, Changed, Up, Gone
<1>8. ASSUME Crash PROVE Exclusive' /\ SaversUp'
  BY <1>8 DEF Crash
<1>9. CASE UNCHANGED <<pc, job, mem>>
  BY <1>9 DEF Up
<1> QED
  BY <1>2, <1>3, <1>4, <1>5, <1>6, <1>7, <1>8, <1>9 DEF Next, Save, vars, Remount

\* A temporary file that was filled stays so until the thread renames it.
LEMMA NextFilled == IInv /\ [Next]_vars => Filled'
<1> SUFFICES ASSUME IInv, [Next]_vars, NEW s \in Threads, pc'[s] = "rename"
             PROVE  temp'[job'[s].dir][job'[s].kind]
                      = Content(job'[s].kind, job'[s].version, TRUE)
  BY DEF Filled
<1> DEFINE Kept == temp'[job[s].dir][job[s].kind] = temp[job[s].dir][job[s].kind]
<1> USE DEF IInv
<1>0. job[s].dir \in Dirs /\ job[s].kind \in Kinds
  BY JobTyped
<1>1. ASSUME pc[s] = "rename", job'[s] = job[s], Kept
      PROVE  temp'[job'[s].dir][job'[s].kind]
               = Content(job'[s].kind, job'[s].version, TRUE)
  BY <1>1 DEF Filled
<1>2. ASSUME NEW t \in Threads, t # s, pc[s] = "rename", pc[t] # "idle",
             NEW c, temp' = [temp EXCEPT ![job[t].dir][job[t].kind] = c]
      PROVE  Kept
  <2>1. job[t].kind # job[s].kind
    BY <1>2 DEF Exclusive
  <2>2. job[t].dir \in Dirs /\ job[t].kind \in Kinds
    BY JobTyped
  <2> QED
    BY <1>0, <1>2, <2>1, <2>2 DEF TypeOK
<1>3. ASSUME NEW t \in Threads, OpenTemp(t) \/ SaveFails(t) \/ Rename(t)
      PROVE  t # s /\ pc[s] = "rename" /\ pc[t] # "idle" /\ job'[s] = job[s]
  BY <1>3 DEF OpenTemp, SaveFails, Rename, Step, TypeOK
<1>4. ASSUME NEW t \in Threads, OpenTemp(t) \/ SaveFails(t) \/ Rename(t)
      PROVE  temp'[job'[s].dir][job'[s].kind]
               = Content(job'[s].kind, job'[s].version, TRUE)
  BY <1>1, <1>2, <1>3, <1>4 DEF OpenTemp, SaveFails, Rename, Temp
<1>5. ASSUME NEW t \in Threads, FillTemp(t)
      PROVE  temp'[job'[s].dir][job'[s].kind]
               = Content(job'[s].kind, job'[s].version, TRUE)
  <2>1. CASE t = s
    BY <1>0, <1>5, <2>1 DEF FillTemp, Temp, TypeOK
  <2>2. CASE t # s
    <3>1. pc[s] = "rename" /\ pc[t] # "idle" /\ job'[s] = job[s]
      BY <1>5, <2>2 DEF FillTemp, Step, TypeOK
    <3> QED
      BY <1>1, <1>2, <1>5, <2>2, <3>1 DEF FillTemp, Temp
  <2> QED
    BY <2>1, <2>2
<1>6. ASSUME temp' = temp, pc[s] = "rename" => job'[s] = job[s], pc[s] = pc'[s]
      PROVE  temp'[job'[s].dir][job'[s].kind]
               = Content(job'[s].kind, job'[s].version, TRUE)
  BY <1>6 DEF Filled
<1>7. ASSUME NEW t \in Threads,
             RecordObservation(t) \/ NoteOutcome(t) \/ FinishTest(t) \/ Choose(t)
      PROVE  temp' = temp /\ (pc[s] = "rename" => job'[s] = job[s]) /\ pc[s] = pc'[s]
  BY <1>7 DEF RecordObservation, NoteOutcome, FinishTest, Begins, Choose, Step, TypeOK
<1>8. ASSUME UNCHANGED <<temp, pc, job>>
      PROVE  temp' = temp /\ (pc[s] = "rename" => job'[s] = job[s]) /\ pc[s] = pc'[s]
  BY <1>8
<1>9. ~Crash
  BY DEF Crash
<1> QED
  BY <1>4, <1>5, <1>6, <1>7, <1>8, <1>9 DEF Next, Save, vars, Load, StoreChanges, Remount

\* A renaming puts the version that is being saved.
LEMMA WhatIsRenamed ==
  ASSUME IInv, NEW t \in Threads, Rename(t)
  PROVE  temp[job[t].dir][job[t].kind].version = job[t].version
<1>1. temp[job[t].dir][job[t].kind] = Content(job[t].kind, job[t].version, TRUE)
  BY DEF IInv, Filled, Rename, Step
<1> QED
  BY <1>1 DEF Content

\* The save that counts is not written over, and counts from its renaming on.
LEMMA NextHomeHolds == IInv /\ [Next]_vars => HomeHolds'
<1> SUFFICES ASSUME IInv, [Next]_vars, NEW k \in Kinds
             PROVE  file'[home'[k]][k].version = saved'[k]
  BY DEF HomeHolds
<1> USE DEF IInv, TypeOK
<1>1. ASSUME NEW i \in Kinds, Load(i) PROVE file'[home'[k]][k].version = saved'[k]
  <2>1. PICK d \in Dirs :
          /\ saved' = [saved EXCEPT ![i] = Parsed(i, file[d][i])]
          /\ home' = [home EXCEPT ![i] = d]
    BY <1>1 DEF Load
  <2>2. Parsed(i, file[d][i]) = file[d][i].version
    BY DEF Parsed, NothingTorn
  <2> QED
    BY <1>1, <2>1, <2>2 DEF Load, HomeHolds
<1>2. ASSUME NEW t \in Threads, Rename(t) PROVE file'[home'[k]][k].version = saved'[k]
  <2>1. temp[job[t].dir][job[t].kind].version = job[t].version
    BY <1>2, WhatIsRenamed
  <2>2. /\ file' = [file EXCEPT ![job[t].dir][job[t].kind] = temp[job[t].dir][job[t].kind]]
        /\ home' = [home EXCEPT ![job[t].kind] = job[t].dir]
        /\ saved' = [saved EXCEPT ![job[t].kind] = job[t].version]
    BY <1>2 DEF Rename, Temp
  <2>3. job[t].dir \in Dirs /\ job[t].kind \in Kinds
    BY JobTyped
  <2>4. CASE k = job[t].kind
    BY <2>1, <2>2, <2>3, <2>4
  <2>5. CASE k # job[t].kind
    <3>1. file'[home[k]][k] = file[home[k]][k]
      BY <2>2, <2>3, <2>5
    <3> QED
      BY <2>2, <2>3, <2>5, <3>1 DEF HomeHolds
  <2> QED
    BY <2>4, <2>5
<1>3. CASE UNCHANGED <<file, home, saved>>
  BY <1>3 DEF HomeHolds
<1> QED
  BY <1>1, <1>2, <1>3
     DEF Next, Save, vars, StoreChanges, RecordObservation, NoteOutcome, FinishTest, Begins,
         Choose, OpenTemp, FillTemp, SaveFails, Remount, Crash

\* Memory is never behind what is saved, nor behind what is being saved.
LEMMA NextNewest == IInv /\ [Next]_vars => Newest'
<1> SUFFICES ASSUME IInv, [Next]_vars PROVE Newest'
  OBVIOUS
<1> USE DEF IInv, TypeOK, Newest
<1>1. ASSUME NEW i \in Kinds, Load(i) PROVE Newest'
  <2>1. PICK d \in Dirs :
          /\ mem' = [mem EXCEPT ![i] = Parsed(i, file[d][i])]
          /\ saved' = [saved EXCEPT ![i] = Parsed(i, file[d][i])]
    BY <1>1 DEF Load
  <2> DEFINE v == file[d][i].version
  <2>2. Parsed(i, file[d][i]) = v /\ v \in Nat /\ v <= last[i]
    BY DEF Parsed, NothingTorn, Contents
  <2>3. \A t \in Threads : pc'[t] = "idle"
    BY <1>1 DEF Load, SaversUp, Up
  <2>4. /\ mem'[i] = v /\ saved'[i] = v
        /\ \A k \in Kinds \ {i} : mem'[k] = mem[k] /\ saved'[k] = saved[k]
        /\ last' = last /\ file' = file
    BY <1>1, <2>1, <2>2 DEF Load, Gone
  <2> HIDE DEF v
  <2>5. ASSUME NEW k \in Kinds
        PROVE  mem'[k] <= last'[k] /\ (mem'[k] # Gone => saved'[k] <= mem'[k])
    <3>1. mem[k] <= last[k] /\ (mem[k] # Gone => saved[k] <= mem[k])
      OBVIOUS
    <3> HIDE DEF IInv, TypeOK, Newest
    <3>2. CASE k = i
      BY <2>2, <2>4, <3>2
    <3>3. CASE k # i
      BY <2>4, <3>1, <3>3
    <3> QED
      BY <3>2, <3>3
  <2> QED
    BY <2>3, <2>4, <2>5
<1>2. ASSUME NEW k \in Kinds, Changed(k), Up, saved' = saved, file' = file,
             \A t \in Threads : pc'[t] # "idle" =>
               \/ pc[t] # "idle" /\ job'[t] = job[t]
               \/ job'[t].kind = k /\ job'[t].version = mem'[k]
      PROVE  Newest'
  <2>1. /\ mem'[k] = last'[k] /\ last'[k] = last[k] + 1
        /\ \A i \in Kinds \ {k} : mem'[i] = mem[i] /\ last'[i] = last[i]
        /\ mem[k] \in Nat /\ last[k] \in Nat /\ mem[k] < mem'[k]
    BY <1>2 DEF Changed, Up
  <2>2. ASSUME NEW t \in Threads, pc'[t] # "idle"
        PROVE  saved'[job'[t].kind] <= job'[t].version /\ job'[t].version <= mem'[job'[t].kind]
    <3>1. CASE pc[t] # "idle" /\ job'[t] = job[t]
      BY <1>2, <2>1, <3>1, JobTyped DEF Changed, Free
    <3>2. CASE job'[t].kind = k /\ job'[t].version = mem'[k]
      BY <1>2, <2>1, <3>2 DEF Up
    <3> QED
      BY <1>2, <2>2, <3>1, <3>2
  <2>3. ASSUME NEW i \in Kinds
        PROVE  mem'[i] <= last'[i] /\ (mem'[i] # Gone => saved'[i] <= mem'[i])
    <3>1. CASE i = k
      <4>1. saved[k] \in Nat /\ saved[k] <= mem[k] /\ last[k] \in Nat
        BY <1>2 DEF Up
      <4> QED
        BY <1>2, <2>1, <3>1, <4>1
    <3>2. CASE i # k
      BY <1>2, <2>1, <3>2
    <3> QED
      BY <3>1, <3>2
  <2>4. \A d \in Dirs : \A i \in Kinds : file'[d][i].version <= last'[i]
    <3>1. ASSUME NEW d \in Dirs, NEW i \in Kinds
          PROVE  file[d][i].version \in Nat /\ last[i] \in Nat /\ last[i] <= last'[i]
      <4>1. file[d][i] \in Contents
        OBVIOUS
      <4>2. last[i] \in Nat
        OBVIOUS
      <4> HIDE DEF IInv, TypeOK, Newest
      <4>3. CASE i = k
        BY <2>1, <4>1, <4>2, <4>3 DEF Contents
      <4>4. CASE i # k
        BY <2>1, <4>1, <4>2, <4>4 DEF Contents
      <4> QED
        BY <4>3, <4>4
    <3>2. ASSUME NEW i \in Kinds PROVE last'[i] \in Nat
      <4>1. last[i] \in Nat
        OBVIOUS
      <4> HIDE DEF IInv, TypeOK, Newest
      <4>2. CASE i = k
        BY <2>1, <4>1, <4>2
      <4>3. CASE i # k
        BY <2>1, <4>1, <4>3
      <4> QED
        BY <4>2, <4>3
    <3>3. ASSUME NEW d \in Dirs, NEW i \in Kinds PROVE file[d][i].version <= last[i]
      OBVIOUS
    <3> HIDE DEF TypeOK, Newest
    <3> QED
      BY <1>2, <3>1, <3>2, <3>3
  <2> QED
    BY <2>2, <2>3, <2>4
<1>3. ASSUME NEW t \in Threads, NEW k \in Kinds, Begins(t, k)
      PROVE  \A s \in Threads : pc'[s] # "idle" =>
               \/ pc[s] # "idle" /\ job'[s] = job[s]
               \/ job'[s].kind = k /\ job'[s].version = mem'[k]
  BY <1>3 DEF Begins
<1>4. ASSUME NEW t \in Threads, RecordObservation(t) PROVE Newest'
  <2>1. "states" \in Kinds
    BY DEF Kinds
  <2>2. Begins(t, "states") /\ mem' = mem /\ last' = last
    BY <1>4 DEF RecordObservation
  <2>3. mem["states"] \in Nat /\ saved["states"] <= mem["states"]
    BY <2>1, <2>2 DEF Begins, Up
  <2> QED
    BY <1>3, <2>1, <2>2, <2>3 DEF Begins
<1>5. ASSUME NEW t \in Threads, NoteOutcome(t) PROVE Newest'
  <2>1. "stats" \in Kinds /\ Begins(t, "stats") /\ Changed("stats")
    BY <1>5 DEF NoteOutcome, Kinds
  <2> QED
    BY <1>2, <1>3, <2>1 DEF Begins
<1>6. ASSUME NEW t \in Threads, FinishTest(t) PROVE Newest'
  <2>1. "results" \in Kinds /\ Begins(t, "results") /\ Changed("results")
    BY <1>6 DEF FinishTest, Kinds
  <2> QED
    BY <1>2, <1>3, <2>1 DEF Begins
<1>7. ASSUME StoreChanges PROVE Newest'
  <2>1. "states" \in Kinds
    BY DEF Kinds
  <2> QED
    BY <1>2, <1>7, <2>1 DEF StoreChanges
<1>8. ASSUME NEW t \in Threads, Rename(t) PROVE Newest'
  <2>1. /\ pc[t] # "idle" /\ pc' = [pc EXCEPT ![t] = "idle"]
        /\ job' = [job EXCEPT ![t] = NoSave] /\ mem' = mem /\ last' = last
        /\ file' = [file EXCEPT ![job[t].dir][job[t].kind] = temp[job[t].dir][job[t].kind]]
        /\ saved' = [saved EXCEPT ![job[t].kind] = job[t].version]
    BY <1>8 DEF Rename, Step, Temp
  <2>2. temp[job[t].dir][job[t].kind].version = job[t].version
    BY <1>8, WhatIsRenamed
  <2>3. job[t].dir \in Dirs /\ job[t].kind \in Kinds /\ job[t].version \in Nat
    BY JobTyped
  <2>4. job[t].version <= mem[job[t].kind] /\ mem[job[t].kind] <= last[job[t].kind]
    BY <2>1, <2>3
  <2>5. \A i \in Kinds : mem'[i] # Gone => saved'[i] <= mem'[i]
    BY <2>1, <2>3, <2>4
  <2>6. ASSUME NEW d \in Dirs, NEW i \in Kinds PROVE file'[d][i].version <= last'[i]
    <3>1. CASE d = job[t].dir /\ i = job[t].kind
      <4>1. file'[d][i].version = job[t].version
        BY <2>1, <2>2, <2>3, <3>1
      <4>2. mem[i] \in Int /\ last[i] \in Int
        BY DEF Gone
      <4> QED
        BY <2>1, <2>3, <2>4, <3>1, <4>1, <4>2
    <3>2. CASE ~(d = job[t].dir /\ i = job[t].kind)
      BY <2>1, <2>3, <3>2
    <3> QED
      BY <3>1, <3>2
  <2>7. ASSUME NEW s \in Threads, pc'[s] # "idle"
        PROVE  saved'[job'[s].kind] <= job'[s].version /\ job'[s].version <= mem'[job'[s].kind]
    <3>1. s # t /\ pc[s] # "idle" /\ job'[s] = job[s]
      BY <2>1, <2>7
    <3>2. job[s].kind # job[t].kind /\ job[s].kind \in Kinds
      BY <2>1, <3>1, JobTyped DEF Exclusive
    <3> QED
      BY <2>1, <2>3, <3>1, <3>2
  <2> QED
    BY <2>1, <2>5, <2>6, <2>7
<1>9. ASSUME NEW t \in Threads, Choose(t) PROVE Newest'
  <2>1. \A s \in Threads : job'[s].kind = job[s].kind /\ job'[s].version = job[s].version
    BY <1>9 DEF Choose, Saving
  <2>2. \A s \in Threads : pc'[s] # "idle" => pc[s] # "idle"
    BY <1>9 DEF Choose, Step
  <2> QED
    BY <1>9, <2>1, <2>2 DEF Choose
<1>10. ASSUME NEW t \in Threads, OpenTemp(t) \/ FillTemp(t) PROVE Newest'
  <2>1. \A s \in Threads : pc'[s] # "idle" => pc[s] # "idle"
    BY <1>10 DEF OpenTemp, FillTemp, Step
  <2> QED
    BY <1>10, <2>1 DEF OpenTemp, FillTemp
<1>11. ASSUME NEW t \in Threads, SaveFails(t) PROVE Newest'
  <2>1. \A s \in Threads : pc'[s] # "idle" => pc[s] # "idle" /\ job'[s] = job[s]
    BY <1>11 DEF SaveFails, Step
  <2> QED
    BY <1>11, <2>1 DEF SaveFails
<1>12. ASSUME Crash PROVE Newest'
  BY <1>12 DEF Crash, Gone
<1>13. CASE UNCHANGED <<mem, last, pc, job, saved, file>>
  BY <1>13
<1> QED
  BY <1>1, <1>4, <1>5, <1>6, <1>7, <1>8, <1>9, <1>10, <1>11, <1>12, <1>13
     DEF Next, Save, vars, Remount

LEMMA NextIInv == IInv /\ [Next]_vars => IInv'
<1> SUFFICES ASSUME IInv, [Next]_vars PROVE IInv'
  OBVIOUS
<1>1. TypeOK'
  BY NextTypeOK DEF IInv
<1> QED
  BY <1>1, NextNothingTorn, NextExclusive, NextFilled, NextHomeHolds, NextNewest DEF IInv

LEMMA Invariance == Spec => []IInv
<1> QED
  BY InitIInv, NextIInv, PTL DEF Spec

-----------------------------------------------------------------------------
\* The variables of the data files keep their types.
THEOREM TypeCorrect == Spec => []TypeOK
<1>1. IInv => TypeOK
  BY DEF IInv
<1> QED
  BY <1>1, Invariance, PTL

\* Whenever the process dies, every file is whole and of its kind.
THEOREM FilesAreWhole == Spec => []NothingTorn
<1>1. IInv => NothingTorn
  BY DEF IInv
<1> QED
  BY <1>1, Invariance, PTL

\* No save of one life of the plugin is replaced by an older one.
THEOREM SavesInOrder == Spec => SavesLandInOrder
<1> DEFINE InOrder == Up /\ Up' => \A k \in Kinds : saved'[k] >= saved[k]
<1>1. IInv /\ [Next]_vars => [InOrder]_vars
  <2> SUFFICES ASSUME IInv, Next, Up, NEW k \in Kinds PROVE saved'[k] >= saved[k]
    OBVIOUS
  <2>1. saved[k] \in Nat
    BY DEF IInv, TypeOK
  <2>2. ASSUME NEW t \in Threads, Rename(t) PROVE saved'[k] >= saved[k]
    <3>1. job[t].kind \in Kinds /\ job[t].version \in Nat
      BY JobTyped DEF IInv
    <3>2. saved' = [saved EXCEPT ![job[t].kind] = job[t].version]
      BY <2>2 DEF Rename
    <3>3. saved[job[t].kind] <= job[t].version
      BY <2>2 DEF IInv, Newest, Rename, Step
    <3>4. CASE k = job[t].kind
      BY <2>1, <3>1, <3>2, <3>3, <3>4 DEF IInv, TypeOK
    <3>5. CASE k # job[t].kind
      BY <2>1, <3>2, <3>5 DEF IInv, TypeOK
    <3> QED
      BY <3>4, <3>5
  <2>3. ASSUME NEW i \in Kinds PROVE ~Load(i)
    BY DEF Load, Up
  <2>4. CASE saved' = saved
    BY <2>1, <2>4
  <2> QED
    BY <2>2, <2>3, <2>4
       DEF Next, Save, StoreChanges, RecordObservation, NoteOutcome, FinishTest, Begins,
           Choose, OpenTemp, FillTemp, SaveFails, Remount, Crash
<1> QED
  BY <1>1, Invariance, PTL DEF Spec, SavesLandInOrder

\* A start loads the save that counts if it looks where that save was put.
THEOREM StartsFromTheLastSave == Spec => RestartLoadsLatest
<1> DEFINE Loads(k) == mem[k] = Gone /\ mem'[k] # Gone /\ IsChosen(home[k])
           Latest == \A k \in Kinds : Loads(k) => mem'[k] = saved[k]
<1>1. IInv /\ [Next]_vars => [Latest]_vars
  <2> SUFFICES ASSUME IInv, Next, NEW k \in Kinds, Loads(k) PROVE mem'[k] = saved[k]
    OBVIOUS
  <2> USE DEF IInv, TypeOK
  <2>1. ASSUME NEW i \in Kinds, Load(i) PROVE mem'[k] = saved[k]
    <3>1. PICK d \in Dirs : IsChosen(d) /\ mem' = [mem EXCEPT ![i] = Parsed(i, file[d][i])]
      BY <2>1 DEF Load, IsRead
    <3>2. i = k
      BY <3>1
    <3>3. home[k] \in Dirs
      OBVIOUS
    <3>4. d = home[k]
      BY <3>1, <3>3, OneIsChosen
    <3>5. Parsed(k, file[d][k]) = file[d][k].version
      BY DEF Parsed, NothingTorn
    <3> QED
      BY <3>1, <3>2, <3>4, <3>5 DEF HomeHolds
  <2>2. ~Up
    BY DEF Up
  <2>3. CASE mem' = mem
    BY <2>3
  <2>4. ASSUME Crash PROVE FALSE
    BY <2>4 DEF Crash
  <2>5. ASSUME NEW t \in Threads, Save(t) PROVE mem' = mem
    BY <2>2, <2>5
       DEF Save, RecordObservation, NoteOutcome, FinishTest, Begins, Choose, OpenTemp,
           FillTemp, SaveFails, Rename
  <2> QED
    BY <2>1, <2>2, <2>3, <2>4, <2>5 DEF Next, StoreChanges, Remount
<1> QED
  BY <1>1, Invariance, PTL DEF Spec, RestartLoadsLatest
=============================================================================
