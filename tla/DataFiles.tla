------------------------------- MODULE DataFiles -------------------------------
(***************************************************************************)
(* The files the plugin keeps: the states, the counts of the state         *)
(* lengths, the results of the model tests.  Each is a snapshot of         *)
(* something in memory, written under the lock of it to a temporary file   *)
(* that is then renamed, in the first directory that can be written at     *)
(* that moment; failures are passed over.  A start reads each of them      *)
(* where it would be written.  The process may die at any point, and what  *)
(* it wrote stays (a crash of the machine is another matter).              *)
(*                                                                         *)
(* Of what is in memory and in a file only the version counts: a change    *)
(* makes a new one, and version 0 is nothing, as a missing file is.        *)
(***************************************************************************)
EXTENDS Integers

CONSTANTS
  NDirs,          \* the candidates, the directory for temporary files being the last
  Threads,        \* threads that save: the worker, those of tests, of the host
  MaxVersion      \* bound on the changes of each kind

Dirs == 1..NDirs
Kinds == {"states", "stats", "results"}

ASSUME BoundsAssumption == NDirs \in Nat \ {0} /\ MaxVersion \in [Kinds -> Nat]

VARIABLES
  writable,       \* can a file be written in the directory just now?
  file, temp,     \* per directory and kind, the file and the temporary one (what
                  \* a save leaves of it is read by nobody, and overwritten)
  mem,            \* per kind, the version in memory, Gone before it is loaded
  last,           \* the newest version that ever was
  pc, job,        \* per thread, the step of the save it is at, and what it saves
  home, saved     \* the save that counts: the last one renamed, or what was loaded

vars == <<writable, file, temp, mem, last, pc, job, home, saved>>

Gone == -1
Content(k, v, whole) == [of |-> k, version |-> v, whole |-> whole]
Blank(k) == Content(k, 0, TRUE)
Contents == [of : Kinds, version : Nat, whole : BOOLEAN]
Saving == [kind : Kinds, version : Nat, dir : Dirs]
NoSave == [kind |-> "states", version |-> 0, dir |-> 1]

Up == \A k \in Kinds : mem[k] # Gone

Init ==
  /\ writable \in [Dirs -> BOOLEAN]
  /\ file = [d \in Dirs |-> [k \in Kinds |-> Blank(k)]]
  /\ temp = [d \in Dirs |-> [k \in Kinds |-> Blank(k)]]
  /\ mem = [k \in Kinds |-> Gone]
  /\ last = [k \in Kinds |-> 0]
  /\ pc = [t \in Threads |-> "idle"]
  /\ job = [t \in Threads |-> NoSave]
  /\ home = [k \in Kinds |-> 1]
  /\ saved = [k \in Kinds |-> 0]

-----------------------------------------------------------------------------
\* is_writable() by its outcome.
IsWritable(d) == writable[d]

\* modeltrace_results_path(), and the other paths with it: the first that can be
\* written, or else the last.
IsChosen(d) ==
  \/ IsWritable(d) /\ \A e \in Dirs : e < d => ~IsWritable(e)
  \/ d = NDirs /\ \A e \in Dirs : ~IsWritable(e)

\* Mutant: each kind is read where it is found first.
IsReadAnywhere(d, k) ==
  IF \A e \in Dirs : file[e][k].version = 0 THEN IsChosen(d)
  ELSE file[d][k].version > 0 /\ \A e \in Dirs : e < d => file[e][k].version = 0

IsRead(d, k) == IsChosen(d)

\* Mutant: one temporary name for all.
TempShared(k) == "states"

Temp(k) == k

\* Mutant: what is saved is copied under the lock and written after it.
FreeToCopy(k) == TRUE

\* Nobody holds the lock of the kind, which is held through the save.
Free(k) == \A t \in Threads : pc[t] = "idle" \/ job[t].kind # k

-----------------------------------------------------------------------------
\* What does not parse, or not as this kind, is nothing.
Parsed(k, c) == IF c.whole /\ c.of = k THEN c.version ELSE 0

\* Runtime::new() loads the kinds one after the other.
Load(k) ==
  /\ mem[k] = Gone
  /\ \E d \in Dirs :
       /\ IsRead(d, k)
       /\ mem' = [mem EXCEPT ![k] = Parsed(k, file[d][k])]
       /\ saved' = [saved EXCEPT ![k] = Parsed(k, file[d][k])]
       /\ home' = [home EXCEPT ![k] = d]
  /\ UNCHANGED <<writable, file, temp, last, pc, job>>

Changed(k) ==
  /\ Free(k)
  /\ last[k] < MaxVersion[k]
  /\ last' = [last EXCEPT ![k] = @ + 1]
  /\ mem' = [mem EXCEPT ![k] = last[k] + 1]

\* The thread takes the version in memory to its save.
Begins(t, k) ==
  /\ Up
  /\ pc[t] = "idle"
  /\ Free(k)
  /\ pc' = [pc EXCEPT ![t] = "choose"]
  /\ job' = [job EXCEPT ![t] = [kind |-> k, version |-> mem'[k], dir |-> 1]]
  /\ UNCHANGED <<writable, file, temp, home, saved>>

\* The store of a job changes; the file does not follow before an observation.
StoreChanges ==
  /\ Up
  /\ Changed("states")
  /\ UNCHANGED <<writable, file, temp, pc, job, home, saved>>

\* record_observation()
RecordObservation(t) == UNCHANGED <<mem, last>> /\ Begins(t, "states")

\* note_request_outcome() counts nothing when the lock is taken.
NoteOutcome(t) == Changed("stats") /\ Begins(t, "stats")

\* finish_modeltrace_task()
FinishTest(t) == Changed("results") /\ Begins(t, "results")

Step(t, from, to) == pc[t] = from /\ pc' = [pc EXCEPT ![t] = to]

Choose(t) ==
  /\ Step(t, "choose", "open")
  /\ \E d \in Dirs :
       /\ IsChosen(d)
       /\ job' = [job EXCEPT ![t].dir = d]
  /\ UNCHANGED <<writable, file, temp, mem, last, home, saved>>

\* fs::write() first empties the file, ...
OpenTemp(t) ==
  LET j == job[t]
  IN  /\ Step(t, "open", "fill")
      /\ IsWritable(j.dir)
      /\ temp' = [temp EXCEPT ![j.dir][Temp(j.kind)] = Content(j.kind, 0, FALSE)]
      /\ UNCHANGED <<writable, file, mem, last, job, home, saved>>

\* ... then writes it.
FillTemp(t) ==
  LET j == job[t]
  IN  /\ Step(t, "fill", "rename")
      /\ temp' = [temp EXCEPT ![j.dir][Temp(j.kind)] = Content(j.kind, j.version, TRUE)]
      /\ UNCHANGED <<writable, file, mem, last, job, home, saved>>

\* No such directory, no room, no permission: at any of the steps, and the file
\* keeps what it had.
SaveFails(t) ==
  /\ \E step \in {"open", "fill", "rename"} : Step(t, step, "idle")
  /\ job' = [job EXCEPT ![t] = NoSave]
  /\ temp' = [temp EXCEPT ![job[t].dir][Temp(job[t].kind)] = Blank(job[t].kind)]
  /\ UNCHANGED <<writable, file, mem, last, home, saved>>

Rename(t) ==
  LET j == job[t]
  IN  /\ Step(t, "rename", "idle")
      /\ job' = [job EXCEPT ![t] = NoSave]
      /\ file' = [file EXCEPT ![j.dir][j.kind] = temp[j.dir][Temp(j.kind)]]
      /\ temp' = [temp EXCEPT ![j.dir][Temp(j.kind)] = Blank(j.kind)]
      /\ home' = [home EXCEPT ![j.kind] = j.dir]
      /\ saved' = [saved EXCEPT ![j.kind] = j.version]
      /\ UNCHANGED <<writable, mem, last>>

-----------------------------------------------------------------------------
\* A mount goes or comes back, a disk fills up or is cleared.
Remount(d) ==
  /\ writable' = [writable EXCEPT ![d] = ~@]
  /\ UNCHANGED <<file, temp, mem, last, pc, job, home, saved>>

Crash ==
  /\ mem' = [k \in Kinds |-> Gone]
  /\ pc' = [t \in Threads |-> "idle"]
  /\ job' = [t \in Threads |-> NoSave]
  /\ temp' = [d \in Dirs |-> [k \in Kinds |-> Blank(k)]]
  /\ UNCHANGED <<writable, file, last, home, saved>>

Save(t) ==
  \/ RecordObservation(t) \/ NoteOutcome(t) \/ FinishTest(t)
  \/ Choose(t) \/ OpenTemp(t) \/ FillTemp(t) \/ SaveFails(t) \/ Rename(t)

Next ==
  \/ \E k \in Kinds : Load(k)
  \/ StoreChanges
  \/ \E t \in Threads : Save(t)
  \/ \E d \in Dirs : Remount(d)
  \/ Crash

Spec == Init /\ [][Next]_vars

-----------------------------------------------------------------------------
TypeOK ==
  /\ writable \in [Dirs -> BOOLEAN]
  /\ file \in [Dirs -> [Kinds -> Contents]]
  /\ temp \in [Dirs -> [Kinds -> Contents]]
  /\ mem \in [Kinds -> Nat \cup {Gone}]
  /\ last \in [Kinds -> Nat]
  /\ pc \in [Threads -> {"idle", "choose", "open", "fill", "rename"}]
  /\ job \in [Threads -> Saving]
  /\ home \in [Kinds -> Dirs]
  /\ saved \in [Kinds -> Nat]

\* Whenever the process dies, whichever saves were under way on whichever
\* threads, each of the files is whole and of its kind: a start never finds half
\* a file, or the counts where the states should be (runtime.rs:111-123,
\* 170-197, 269-283).
NothingTorn ==
  \A d \in Dirs : \A k \in Kinds : file[d][k].whole /\ file[d][k].of = k

\* During one life of the plugin saves land in the order of the changes: a
\* thread that was slow to write does not put an older snapshot over a newer one.
SavesLandInOrder ==
  [][Up /\ Up' => \A k \in Kinds : saved'[k] >= saved[k]]_vars

\* A start loads the last save, provided its directory is the one that is chosen
\* now, and whatever was chosen in between.  (Otherwise it may load an older one,
\* which a directory kept from before it could not be written.)
RestartLoadsLatest ==
  [][\A k \in Kinds :
       mem[k] = Gone /\ mem'[k] # Gone /\ IsChosen(home[k]) => mem'[k] = saved[k]]_vars
=============================================================================
