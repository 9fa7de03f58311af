-------------------------- MODULE Explorer_proofs ---------------------------
(***************************************************************************)
(* Proofs, for any number of inputs and changes, that the explorer shows   *)
(* what it watches, that a list at rest is stale only for the reasons      *)
(* Fresh names, that no Enter is forgotten, and that a refresh nobody      *)
(* disturbs ends the process only over what cannot be reached, watched or  *)
(* listed.                                                                 *)
(***************************************************************************)
EXTENDS Explorer, TLAPS

\* What is known of the watcher and the list at each step of a refresh.
WatchesPP ==
  /\ pc = "create" => watch = "none"
  /\ pc = "join" => ~alive
  /\ pc \in {"clear", "begin", "end"} => watch = pp
  /\ pc \in {"begin", "end"} => files = NoFiles
  /\ pc = "end" => pp \in Dirs
  /\ pc \in {"check", "project", "read", "test", "delete", "join", "reset"}
     /\ files.dir # "none" => watch = files.dir
  /\ watch = "none" => pending = 0 /\ ~alive
  /\ pc \in {"check", "project", "read", "test", "delete", "join", "end",
              "reset"}
       => watch \in Dirs \cup {"none"}

\* No change of the watched directory is unaccounted for: it is on its way to
\* the callback, or the callback has raised the flag, or it was a rename.
Quiet == alive /\ pending = 0 /\ ~missed

Accounted ==
  /\ pc = "end" /\ Quiet /\ ~raised => seen = version[pp]
  /\ pc = "reset" /\ watch # "none" /\ Quiet /\ ~raised /\ ~lost
       => files = [dir |-> watch, version |-> version[watch]]
  /\ pc = "check" /\ watch # "none" /\ Quiet /\ ~changed /\ ~lost
       => files = [dir |-> watch, version |-> version[watch]]

\* An Enter whose path is not read yet has its flag up: changed falls only at
\* the end of Update, and raised tells there whether it was tested before.
FlagUp ==
  /\ pc \notin {"check", "hung", "crashed"} => changed
  /\ entered /\ pc = "check" => changed \/ lost
  /\ entered /\ pc \in {"test", "delete", "join", "create", "clear", "begin",
                       "end"}
       => raised
  /\ entered /\ pc = "reset" => raised \/ lost

\* While the file system keeps still, what Update has found to exist exists.
Undisturbed ==
  /\ changes = 0 /\ pc \in {"read", "test"} => "project" \in exists
  /\ changes = 0 /\ pc \in {"delete", "join", "create", "clear", "begin"}
       => Exists(pp)
  /\ changes = 0 /\ pc = "end" => seen = version[pp]
  /\ SurvivesUndisturbed

IInv == TypeOK /\ WatchesPP /\ Accounted /\ FlagUp /\ Undisturbed

LEMMA InitIInv == Init => IInv
<1> SUFFICES ASSUME Init PROVE IInv
  OBVIOUS
<1> USE ExplorerAssumption DEF Init
<1>1. TypeOK
  <2>1. DiskOK
    <3>1. exists \subseteq Dirs /\ faulty \subseteq Dirs
      BY DEF Dirs
    <3>2. version \in [Dirs -> Nat] /\ changes \in 0..MaxChanges
      OBVIOUS
    <3> QED
      BY <3>1, <3>2 DEF DiskOK
  <2>2. WatcherOK /\ FieldOK /\ UpdateOK /\ GhostsOK
    <3>1. WatcherOK
      BY DEF WatcherOK
    <3>2. FieldOK
      <4>1. path \in {"blank", "/"} \cup Texts /\ editing \in {"none"} \cup Texts
        OBVIOUS
      <4>2. inputs \in 0..MaxInputs
        OBVIOUS
      <4>3. entered \in BOOLEAN /\ fell \in BOOLEAN
        OBVIOUS
      <4> QED
        BY <4>1, <4>2, <4>3 DEF FieldOK
    <3>3. UpdateOK /\ GhostsOK
      BY DEF UpdateOK, UpdatePc, GhostsOK
    <3> QED
      BY <3>1, <3>2, <3>3
  <2>3. ViewOK
    BY DEF ViewOK, NoFiles
  <2> QED
    BY <2>1, <2>2, <2>3 DEF TypeOK
<1>2. WatchesPP /\ Accounted /\ FlagUp /\ Undisturbed
  BY DEF WatchesPP, Accounted, NoFiles, Quiet, FlagUp, Undisturbed,
         SurvivesUndisturbed
<1> QED
  BY <1>1, <1>2 DEF IInv

\* A group of variables that a step leaves alone keeps its type.
LEMMA Untouched ==
  /\ DiskOK /\ UNCHANGED disk => DiskOK'
  /\ WatcherOK /\ UNCHANGED watcher => WatcherOK'
  /\ FieldOK /\ UNCHANGED field => FieldOK'
  /\ UpdateOK /\ UNCHANGED update => UpdateOK'
  /\ GhostsOK /\ UNCHANGED ghosts => GhostsOK'
  /\ ViewOK /\ UNCHANGED <<changed, init, files, drawing>> => ViewOK'
BY DEF DiskOK, WatcherOK, FieldOK, UpdateOK, GhostsOK, ViewOK,
   disk, watcher, field, update, ghosts

\* A change of the file system is recorded by a watcher or not.
LEMMA TouchType ==
  ASSUME NEW d \in Dirs, NEW reported \in BOOLEAN,
         DiskOK, WatcherOK, GhostsOK, Touch(d, reported)
  PROVE  version' \in [Dirs -> Nat] /\ pending' \in Nat /\ missed' \in BOOLEAN
<1>1. version' \in [Dirs -> Nat]
  BY DEF DiskOK, Touch, Content
<1>2. pending' \in Nat
  BY DEF WatcherOK, Touch
<1>3. missed' \in BOOLEAN
  BY Zenon DEF Touch, Content
<1> QED
  BY <1>1, <1>2, <1>3

\* Every field, local and counter keeps its type.
LEMMA TypeStep == TypeOK /\ WatchesPP /\ [Next]_vars => TypeOK'
<1> SUFFICES ASSUME TypeOK, WatchesPP, [Next]_vars PROVE TypeOK'
  OBVIOUS
<1> USE ExplorerAssumption, Untouched DEF TypeOK
<1>1. CASE Disk
  <2>s. Step => changes' \in 0..MaxChanges
    BY DEF Step, DiskOK
  <2>1. ASSUME NEW d \in Dirs, Change(d) \/ Rename(d) PROVE TypeOK'
    <3>1. version' \in [Dirs -> Nat] /\ pending' \in Nat /\ missed' \in BOOLEAN
      BY <2>1, TouchType DEF Change, Rename
    <3>2. DiskOK' /\ WatcherOK' /\ GhostsOK'
      BY <2>1, <2>s, <3>1
         DEF Change, Rename, DiskOK, WatcherOK, GhostsOK
    <3> QED
      BY <2>1, <3>2 DEF Change, Rename
  <2>2. ASSUME NEW d \in {"project", "sub"}, Remove(d) PROVE TypeOK'
    <3>1. version' \in [Dirs -> Nat] /\ pending' \in Nat /\ missed' \in BOOLEAN
      <4>1. CASE d = "sub"
        BY <2>2, <4>1, TouchType DEF Remove, Dirs
      <4>2. CASE d # "sub"
        BY <2>2, <4>2 DEF Remove, DiskOK, WatcherOK, GhostsOK
      <4> QED
        BY <4>1, <4>2
    <3>2. alive' \in BOOLEAN
      BY <2>2, Zenon DEF Remove
    <3>3. DiskOK' /\ WatcherOK' /\ GhostsOK'
      BY <2>2, <2>s, <3>1, <3>2 DEF Remove, DiskOK, WatcherOK, GhostsOK
    <3> QED
      BY <2>2, <3>3 DEF Remove
  <2>3. ASSUME NEW d \in {"project", "sub"}, Make(d) PROVE TypeOK'
    <3>1. version' \in [Dirs -> Nat] /\ pending' \in Nat /\ missed' \in BOOLEAN
      BY <2>3, TouchType DEF Make, Dirs
    <3>2. DiskOK' /\ WatcherOK' /\ GhostsOK'
      BY <2>3, <2>s, <3>1 DEF Make, Dirs, DiskOK, WatcherOK, GhostsOK
    <3> QED
      BY <2>3, <3>2 DEF Make
  <2>4. CASE Alter
    <3>1. faulty' \subseteq Dirs
      BY <2>4 DEF Alter, Dirs
    <3>2. DiskOK'
      BY <2>4, <2>s, <3>1 DEF Alter, DiskOK
    <3> QED
      BY <2>4, <3>2 DEF Alter
  <2> QED
    BY <1>1, <2>1, <2>2, <2>3, <2>4 DEF Disk
<1>2. CASE EatIgnored \/ Callback
  <2>1. CASE EatIgnored
    <3>1. WatcherOK'
      BY <2>1 DEF EatIgnored, WatcherOK
    <3> QED
      BY <2>1, <3>1 DEF EatIgnored
  <2>2. CASE Callback
    <3>1. WatcherOK' /\ GhostsOK' /\ ViewOK'
      BY <2>2 DEF Callback, Raise, WatcherOK, GhostsOK, ViewOK
    <3> QED
      BY <2>2, <3>1 DEF Callback
  <2> QED
    BY <1>2, <2>1, <2>2
<1>3. CASE Update
  <2>1. CASE Check
    BY <2>1 DEF Check, UpdateOK, UpdatePc, GhostsOK
  <2>2. CASE TestProject
    <3>1. lost' \in BOOLEAN
      BY <2>2, Zenon DEF TestProject, GhostsOK
    <3>2. UpdateOK' /\ GhostsOK'
      BY <2>2, <3>1 DEF TestProject, UpdateOK, UpdatePc, GhostsOK
    <3> QED
      BY <2>2, <3>2 DEF TestProject
  <2>3. CASE ReadPath
    <3>1. Resolve(path) \in Places
      BY DEF FieldOK, Resolve, Places, Dirs
    <3>2. UpdateOK' /\ FieldOK'
      BY <2>3, <3>1 DEF ReadPath, UpdateOK, UpdatePc, FieldOK
    <3> QED
      BY <2>3, <3>2 DEF ReadPath
  <2>4. CASE TestPath
    <3>1. UpdateOK' /\ FieldOK'
      BY <2>4 DEF TestPath, UpdateOK, UpdatePc, FieldOK, Places, Dirs
    <3> QED
      BY <2>4, <3>1 DEF TestPath
  <2>5. CASE DeleteWatcher
    <3>1. WatcherOK' /\ UpdateOK'
      BY <2>5 DEF DeleteWatcher, WatcherOK, UpdateOK, UpdatePc
    <3> QED
      BY <2>5, <3>1 DEF DeleteWatcher
  <2>12. CASE RemoveWatch
    <3>1. WatcherOK' /\ UpdateOK'
      BY <2>12 DEF RemoveWatch, WatcherOK, UpdateOK, UpdatePc
    <3> QED
      BY <2>12, <3>1 DEF RemoveWatch
  <2>11. CASE DeleteHangs
    <3>1. UpdateOK'
      BY <2>11 DEF DeleteHangs, UpdateOK, UpdatePc
    <3> QED
      BY <2>11, <3>1 DEF DeleteHangs
  <2>6. CASE CreateWatcher
    <3>1. UpdateOK' /\ WatcherOK' /\ GhostsOK'
      BY <2>6 DEF CreateWatcher, UpdateOK, UpdatePc, WatcherOK, GhostsOK
    <3> QED
      BY <2>6, <3>1 DEF CreateWatcher
  <2>7. CASE Clear
    BY <2>7 DEF Clear, Tear, NoFiles, UpdateOK, UpdatePc, ViewOK
  <2>8. CASE FetchBegin
    <3>1. UpdateOK'
      BY <2>8 DEF FetchBegin, UpdateOK, UpdatePc, DiskOK
    <3> QED
      BY <2>8, <3>1 DEF FetchBegin
  <2>9. CASE FetchEnd
    <3>1. UpdateOK'
      BY <2>9 DEF FetchEnd, UpdateOK, UpdatePc
    <3>2. files' \in [dir : Dirs \cup {"none"}, version : Nat]
      <4>1. pp \in Dirs /\ seen \in Nat
        BY <2>9 DEF FetchEnd, WatchesPP, UpdateOK
      <4>2. version[pp] \in Nat
        BY <4>1 DEF DiskOK
      <4>3. CASE UNCHANGED files
        BY <4>3 DEF ViewOK
      <4>4. ASSUME NEW v \in {seen, version[pp]},
                   files' = [dir |-> pp, version |-> v]
            PROVE  files' \in [dir : Dirs \cup {"none"}, version : Nat]
        BY <4>1, <4>2, <4>4
      <4> QED
        BY <2>9, <4>3, <4>4 DEF FetchEnd
    <3>3. ViewOK'
      BY <2>9, <3>2 DEF FetchEnd, Tear, ViewOK
    <3> QED
      BY <2>9, <3>1, <3>3 DEF FetchEnd
  <2>10. CASE Reset
    <3>1. lost' \in BOOLEAN
      BY <2>10, Zenon DEF Reset
    <3>2. UpdateOK' /\ GhostsOK' /\ ViewOK'
      BY <2>10, <3>1 DEF Reset, UpdateOK, UpdatePc, GhostsOK, ViewOK
    <3> QED
      BY <2>10, <3>2 DEF Reset
  <2> QED
    BY <1>3, <2>1, <2>2, <2>3, <2>4, <2>5, <2>6, <2>7, <2>8, <2>9, <2>10,
       <2>11, <2>12 DEF Update
<1>4. CASE Draw
  <2>1. CASE FirstFrame
    <3>1. GhostsOK' /\ ViewOK'
      BY <2>1 DEF FirstFrame, Raise, GhostsOK, ViewOK
    <3> QED
      BY <2>1, <3>1 DEF FirstFrame
  <2>2. CASE DrawBegin
    <3>1. FieldOK' /\ ViewOK'
      BY <2>2 DEF DrawBegin, FieldOK, ViewOK
    <3> QED
      BY <2>2, <3>1 DEF DrawBegin
  <2>3. CASE DrawEnd
    <3>1. UpdateOK' /\ ViewOK'
      BY <2>3 DEF DrawEnd, UpdateOK, UpdatePc, ViewOK
    <3> QED
      BY <2>3, <3>1 DEF DrawEnd
  <2>4. CASE DrawThrows
    <3>1. UpdateOK'
      BY <2>4 DEF DrawThrows, UpdateOK, UpdatePc
    <3> QED
      BY <2>4, <3>1 DEF DrawThrows
  <2> QED
    BY <1>4, <2>1, <2>2, <2>3, <2>4 DEF Draw
<1>5. CASE User
  <2>s. Input => inputs' \in 0..MaxInputs
    BY DEF Input, FieldOK
  <2>1. CASE Enter
    <3>1. FieldOK' /\ GhostsOK' /\ ViewOK'
      BY <2>1, <2>s DEF Enter, Raise, FieldOK, GhostsOK, ViewOK
    <3> QED
      BY <2>1, <3>1 DEF Enter
  <2>2. CASE Blur
    <3>1. FieldOK'
      BY <2>2 DEF Blur, FieldOK
    <3> QED
      BY <2>2, <3>1 DEF Blur
  <2>3. ASSUME NEW text \in Texts, Type(text) PROVE TypeOK'
    <3>1. FieldOK'
      BY <2>3, <2>s DEF Type, FieldOK
    <3> QED
      BY <2>3, <3>1 DEF Type
  <2> QED
    BY <1>5, <2>1, <2>2, <2>3 DEF User
<1>6. CASE UNCHANGED vars
  BY <1>6 DEF vars
<1> QED
  BY <1>1, <1>2, <1>3, <1>4, <1>5, <1>6 DEF Next

\* The watcher is on what Update resolved, and the list shows it or nothing.
LEMMA WatchesStep == TypeOK /\ WatchesPP /\ [Next]_vars => WatchesPP'
<1> SUFFICES ASSUME TypeOK, WatchesPP, [Next]_vars PROVE WatchesPP'
  OBVIOUS
<1>0. pending \in Nat
  BY DEF TypeOK, WatcherOK
<1>1. ASSUME UNCHANGED <<watch, pending, alive, pc, pp, files>> PROVE WatchesPP'
  BY <1>1 DEF WatchesPP
<1>2. CASE Disk
  <2>1. UNCHANGED <<watch, pc, pp, files>>
    BY <1>2 DEF Disk, Change, Rename, Remove, Make, Alter, update, watcher
  <2>4. alive' => alive
    <3>1. ASSUME NEW d \in Dirs, Change(d) \/ Rename(d) PROVE alive' => alive
      BY <3>1, Zenon DEF Change, Rename
    <3>2. ASSUME NEW d \in {"project", "sub"}, Remove(d) \/ Make(d)
          PROVE  alive' => alive
      BY <3>2, Zenon DEF Remove, Make
    <3> QED
      BY <1>2, <3>1, <3>2 DEF Disk, Alter, watcher
  <2>2. watch = "none" => pending' = 0 /\ ~alive'
    <3>1. SUFFICES ASSUME watch = "none" PROVE pending' = 0 /\ ~alive'
      OBVIOUS
    <3>2. pending = 0 /\ ~alive
      BY <3>1 DEF WatchesPP
    <3>3. ASSUME NEW d \in Dirs, Change(d) \/ Rename(d)
          PROVE  pending' = 0
      BY <3>2, <3>3 DEF Change, Rename, Touch
    <3>4. ASSUME NEW d \in {"project", "sub"}, Remove(d) \/ Make(d)
          PROVE  pending' = 0
      BY <3>2, <3>4 DEF Remove, Make, Touch
    <3> QED
      BY <1>2, <2>4, <3>2, <3>3, <3>4 DEF Disk, Alter, watcher
  <2> QED
    BY <2>1, <2>2, <2>4 DEF WatchesPP
<1>3. CASE EatIgnored
  BY <1>1, <1>3 DEF EatIgnored, disk, update
<1>4. CASE Callback
  BY <1>0, <1>4 DEF Callback, update, WatchesPP
<1>5. CASE Update
  <2>1. CASE Check
    BY <2>1 DEF Check, watcher, WatchesPP
  <2>2. CASE TestProject
    BY <2>2 DEF TestProject, watcher, WatchesPP
  <2>3. CASE ReadPath
    BY <2>3 DEF ReadPath, watcher, WatchesPP
  <2>4. CASE TestPath
    BY <2>4 DEF TestPath, watcher, WatchesPP
  <2>5. CASE DeleteWatcher
    BY <2>5 DEF DeleteWatcher, WatchesPP
  <2>12. CASE RemoveWatch
    BY <2>12 DEF RemoveWatch, WatchesPP
  <2>6. CASE DeleteHangs
    BY <2>6 DEF DeleteHangs, watcher, WatchesPP
  <2>7. CASE CreateWatcher
    BY <2>7
       DEF CreateWatcher, Exists, WatchesPP, TypeOK, DiskOK, WatcherOK, Dirs
  <2>8. CASE Clear
    BY <2>8 DEF Clear, watcher, WatchesPP
  <2>9. CASE FetchBegin
    BY <2>9 DEF FetchBegin, watcher, WatchesPP, TypeOK, DiskOK
  <2>10. CASE FetchEnd
    BY <2>10 DEF FetchEnd, watcher, WatchesPP
  <2>11. CASE Reset
    BY <2>11 DEF Reset, watcher, WatchesPP
  <2> QED
    BY <1>5, <2>1, <2>2, <2>3, <2>4, <2>5, <2>6, <2>7, <2>8, <2>9, <2>10,
       <2>11, <2>12 DEF Update
<1>6. CASE Draw
  <2>1. CASE FirstFrame
    BY <1>1, <2>1 DEF FirstFrame, watcher, update
  <2>2. CASE DrawBegin
    BY <1>1, <2>2 DEF DrawBegin, watcher, update
  <2>3. CASE DrawEnd
    BY <2>3 DEF DrawEnd, watcher, WatchesPP
  <2>4. CASE DrawThrows
    BY <2>4 DEF DrawThrows, watcher, WatchesPP
  <2> QED
    BY <1>6, <2>1, <2>2, <2>3, <2>4 DEF Draw
<1>7. CASE User
  BY <1>1, <1>7 DEF User, Enter, Blur, Type, watcher, update
<1>8. CASE UNCHANGED vars
  BY <1>1, <1>8 DEF vars, watcher, update
<1> QED
  BY <1>2, <1>3, <1>4, <1>5, <1>6, <1>7, <1>8 DEF Next

\* A change that the watcher on d records, or a rename, ends the quiet; what
\* is quiet afterwards was so before and its content is the same.
LEMMA TouchAccounted ==
  ASSUME TypeOK, WatchesPP, NEW d \in Dirs, NEW reported \in BOOLEAN,
         Touch(d, reported), UNCHANGED watch, alive' => alive, Quiet'
  PROVE  Quiet /\ watch # d
<1>1. pending \in Nat
  BY DEF TypeOK, WatcherOK
<1>2. alive /\ pending' = 0 /\ ~missed'
  BY DEF Quiet
<1>3. ~missed /\ ~(watch = d /\ ~reported)
  BY <1>2, Zenon DEF Touch, Content
<1>4. ~(watch = d /\ reported) /\ pending = 0
  BY <1>1, <1>2 DEF Touch
<1> QED
  BY <1>2, <1>3, <1>4 DEF Quiet

\* Every change of the watched directory stays accounted for.
LEMMA AccountedStep == IInv /\ [Next]_vars => Accounted'
<1> SUFFICES ASSUME IInv, [Next]_vars PROVE Accounted'
  OBVIOUS
<1> USE DEF IInv
<1>0. pending \in Nat /\ version \in [Dirs -> Nat]
  BY DEF TypeOK, WatcherOK, DiskOK
\* A step that leaves Update, the list and the flags alone, and that neither
\* restores the quiet nor changes what the watched directory holds.
<1>1. ASSUME UNCHANGED <<watch, pc, pp, seen, files, raised, changed, lost>>,
             Quiet' => Quiet,
             Quiet' /\ watch \in Dirs => version'[watch] = version[watch]
      PROVE  Accounted'
  BY <1>1 DEF Accounted, WatchesPP
<1>2. CASE Disk
  <2>1. UNCHANGED <<watch, pc, pp, seen, files, raised, changed, lost>>
    BY <1>2 DEF Disk, Change, Rename, Remove, Make, Alter, watcher, update, ghosts
  <2>2. ASSUME NEW d \in Dirs, NEW reported \in BOOLEAN, Touch(d, reported),
               alive' => alive
        PROVE  Accounted'
    <3>1. Quiet' => Quiet /\ watch # d
      BY <2>1, <2>2, TouchAccounted
    <3>2. watch \in Dirs /\ watch # d => version'[watch] = version[watch]
      BY <1>0, <2>2 DEF Touch, Content
    <3> QED
      BY <1>1, <2>1, <3>1, <3>2
  <2>3. ASSUME NEW d \in Dirs, Change(d) \/ Rename(d) PROVE Accounted'
    <3>1. Touch(d, TRUE) \/ Touch(d, FALSE)
      BY <2>3 DEF Change, Rename
    <3>2. alive' => alive
      BY <2>3, Zenon DEF Change, Rename
    <3> QED
      BY <2>2, <3>1, <3>2
  <2>4. ASSUME NEW d \in {"project", "sub"}, Remove(d) \/ Make(d)
        PROVE  Accounted'
    <3>1. alive' => alive
      BY <2>4, Zenon DEF Remove, Make
    <3>2. CASE Touch("project", TRUE)
      BY <2>2, <3>1, <3>2 DEF Dirs
    <3>3. CASE UNCHANGED <<version, missed, pending>>
      <4>1. Quiet' => Quiet
        BY <3>1, <3>3 DEF Quiet
      <4> QED
        BY <1>1, <2>1, <3>3, <4>1
    <3> QED
      BY <2>4, <3>2, <3>3 DEF Remove, Make
  <2>5. CASE Alter
    BY <1>1, <2>1, <2>5 DEF Alter, watcher, ghosts, Quiet
  <2> QED
    BY <1>2, <2>3, <2>4, <2>5 DEF Disk
<1>3. CASE EatIgnored
  BY <1>1, <1>3 DEF EatIgnored, disk, update, ghosts, Quiet
<1>4. CASE Callback
  BY <1>4 DEF Callback, Raise, update, Accounted, TypeOK, UpdateOK
<1>5. CASE Update
  <2>1. CASE Check
    BY <2>1 DEF Check, Accounted
  <2>2. CASE TestProject
    BY <2>2 DEF TestProject, Accounted
  <2>3. CASE ReadPath
    BY <2>3 DEF ReadPath, Accounted
  <2>4. CASE TestPath
    BY <2>4 DEF TestPath, Accounted
  <2>5. CASE DeleteWatcher
    BY <2>5 DEF DeleteWatcher, Accounted
  <2>12. CASE RemoveWatch
    BY <2>12 DEF RemoveWatch, Accounted
  <2>6. CASE DeleteHangs
    BY <2>6 DEF DeleteHangs, Accounted
  <2>7. CASE CreateWatcher
    BY <2>7 DEF CreateWatcher, Accounted
  <2>8. CASE Clear
    BY <2>8 DEF Clear, Accounted
  <2>9. CASE FetchBegin
    BY <2>9 DEF FetchBegin, disk, Accounted
  <2>10. CASE FetchEnd
    BY <2>10 DEF FetchEnd, disk, watcher, ghosts, Accounted, Quiet, WatchesPP
  <2>11. CASE Reset
    BY <2>11 DEF Reset, disk, watcher, Accounted, Quiet
  <2> QED
    BY <1>5, <2>1, <2>2, <2>3, <2>4, <2>5, <2>6, <2>7, <2>8, <2>9, <2>10,
       <2>11, <2>12 DEF Update
<1>6. CASE Draw
  <2>1. CASE FirstFrame
    BY <2>1 DEF FirstFrame, Raise, update, watcher, disk, Accounted, Quiet
  <2>2. CASE DrawBegin
    BY <1>1, <2>2 DEF DrawBegin, disk, watcher, update, ghosts, Quiet
  <2>3. CASE DrawEnd
    BY <2>3 DEF DrawEnd, disk, watcher, ghosts, Accounted, Quiet
  <2>4. CASE DrawThrows
    BY <2>4 DEF DrawThrows, Accounted
  <2> QED
    BY <1>6, <2>1, <2>2, <2>3, <2>4 DEF Draw
<1>7. CASE User
  <2>1. CASE Enter
    BY <2>1 DEF Enter, Raise, update, watcher, disk, Accounted, Quiet
  <2>2. CASE Blur \/ \E text \in Texts : Type(text)
    BY <1>1, <2>2 DEF Blur, Type, disk, watcher, update, ghosts, Quiet
  <2> QED
    BY <1>7, <2>1, <2>2 DEF User
<1>8. CASE UNCHANGED vars
  BY <1>1, <1>8 DEF vars, disk, watcher, update, ghosts, Quiet
<1> QED
  BY <1>2, <1>3, <1>4, <1>5, <1>6, <1>7, <1>8 DEF Next

\* No step lets the flag of an unread Enter fall unanswered.
LEMMA FlagStep == TypeOK /\ FlagUp /\ [Next]_vars => FlagUp'
<1> SUFFICES ASSUME TypeOK, FlagUp, [Next]_vars PROVE FlagUp'
  OBVIOUS
<1>1. ASSUME UNCHANGED <<pc, changed, entered, raised, lost>> PROVE FlagUp'
  BY <1>1 DEF FlagUp
<1>2. CASE Disk
  BY <1>1, <1>2 DEF Disk, Change, Rename, Remove, Make, Alter, update, field,
                    ghosts
<1>3. CASE EatIgnored \/ Callback
  BY <1>1, <1>3 DEF EatIgnored, Callback, Raise, update, field, ghosts, FlagUp
<1>4. CASE Update
  <2>1. CASE Check \/ ReadPath \/ TestPath
    BY <2>1 DEF Check, ReadPath, TestPath, field, ghosts, FlagUp
  <2>5. CASE TestProject
    <3>1. pc = "project" /\ UNCHANGED <<changed, raised>> /\ pc' # "check"
      BY <2>5 DEF TestProject
    <3>2. pc' \in {"read", "crashed"} \/ (pc' = "reset" /\ lost')
      <4>1. CASE Exists("project")
        BY <2>5, <4>1 DEF TestProject
      <4>2. CASE ~Exists("project")
        BY <2>5, <4>2, Zenon DEF TestProject
      <4> QED
        BY <4>1, <4>2
    <3> QED
      BY <3>1, <3>2 DEF FlagUp
  <2>2. CASE RemoveWatch \/ DeleteWatcher \/ DeleteHangs \/ CreateWatcher
    BY <2>2 DEF RemoveWatch, DeleteWatcher, DeleteHangs, CreateWatcher, field,
                ghosts, FlagUp
  <2>3. CASE Clear \/ FetchBegin \/ FetchEnd
    BY <2>3 DEF Clear, FetchBegin, FetchEnd, field, ghosts, FlagUp
  <2>4. CASE Reset
    BY <2>4 DEF Reset, field, FlagUp
  <2> QED
    BY <1>4, <2>1, <2>2, <2>3, <2>4, <2>5 DEF Update
<1>5. CASE Draw
  BY <1>5 DEF Draw, FirstFrame, DrawBegin, DrawThrows, DrawEnd, Raise, update,
              field, ghosts, FlagUp
<1>6. CASE User
  BY <1>1, <1>6 DEF User, Enter, Blur, Type, Input, InField, Running, Raise,
                    update, ghosts, FlagUp
<1>7. CASE UNCHANGED vars
  BY <1>1, <1>7 DEF vars, update, field, ghosts
<1> QED
  BY <1>2, <1>3, <1>4, <1>5, <1>6, <1>7 DEF Next

\* No step of a refresh fails on a file system that keeps still.
LEMMA UndisturbedStep == TypeOK /\ Undisturbed /\ [Next]_vars => Undisturbed'
<1> SUFFICES ASSUME TypeOK, Undisturbed, [Next]_vars PROVE Undisturbed'
  OBVIOUS
<1>0. changes \in Nat
  BY DEF TypeOK, DiskOK
<1>1. ASSUME UNCHANGED <<disk, update, files, drawing>> PROVE Undisturbed'
  BY <1>1 DEF Undisturbed, SurvivesUndisturbed, Exists, Troubled, disk, update
<1>2. CASE Disk
  <2>1. changes' > 0 /\ UNCHANGED <<pc, pp, files, drawing>>
    <3>1. Step => changes' > 0
      BY DEF Step, TypeOK, DiskOK
    <3> QED
      BY <1>2, <3>1 DEF Disk, Change, Rename, Remove, Make, Alter, update
  <2> QED
    BY <2>1 DEF Undisturbed, SurvivesUndisturbed
<1>3. CASE EatIgnored \/ Callback
  BY <1>1, <1>3 DEF EatIgnored, Callback
<1>4. CASE Update
  <2> USE DEF disk, Undisturbed, SurvivesUndisturbed, Exists, Troubled
  <2>1. CASE Check
    BY <2>1 DEF Check
  <2>2. CASE TestProject
    BY <2>2 DEF TestProject
  <2>3. CASE ReadPath
    BY <2>3 DEF ReadPath
  <2>4. CASE TestPath
    BY <2>4 DEF TestPath
  <2>5. CASE RemoveWatch \/ DeleteWatcher \/ DeleteHangs
    BY <2>5 DEF RemoveWatch, DeleteWatcher, DeleteHangs
  <2>6. CASE CreateWatcher
    BY <1>0, <2>6 DEF CreateWatcher
  <2>7. CASE Clear
    BY <2>7 DEF Clear
  <2>8. CASE FetchBegin
    BY <1>0, <2>8 DEF FetchBegin
  <2>9. CASE FetchEnd
    BY <1>0, <2>9 DEF FetchEnd
  <2>10. CASE Reset
    BY <2>10 DEF Reset
  <2> QED
    BY <1>4, <2>1, <2>2, <2>3, <2>4, <2>5, <2>6, <2>7, <2>8, <2>9, <2>10
       DEF Update
<1>5. CASE Draw
  <2>1. CASE FirstFrame
    BY <1>1, <2>1 DEF FirstFrame
  <2>2. CASE DrawBegin
    BY <2>2 DEF DrawBegin, InField, Running, Undisturbed, SurvivesUndisturbed,
                Exists, Troubled, disk, update
  <2>3. CASE DrawEnd
    BY <2>3 DEF DrawEnd, Running, Undisturbed, SurvivesUndisturbed, Exists,
                Troubled, disk
  <2>4. CASE DrawThrows
    BY <2>4 DEF DrawThrows, Undisturbed, SurvivesUndisturbed, Troubled, disk
  <2> QED
    BY <1>5, <2>1, <2>2, <2>3, <2>4 DEF Draw
<1>6. CASE User
  BY <1>1, <1>6 DEF User, Enter, Blur, Type
<1>7. CASE UNCHANGED vars
  BY <1>1, <1>7 DEF vars
<1> QED
  BY <1>2, <1>3, <1>4, <1>5, <1>6, <1>7 DEF Next

\* The strengthening holds in every reachable state.
THEOREM Inductive == Spec => []IInv
<1>1. Init => IInv
  BY InitIInv
<1>2. IInv /\ [Next]_vars => IInv'
  BY TypeStep, WatchesStep, AccountedStep, FlagStep, UndisturbedStep DEF IInv
<1> QED
  BY <1>1, <1>2, PTL DEF Spec

\* Every field and local of the explorer keeps its type: explorer.h, Update.
THEOREM TypeCorrect == Spec => []TypeOK
<1>1. IInv => TypeOK
  BY DEF IInv
<1> QED
  BY <1>1, Inductive, PTL

\* The list is never shown at rest for a directory that is not watched, in
\* any interleaving of Update, Draw, the callback and the file system.
THEOREM ShownIsWatched == Spec => []ShowsWatched
<1>1. IInv => ShowsWatched
  BY DEF IInv, WatchesPP, ShowsWatched
<1> QED
  BY <1>1, Inductive, PTL

\* A list at rest is the content of the watched directory, but for the lost
\* flag of Update's last line, a rename, and a removed directory.
THEOREM FreshAtRest == Spec => []Fresh
<1>1. IInv => Fresh
  BY DEF IInv, Accounted, Quiet, Fresh, Resting
<1> QED
  BY <1>1, Inductive, PTL

\* An Enter keeps the flag up until Update has read its path, unless the
\* refresh it overlapped clears the flag: explorer.cpp, Draw and Update.
THEOREM EnterNotForgotten == Spec => []EnterKeepsFlag
<1>1. IInv => EnterKeepsFlag
  BY DEF IInv, FlagUp, EnterKeepsFlag, Stopped, TypeOK, UpdateOK, UpdatePc
<1> QED
  BY <1>1, Inductive, PTL

\* While nobody else changes the file system, the tests Update makes before it
\* deletes the watcher carry it to its end: what ends the process is a directory
\* on which a call throws although it is there, a regular file in the path field,
\* a list drawn while it is refilled, or one in a window narrower than a button.
THEOREM SurvivesStill == Spec => []SurvivesUndisturbed
<1>1. IInv => SurvivesUndisturbed
  BY DEF IInv, Undisturbed
<1> QED
  BY <1>1, Inductive, PTL
=============================================================================
