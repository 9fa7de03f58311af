-------------------------- MODULE AppConfig_proofs --------------------------
(***************************************************************************)
(* The invariants of AppConfig, for any number of instances and any        *)
(* amount of editing.                                                      *)
(***************************************************************************)
EXTENDS AppConfig, TLAPS

-----------------------------------------------------------------------------
(* The inductive invariant. *)

\* A stream is open on config.json only between Create and Write, and what it
\* is open on has been emptied by it or by another instance.
StreamOK ==
  \A i \in Instances :
    stream[i] => pc[i] = "write" /\ config \in {Empty, Default}

\* Only the user removes config.json.
HadOK == \A i \in Instances : had[i] => config # NoFile

EmptyOK == config = Empty => interrupted \/ \E i \in Instances : stream[i]

BrokenOK == config = Broken => spoiled

\* An instance reads because it has found config.json.
ReadOK == \A i \in Instances : pc[i] = "read" => config # NoFile \/ spoiled

\* Two instances that load have overlapped.
LoadersOK ==
  \A i, j \in Instances : Loading(i) /\ Loading(j) => i = j \/ overlapped

\* The files of a user who has not touched them.
UntouchedOK ==
  touches = 0 =>
    /\ config \in {NoFile, Empty, Default} /\ pages = {}
    /\ \A i \in Instances :
         /\ loaded[i] = Default
         /\ pc[i] \notin {"layout_dir", "layout_mkdir", "layout"}
         /\ pc[i] = "up" => views[i] = {"explorer"}

\* What is said of config.json.
FileOK == StreamOK /\ HadOK /\ ExistingKept /\ EmptyOK /\ BrokenOK /\ ReadOK

\* The inductive invariant: what the properties rest on.
IInv == TypeOK /\ FileOK /\ LoadersOK /\ ThrowsExplained /\ UntouchedOK

-----------------------------------------------------------------------------
(* What the constants and the definitions say. *)

\* The default is a configuration that the user might choose too.
LEMMA DefaultTyped == Default \in Configs
  BY AppConfigAssumption DEF Configs, Default

\* What a page makes is the explorer or nothing; the default page makes it.
LEMMA ViewsTyped ==
  ASSUME NEW c \in Configs
  PROVE  /\ DefaultViews[c.j_last_open] \in SUBSET {"explorer"}
         /\ c = Default => DefaultViews[c.j_last_open] = {"explorer"}
         /\ c = Default => c.j_last_open # "custom"
  <1>1. c.j_last_open \in Pages
    BY AppConfigAssumption DEF Configs
  <1>2. Default.j_last_open = "resource"
    BY DEF Default
  <1> QED
    BY <1>1, <1>2 DEF DefaultViews

\* j_page_name names a page file.
LEMMA NamesTyped ==
  ASSUME NEW c \in Configs
  PROVE  c.j_page_name \in PageFiles
  BY DEF Configs, PageFiles

\* The places a way leads over.
LEMMA WayPlaces ==
  ASSUME NEW w \in Ways
  PROVE  /\ w[1] \in {"dir", "page_dir", "layout_dir"}
         /\ w[2] \in {"mkdir", "page_mkdir", "layout_mkdir"}
         /\ w[3] \in {"config", "page", "layout"}
         /\ w[1] = "dir" <=> w[3] = "config"
         /\ w[2] = "mkdir" <=> w[3] = "config"
         /\ w[1] = "dir" <=> w[2] = "mkdir"
         /\ w[1] = "layout_dir" <=> w[3] = "layout"
         /\ w[2] = "layout_mkdir" <=> w[3] = "layout"
         /\ w[1] = "layout_dir" <=> w[2] = "layout_mkdir"
  BY DEF Ways

\* The bound is a number.
LEMMA MaxTyped == MaxTouches \in Nat
  BY AppConfigAssumption

\* After a touch the files are not untouched.
LEMMA Touched == TypeOK /\ Touch => touches' \in 0..MaxTouches /\ touches' # 0
  <1> SUFFICES ASSUME TypeOK, Touch
               PROVE  touches' \in 0..MaxTouches /\ touches' # 0
    OBVIOUS
  <1>1. touches \in 0..MaxTouches /\ touches < MaxTouches /\ touches' = touches + 1
    BY DEF TypeOK, Touch
  <1> QED
    BY <1>1, MaxTyped

\* From one place of a way to the next: the directory is there or is made, and
\* nothing else is touched.
LEMMA OnTheWay ==
  ASSUME IInv, NEW i \in Instances, NEW w \in Ways, NEW place \in {w[2], w[3]},
         pc[i] \in {w[1], w[2]}, Go(i, place),
         january' \in BOOLEAN, january => january',
         UNCHANGED <<config, pages, stream, mine, history>>
  PROVE  IInv'
  <1> USE DEF IInv
  <1>1. pc \in [Instances -> Places]
    BY DEF TypeOK
  <1>2. \A j \in Instances : pc'[j] = IF j = i THEN place ELSE pc[j]
    BY <1>1 DEF Go
  <1>3. /\ place \in Places
        /\ place \notin {"write", "read", "create", "up", "threw"}
    BY WayPlaces DEF Places
  <1>4. /\ place \in {"mkdir", "config"} <=> pc[i] \in {"dir", "mkdir"}
        /\ place \in {"layout_mkdir", "layout"}
             <=> pc[i] \in {"layout_dir", "layout_mkdir"}
        /\ place \notin {"dir", "layout_dir"}
    BY WayPlaces
  <1>5. pc[i] \notin {"write", "read", "create", "config", "up", "threw"}
    BY WayPlaces
  <1>6. /\ UNCHANGED <<config, pages, stream, loaded, views, layout>>
        /\ UNCHANGED <<touches, had, spoiled, interrupted, overlapped>>
    BY DEF mine, history
  <1>7. TypeOK'
    BY <1>1, <1>3, <1>6 DEF TypeOK, Go
  <1>8. FileOK'
    <2>1. StreamOK'
      BY <1>2, <1>5, <1>6 DEF FileOK, StreamOK
    <2>2. ReadOK'
      BY <1>2, <1>3, <1>6 DEF FileOK, ReadOK
    <2>3. HadOK' /\ EmptyOK' /\ BrokenOK'
      BY <1>6 DEF FileOK, HadOK, EmptyOK, BrokenOK
    <2>4. ExistingKept'
      BY <1>2, <1>3, <1>6 DEF FileOK, ExistingKept
    <2> QED
      BY <2>1, <2>2, <2>3, <2>4 DEF FileOK
  <1>9. LoadersOK'
    <2>1. \A j \in Instances : Loading(j)' <=> Loading(j)
      BY <1>2, <1>3, <1>4, <1>5 DEF Loading
    <2> QED
      BY <1>6, <2>1 DEF LoadersOK
  <1>10. ThrowsExplained'
    BY <1>2, <1>3, <1>6 DEF ThrowsExplained
  <1>11. UntouchedOK'
    BY <1>2, <1>3, <1>4, <1>6 DEF UntouchedOK
  <1> QED
    BY <1>7, <1>8, <1>9, <1>10, <1>11

-----------------------------------------------------------------------------
(* The induction. *)

\* Before the first start.
LEMMA Initially == Init => IInv
  <1> SUFFICES ASSUME Init PROVE IInv
    OBVIOUS
  <1>1. config \in {NoFile, Default} /\ (~january => config = NoFile)
    BY DEF Init
  <1>2. TypeOK
    <2>1. touches \in 0..MaxTouches
      BY MaxTyped DEF Init
    <2>2. pages \in SUBSET PageFiles /\ layout \in [Instances -> PageFiles \cup {"none"}]
      BY DEF Init
    <2> QED
      BY <1>1, <2>1, <2>2, DefaultTyped DEF Init, TypeOK, Places
  <1>3. FileOK
    BY <1>1, DefaultTyped, AppConfigAssumption
    DEF Init, FileOK, StreamOK, HadOK, ExistingKept, EmptyOK, BrokenOK, ReadOK
  <1>4. LoadersOK /\ ThrowsExplained
    BY DEF Init, LoadersOK, Loading, ThrowsExplained
  <1>5. UntouchedOK
    BY <1>1 DEF Init, UntouchedOK
  <1> QED
    BY <1>2, <1>3, <1>4, <1>5 DEF IInv

\* Every step of an instance, and everything that is done to it or its files.
LEMMA Step == IInv /\ [Next]_vars => IInv'
  <1> SUFFICES ASSUME IInv, [Next]_vars PROVE IInv'
    OBVIOUS
  <1> USE DefaultTyped, AppConfigAssumption DEF IInv
  <1>1. ASSUME NEW i \in Instances, EngineInit(i) \/ Kill(i) PROVE IInv'
    <2> USE DEF Go, disk, mine, history
    <2>1. CASE Start(i)
      <3>1. TypeOK'
        BY <2>1 DEF TypeOK, Places, Start
      <3>2. FileOK'
        BY <2>1 DEF TypeOK, FileOK, StreamOK, HadOK, ExistingKept, EmptyOK,
           BrokenOK, ReadOK, Start
      <3>3. LoadersOK' /\ ThrowsExplained'
        BY <2>1 DEF TypeOK, LoadersOK, Loading, ThrowsExplained, Start
      <3>4. UntouchedOK'
        BY <2>1 DEF TypeOK, UntouchedOK, Start
      <3> QED
        BY <3>1, <3>2, <3>3, <3>4
    <2>2. CASE TestDirectory(i)
      <3> PICK w \in Ways :
             /\ pc[i] = w[1]
             /\ Go(i, IF january THEN w[3] ELSE w[2])
             /\ UNCHANGED <<disk, stream, mine, history>>
        BY <2>2 DEF TestDirectory
      <3>1. /\ january \in BOOLEAN /\ january' = january
            /\ UNCHANGED <<config, pages>>
        BY DEF TypeOK
      <3> HIDE DEF IInv, Go, disk, mine, history
      <3> QED
        BY <3>1, OnTheWay
    <2>3. CASE MakeDirectory(i)
      <3> PICK w \in Ways :
             /\ pc[i] = w[2]
             /\ Go(i, w[3])
             /\ january' = TRUE
             /\ UNCHANGED <<config, pages, stream, mine, history>>
        BY <2>3 DEF MakeDirectory
      <3> HIDE DEF IInv, Go, disk, mine, history
      <3> QED
        BY OnTheWay
    <2>4. CASE TestConfig(i)
      <3>1. TypeOK'
        BY <2>4 DEF TypeOK, Places, TestConfig
      <3>2. FileOK'
        BY <2>4 DEF TypeOK, FileOK, StreamOK, HadOK, ExistingKept, EmptyOK,
           BrokenOK, ReadOK, TestConfig
      <3>3. LoadersOK' /\ ThrowsExplained'
        BY <2>4 DEF TypeOK, LoadersOK, Loading, ThrowsExplained, TestConfig
      <3>4. UntouchedOK'
        BY <2>4 DEF TypeOK, UntouchedOK, TestConfig
      <3> QED
        BY <3>1, <3>2, <3>3, <3>4
    <2>5. CASE Create(i)
      <3>1. TypeOK'
        BY <2>5 DEF TypeOK, Places, Create
      <3>2. FileOK'
        BY <2>5 DEF TypeOK, FileOK, StreamOK, HadOK, ExistingKept, EmptyOK,
           BrokenOK, ReadOK, Create
      <3>3. LoadersOK' /\ ThrowsExplained'
        BY <2>5 DEF TypeOK, LoadersOK, Loading, ThrowsExplained, Create
      <3>4. UntouchedOK'
        BY <2>5 DEF TypeOK, UntouchedOK, Create
      <3> QED
        BY <3>1, <3>2, <3>3, <3>4
    <2>6. CASE Write(i)
      <3>1. TypeOK'
        BY <2>6 DEF TypeOK, Places, Write, FileOK, StreamOK
      <3>2. FileOK'
        BY <2>6 DEF TypeOK, FileOK, StreamOK, HadOK, ExistingKept, EmptyOK,
           BrokenOK, ReadOK, Write
      <3>3. LoadersOK' /\ ThrowsExplained'
        BY <2>6 DEF TypeOK, LoadersOK, Loading, ThrowsExplained, Write
      <3>4. UntouchedOK'
        BY <2>6 DEF TypeOK, UntouchedOK, Write
      <3> QED
        BY <3>1, <3>2, <3>3, <3>4
    <2>7. CASE Read(i)
      <3>1. TypeOK'
        BY <2>7 DEF TypeOK, Places, Read
      <3>2. FileOK'
        BY <2>7 DEF TypeOK, FileOK, StreamOK, HadOK, ExistingKept, EmptyOK,
           BrokenOK, ReadOK, Read
      <3>3. LoadersOK' /\ ThrowsExplained'
        BY <2>7 DEF TypeOK, LoadersOK, Loading, ThrowsExplained, Read
      <3>4. UntouchedOK'
        BY <2>7 DEF TypeOK, UntouchedOK, Read
      <3> QED
        BY <3>1, <3>2, <3>3, <3>4
    <2>8. CASE ReadThrows(i)
      <3>1. TypeOK'
        BY <2>8 DEF TypeOK, Places, ReadThrows
      <3>2. FileOK'
        BY <2>8 DEF TypeOK, FileOK, StreamOK, HadOK, ExistingKept, EmptyOK,
           BrokenOK, ReadOK, ReadThrows
      <3>3. LoadersOK' /\ ThrowsExplained'
        BY <2>8 DEF TypeOK, LoadersOK, Loading, ThrowsExplained, FileOK,
           StreamOK, HadOK, ExistingKept, EmptyOK, BrokenOK, ReadOK,
           ReadThrows
      <3>4. UntouchedOK'
        BY <2>8 DEF TypeOK, UntouchedOK, ReadThrows
      <3> QED
        BY <3>1, <3>2, <3>3, <3>4
    <2>9. CASE PageTest(i)
      <3>1. TypeOK'
        BY <2>9 DEF TypeOK, Places, PageTest
      <3>2. FileOK'
        BY <2>9 DEF TypeOK, FileOK, StreamOK, HadOK, ExistingKept, EmptyOK,
           BrokenOK, ReadOK, PageTest
      <3>3. LoadersOK' /\ ThrowsExplained'
        BY <2>9 DEF TypeOK, LoadersOK, Loading, ThrowsExplained, PageTest
      <3>4. UntouchedOK'
        BY <2>9, ViewsTyped DEF TypeOK, UntouchedOK, PageTest
      <3> QED
        BY <3>1, <3>2, <3>3, <3>4
    <2>10. CASE PageExists(i)
      <3>1. TypeOK'
        BY <2>10 DEF TypeOK, Places, PageExists
      <3>2. FileOK'
        BY <2>10 DEF TypeOK, FileOK, StreamOK, HadOK, ExistingKept, EmptyOK,
           BrokenOK, ReadOK, PageExists
      <3>3. LoadersOK' /\ ThrowsExplained'
        BY <2>10 DEF TypeOK, LoadersOK, Loading, ThrowsExplained, PageExists
      <3>4. UntouchedOK'
        BY <2>10 DEF TypeOK, UntouchedOK, PageExists
      <3> QED
        BY <3>1, <3>2, <3>3, <3>4
    <2>11. CASE UIGenerateViews(i)
      <3>1. TypeOK'
        BY <2>11, ViewsTyped DEF TypeOK, Places, UIGenerateViews
      <3>2. FileOK'
        BY <2>11 DEF TypeOK, FileOK, StreamOK, HadOK, ExistingKept, EmptyOK,
           BrokenOK, ReadOK, UIGenerateViews
      <3>3. LoadersOK' /\ ThrowsExplained'
        BY <2>11 DEF TypeOK, LoadersOK, Loading, ThrowsExplained,
           UIGenerateViews
      <3>4. UntouchedOK'
        BY <2>11, ViewsTyped DEF TypeOK, UntouchedOK, UIGenerateViews
      <3> QED
        BY <3>1, <3>2, <3>3, <3>4
    <2>12. CASE UILoadPageFromDisk(i)
      <3>1. TypeOK'
        BY <2>12, NamesTyped DEF TypeOK, Places, UILoadPageFromDisk
      <3>2. FileOK'
        BY <2>12 DEF TypeOK, FileOK, StreamOK, HadOK, ExistingKept, EmptyOK,
           BrokenOK, ReadOK, UILoadPageFromDisk
      <3>3. LoadersOK' /\ ThrowsExplained'
        BY <2>12 DEF TypeOK, LoadersOK, Loading, ThrowsExplained,
           UILoadPageFromDisk
      <3>4. UntouchedOK'
        BY <2>12 DEF TypeOK, UntouchedOK, UILoadPageFromDisk
      <3> QED
        BY <3>1, <3>2, <3>3, <3>4
    <2>13. CASE Kill(i)
      <3>1. TypeOK'
        BY <2>13 DEF TypeOK, Places, Kill, Starting
      <3>2. FileOK'
        BY <2>13 DEF TypeOK, FileOK, StreamOK, HadOK, ExistingKept, EmptyOK,
           BrokenOK, ReadOK, Kill, Starting
      <3>3. LoadersOK' /\ ThrowsExplained'
        BY <2>13 DEF TypeOK, LoadersOK, Loading, ThrowsExplained, Kill,
           Starting
      <3>4. UntouchedOK'
        BY <2>13 DEF TypeOK, UntouchedOK, Kill, Starting
      <3> QED
        BY <3>1, <3>2, <3>3, <3>4
    <2>14. CASE StartHomeless(i)
      <3>1. TypeOK'
        BY <2>14 DEF TypeOK, Places, StartHomeless
      <3>2. FileOK'
        BY <2>14 DEF TypeOK, FileOK, StreamOK, HadOK, ExistingKept, EmptyOK,
           BrokenOK, ReadOK, StartHomeless
      <3>3. LoadersOK' /\ ThrowsExplained'
        BY <2>14 DEF TypeOK, LoadersOK, Loading, ThrowsExplained, StartHomeless
      <3>4. UntouchedOK'
        BY <2>14 DEF TypeOK, UntouchedOK, StartHomeless
      <3> QED
        BY <3>1, <3>2, <3>3, <3>4
    <2> QED
      BY <1>1, <2>1, <2>2, <2>3, <2>4, <2>5, <2>6, <2>7, <2>8, <2>9, <2>10,
         <2>11, <2>12, <2>13, <2>14
      DEF EngineInit, LoadAppConfig, LoadPage
  <1>2. CASE Edit
    <2> USE DEF disk, mine
    <2>1. TypeOK'
      BY <1>2, Touched DEF TypeOK, Places, Edit, Touch
    <2>2. FileOK'
      BY <1>2 DEF TypeOK, FileOK, StreamOK, HadOK, ExistingKept, EmptyOK,
         BrokenOK, ReadOK, Edit, Touch
    <2>3. LoadersOK' /\ ThrowsExplained'
      BY <1>2 DEF TypeOK, LoadersOK, Loading, ThrowsExplained, Edit, Touch
    <2>4. UntouchedOK'
      BY <1>2, Touched DEF TypeOK, UntouchedOK, Edit, Touch
    <2> QED
      BY <2>1, <2>2, <2>3, <2>4
  <1>3. CASE Remove
    <2> USE DEF disk, mine
    <2>1. TypeOK'
      <3>1. /\ january' \in BOOLEAN /\ pages' \in SUBSET PageFiles
            /\ ~january' => pages' = {}
        <4>1. CASE UNCHANGED <<january, pages>>
          BY <4>1 DEF TypeOK
        <4>2. CASE january' = FALSE /\ pages' = {}
          BY <4>2
        <4> QED
          BY <1>3, <4>1, <4>2 DEF Remove
      <3>2. /\ pc' = pc /\ loaded' = loaded /\ views' = views /\ layout' = layout
            /\ interrupted' = interrupted /\ overlapped' = overlapped
        BY <1>3 DEF Remove, Touch
      <3>3. /\ stream' \in [Instances -> BOOLEAN]
            /\ had' \in [Instances -> BOOLEAN] /\ spoiled'
        BY <1>3 DEF Remove
      <3> QED
        BY <1>3, <3>1, <3>2, <3>3, Touched DEF TypeOK, Remove
    <2>2. FileOK'
      BY <1>3 DEF TypeOK, FileOK, StreamOK, HadOK, ExistingKept, EmptyOK,
         BrokenOK, ReadOK, Remove, Touch
    <2>3. LoadersOK' /\ ThrowsExplained'
      BY <1>3 DEF TypeOK, LoadersOK, Loading, ThrowsExplained, Remove, Touch
    <2>4. UntouchedOK'
      BY <1>3, Touched DEF TypeOK, UntouchedOK, Remove, Touch
    <2> QED
      BY <2>1, <2>2, <2>3, <2>4
  <1>4. CASE AddPage
    <2> USE DEF disk, mine
    <2>1. TypeOK'
      BY <1>4, Touched DEF TypeOK, Places, AddPage, Touch
    <2>2. FileOK'
      BY <1>4 DEF TypeOK, FileOK, StreamOK, HadOK, ExistingKept, EmptyOK,
         BrokenOK, ReadOK, AddPage, Touch
    <2>3. LoadersOK' /\ ThrowsExplained'
      BY <1>4 DEF TypeOK, LoadersOK, Loading, ThrowsExplained, AddPage, Touch
    <2>4. UntouchedOK'
      BY <1>4, Touched DEF TypeOK, UntouchedOK, AddPage, Touch
    <2> QED
      BY <2>1, <2>2, <2>3, <2>4
  <1>5. CASE UNCHANGED vars
    BY <1>5 DEF vars, disk, mine, history, TypeOK, FileOK, StreamOK, HadOK,
      ExistingKept, EmptyOK, BrokenOK, ReadOK, LoadersOK, Loading,
      ThrowsExplained, UntouchedOK
  <1> QED
    BY <1>1, <1>2, <1>3, <1>4, <1>5 DEF Next

\* The invariant holds in every state of EngineInit.
THEOREM Inductive == Spec => []IInv
  BY Initially, Step, PTL DEF Spec

-----------------------------------------------------------------------------
\* Types, for any number of instances and any amount of editing.
THEOREM TypeCorrect == Spec => []TypeOK
  <1>1. IInv => TypeOK
    BY DEF IInv
  <1> QED
    BY <1>1, Inductive, PTL

\* An empty config.json is one whose creation is unfinished or was cut short.
THEOREM EmptyExplained == Spec => []EmptyIsUnfinished
  <1>1. IInv => EmptyIsUnfinished
    BY DEF IInv, FileOK, EmptyOK, StreamOK, EmptyIsUnfinished
  <1> QED
    BY <1>1, Inductive, PTL

\* What the program writes by itself, undisturbed, it can read.
THEOREM ReadsWhatItWrites == Spec => []ThrowsExplained
  <1>1. IInv => ThrowsExplained
    BY DEF IInv
  <1> QED
    BY <1>1, Inductive, PTL

\* A configuration that was there at the start is not written over.
THEOREM KeepsExisting == Spec => []ExistingKept
  <1>1. IInv => ExistingKept
    BY DEF IInv, FileOK
  <1> QED
    BY <1>1, Inductive, PTL

\* Untouched files always lead to the explorer.
THEOREM ExplorerShown == Spec => []UntouchedShowsExplorer
  <1>1. IInv => UntouchedShowsExplorer
    BY DEF IInv, UntouchedOK, UntouchedShowsExplorer
  <1> QED
    BY <1>1, Inductive, PTL
=============================================================================
