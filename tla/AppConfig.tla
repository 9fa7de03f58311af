----------------------------- MODULE AppConfig -----------------------------
(***************************************************************************)
(* EngineInit of several instances of the program, which share what is in  *)
(* ~/january: config.json, and a settings file for each page.  An instance *)
(* tests, creates, writes and reads them in separate steps; it may be      *)
(* killed between two of them, and its user may edit or remove the files   *)
(* at any time.  Nothing locks them, and a stream that cannot write says   *)
(* so to nobody.                                                           *)
(***************************************************************************)
EXTENDS Naturals

CONSTANTS
  Instances,    \* starts of the program; an instance starts once
  PageTypes,    \* JPageType, those the user chooses from
  PageNames,    \* values of j_page_name the user chooses from
  NoFile, Empty, Broken,    \* config.json is missing, is empty, or does not
                            \* parse or lacks a key
  MaxTouches    \* bound: what the user does to the files

Pages == {"custom", "resource", "compositing", "scene", "material", "audio",
          "logic"}

Configs == [j_last_open : PageTypes, j_page_name : PageNames]

ASSUME AppConfigAssumption ==
  /\ PageTypes \subseteq Pages /\ "resource" \in PageTypes
  /\ "" \in PageNames
  /\ MaxTouches \in Nat
  /\ NoFile # Empty /\ NoFile # Broken /\ Empty # Broken
  /\ {NoFile, Empty, Broken} \cap Configs = {}

\* AppConfig().  The frame rate is stored and read with the rest, never used.
Default == [j_last_open |-> "resource", j_page_name |-> ""]

GetPageTypeString ==
  [p \in Pages |-> CASE p = "compositing" -> "Compositing"
                     [] p = "scene" -> "Scene"
                     [] p = "material" -> "Material"
                     [] p = "audio" -> "Audio"
                     [] p = "logic" -> "Logic"
                     [] OTHER -> "Resource"]

\* The page files: the test looks for one named for the page type, the load
\* for one named j_page_name.
PageFiles == PageNames \cup {GetPageTypeString[p] : p \in PageTypes}

\* GetDefaultViewByPage and UIGenerateViews: of the views a page lists, the
\* explorer alone is ever made.
DefaultViews == [p \in Pages |-> IF p \in {"resource", "material"}
                                 THEN {"explorer"} ELSE {}]

VARIABLES
  january,      \* the directory exists
  config,       \* what config.json holds
  pages,        \* the page files that exist
  pc,           \* pc[i]: where instance i is in EngineInit
  stream,       \* stream[i]: i has the file now at config.json open for writing
  loaded,       \* loaded[i]: i's AppConfig
  views,        \* views[i]: the views i has made
  layout,       \* layout[i]: the page file i has read, or "none"
  touches,      \* counts what the user has done
  had,          \* had[i]: config.json has existed since i started
  spoiled,      \* history: the user wrote a broken file or removed one
  interrupted,  \* history: a config.json was created and not written
  overlapped    \* history: two instances were loading at the same time

disk == <<january, config, pages>>
mine == <<loaded, views, layout>>
history == <<touches, had, spoiled, interrupted, overlapped>>
vars == <<disk, pc, stream, mine, history>>

Init ==
  /\ january \in BOOLEAN
  /\ config \in {NoFile} \cup (IF january THEN {Default} ELSE {})
  /\ pages = {}
  /\ pc = [i \in Instances |-> "off"]
  /\ stream = [i \in Instances |-> FALSE]
  /\ loaded = [i \in Instances |-> Default]
  /\ views = [i \in Instances |-> {}]
  /\ layout = [i \in Instances |-> "none"]
  /\ touches = 0
  /\ had = [i \in Instances |-> FALSE]
  /\ spoiled = FALSE /\ interrupted = FALSE /\ overlapped = FALSE

\* In LoadAppConfig.
Loading(i) == pc[i] \in {"dir", "mkdir", "config", "create", "write", "read"}

Starting(i) == pc[i] \notin {"off", "homeless", "up", "threw", "killed"}

Go(i, place) == pc' = [pc EXCEPT ![i] = place]

Start(i) ==
  /\ pc[i] = "off"
  /\ Go(i, "dir")
  /\ had' = [had EXCEPT ![i] = config # NoFile]
  /\ overlapped' = (overlapped \/ \E j \in Instances : Loading(j))
  /\ UNCHANGED <<disk, stream, mine, touches, spoiled, interrupted>>

\* get_home_directory throws when HOME is not set and the user has no entry in
\* the user database; create_directory when what they name does not exist.
\* The other instances share a home that does.
StartHomeless(i) ==
  /\ pc[i] = "off"
  /\ Go(i, "homeless")
  /\ UNCHANGED <<disk, stream, mine, history>>

-----------------------------------------------------------------------------
(* The directory, which three functions make if it is not there: each goes *)
(* from one place to another, by way of a third.                           *)

Ways == {<<"dir", "mkdir", "config">>,
         <<"page_dir", "page_mkdir", "page">>,
         <<"layout_dir", "layout_mkdir", "layout">>}

TestDirectory(i) ==
  \E w \in Ways :
    /\ pc[i] = w[1]
    /\ Go(i, IF january THEN w[3] ELSE w[2])
    /\ UNCHANGED <<disk, stream, mine, history>>

\* create_directory is content with a directory that another has made.
MakeDirectory(i) ==
  \E w \in Ways :
    /\ pc[i] = w[2]
    /\ Go(i, w[3])
    /\ january' = TRUE
    /\ UNCHANGED <<config, pages, stream, mine, history>>

-----------------------------------------------------------------------------
(* LoadAppConfig. *)

\* Mutant: an empty file counts as none.
TestConfig_Size(i) ==
  /\ pc[i] = "config"
  /\ Go(i, IF config \in {NoFile, Empty} THEN "create" ELSE "read")
  /\ UNCHANGED <<disk, stream, mine, history>>

TestConfig(i) ==
  /\ pc[i] = "config"
  /\ Go(i, IF config = NoFile THEN "create" ELSE "read")
  /\ UNCHANGED <<disk, stream, mine, history>>

\* Mutant: the stream makes the directory too.
Create_Anyway(i) ==
  /\ pc[i] = "create"
  /\ Go(i, "write")
  /\ config' = Empty
  /\ stream' = [stream EXCEPT ![i] = TRUE]
  /\ UNCHANGED <<january, pages, mine, history>>

\* std::ofstream empties what it opens; without the directory it opens nothing.
Create(i) ==
  /\ pc[i] = "create"
  /\ Go(i, "write")
  /\ config' = IF january THEN Empty ELSE config
  /\ stream' = [stream EXCEPT ![i] = january]
  /\ UNCHANGED <<january, pages, mine, history>>

\* Mutant: one of the three values is left out.
Write_LacksKey(i) ==
  /\ pc[i] = "write"
  /\ Go(i, "page_test")
  /\ stream' = [stream EXCEPT ![i] = FALSE]
  /\ config' = IF stream[i] THEN Broken ELSE config
  /\ UNCHANGED <<january, pages, mine, history>>

\* close() writes the default, into a file that is then no longer at this
\* path if the user has replaced or removed it.  It may find the disk full.
Write(i) ==
  /\ pc[i] = "write"
  /\ Go(i, "page_test")
  /\ stream' = [stream EXCEPT ![i] = FALSE]
  /\ \/ /\ config' = IF stream[i] THEN Default ELSE config
        /\ UNCHANGED interrupted
     \/ /\ interrupted' = (interrupted \/ stream[i])
        /\ UNCHANGED config
  /\ UNCHANGED <<january, pages, mine, touches, had, spoiled, overlapped>>

\* Opening, parsing and taking the three values, the first read of the file.
Read(i) ==
  /\ pc[i] = "read"
  /\ config \in Configs
  /\ Go(i, "page_test")
  /\ loaded' = [loaded EXCEPT ![i] = config]
  /\ UNCHANGED <<disk, stream, views, layout, history>>

\* json::parse or a conversion throws, and nothing catches.
ReadThrows(i) ==
  /\ pc[i] = "read"
  /\ config \notin Configs
  /\ Go(i, "threw")
  /\ UNCHANGED <<disk, stream, mine, history>>

-----------------------------------------------------------------------------
(* The page. *)

\* UIPageFirstTimeFire does not look at the directory for a custom page.
PageTest(i) ==
  /\ pc[i] = "page_test"
  /\ Go(i, IF loaded[i].j_last_open = "custom" THEN "layout_dir" ELSE "page_dir")
  /\ UNCHANGED <<disk, stream, mine, history>>

\* Mutant: the sense of the test is reversed.
PageExists_Reversed(i) ==
  /\ pc[i] = "page"
  /\ Go(i, IF GetPageTypeString[loaded[i].j_last_open] \in pages
           THEN "views" ELSE "layout_dir")
  /\ UNCHANGED <<disk, stream, mine, history>>

PageExists(i) ==
  /\ pc[i] = "page"
  /\ Go(i, IF GetPageTypeString[loaded[i].j_last_open] \in pages
           THEN "layout_dir" ELSE "views")
  /\ UNCHANGED <<disk, stream, mine, history>>

UIGenerateViews(i) ==
  /\ pc[i] = "views"
  /\ Go(i, "up")
  /\ views' = [views EXCEPT ![i] = DefaultViews[loaded[i].j_last_open]]
  /\ UNCHANGED <<disk, stream, loaded, layout, history>>

\* LoadIniSettingsFromDisk does nothing when there is no such file.
UILoadPageFromDisk(i) ==
  /\ pc[i] = "layout"
  /\ Go(i, "up")
  /\ layout' = [layout EXCEPT ![i] = IF loaded[i].j_page_name \in pages
                                     THEN loaded[i].j_page_name ELSE "none"]
  /\ UNCHANGED <<disk, stream, loaded, views, history>>

-----------------------------------------------------------------------------
(* What happens to the program and to its files. *)

Kill(i) ==
  /\ Starting(i)
  /\ Go(i, "killed")
  /\ interrupted' = (interrupted \/ stream[i])
  /\ stream' = [stream EXCEPT ![i] = FALSE]
  /\ UNCHANGED <<disk, mine, touches, had, spoiled, overlapped>>

Touch ==
  /\ touches < MaxTouches
  /\ touches' = touches + 1
  /\ UNCHANGED <<pc, mine, interrupted, overlapped>>

\* An editor writes a new file and renames it to config.json.
Edit ==
  /\ Touch
  /\ january
  /\ config' \in Configs \cup {Broken}
  /\ stream' = [i \in Instances |-> FALSE]
  /\ spoiled' = (spoiled \/ config' = Broken)
  /\ UNCHANGED <<january, pages, had>>

Remove ==
  /\ Touch
  /\ \/ UNCHANGED <<january, pages>>
     \/ january' = FALSE /\ pages' = {}
  /\ config' = NoFile
  /\ stream' = [i \in Instances |-> FALSE]
  /\ had' = [i \in Instances |-> FALSE]
  /\ spoiled' = TRUE

\* The program writes no page file.
AddPage ==
  /\ Touch
  /\ january
  /\ \E f \in PageFiles \ pages : pages' = pages \cup {f}
  /\ UNCHANGED <<january, config, stream, had, spoiled>>

-----------------------------------------------------------------------------
LoadAppConfig(i) ==
  \/ TestConfig(i) \/ Create(i) \/ Write(i) \/ Read(i) \/ ReadThrows(i)

LoadPage(i) ==
  \/ PageTest(i) \/ PageExists(i) \/ UIGenerateViews(i) \/ UILoadPageFromDisk(i)

EngineInit(i) ==
  \/ Start(i) \/ StartHomeless(i) \/ TestDirectory(i) \/ MakeDirectory(i)
  \/ LoadAppConfig(i) \/ LoadPage(i)

Next ==
  \/ \E i \in Instances : EngineInit(i) \/ Kill(i)
  \/ Edit \/ Remove \/ AddPage

Spec == Init /\ [][Next]_vars

-----------------------------------------------------------------------------
(* Properties. *)

Places == {"off", "homeless", "dir", "mkdir", "config", "create", "write", "read",
           "page_test", "page_dir", "page_mkdir", "page", "views",
           "layout_dir", "layout_mkdir", "layout", "up", "threw", "killed"}

\* Types.  The page files are in the directory, and so is the configuration.
TypeOK ==
  /\ january \in BOOLEAN /\ pages \in SUBSET PageFiles
  /\ config \in Configs \cup {NoFile, Empty, Broken}
  /\ ~january => config = NoFile /\ pages = {}
  /\ pc \in [Instances -> Places]
  /\ stream \in [Instances -> BOOLEAN]
  /\ loaded \in [Instances -> Configs]
  /\ views \in [Instances -> SUBSET {"explorer"}]
  /\ layout \in [Instances -> PageFiles \cup {"none"}]
  /\ touches \in 0..MaxTouches /\ had \in [Instances -> BOOLEAN]
  /\ spoiled \in BOOLEAN /\ interrupted \in BOOLEAN /\ overlapped \in BOOLEAN

\* config.json is empty only while the instance that created it has yet to
\* write it, or because one was kept from writing it.
EmptyIsUnfinished ==
  config = Empty =>
    interrupted \/ \E i \in Instances : pc[i] = "write" /\ stream[i]

\* A start throws over config.json only after the user has spoiled it, a
\* creation was interrupted or two instances loaded it at once: what the
\* program writes, it can read.
ThrowsExplained ==
  (\E i \in Instances : pc[i] = "threw") => spoiled \/ interrupted \/ overlapped

\* An instance that found config.json at its start neither empties nor writes
\* it, whatever other instances and the user's editor do meanwhile.
ExistingKept ==
  \A i \in Instances : had[i] => pc[i] \notin {"create", "write"}

\* Where the user has never touched the files, every instance that comes up
\* shows the explorer, whatever the others went through.
UntouchedShowsExplorer ==
  touches = 0 =>
    \A i \in Instances : pc[i] = "up" => views[i] = {"explorer"}
=============================================================================
