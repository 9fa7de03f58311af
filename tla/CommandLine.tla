---------------------------- MODULE CommandLine ----------------------------
(***************************************************************************)
(* What the program makes of its command line: argh's parser::parse as     *)
(* InitCMD calls it, configure_parser, and the project path and the window *)
(* title that EngineInit takes from it.  An argument is an option (-n or   *)
(* --n), a setting (-n=v) or a word; a number is a word, also a negative   *)
(* one.  The program's own name, and the list of free words, which nobody  *)
(* reads, are left out.                                                    *)
(***************************************************************************)
EXTENDS Naturals, Sequences

CONSTANTS
  Names,       \* what is left of an option without its dashes
  Values,      \* words, and what follows an equals sign
  Existing,    \* those that name something in the file system
  NoValue,     \* no such key in params_
  MaxArgs      \* bound: the number of arguments

ASSUME CommandLineAssumption ==
  /\ {"p", "path"} \subseteq Names
  /\ "" \in Values \ Existing /\ NoValue \notin Values
  /\ MaxArgs \in Nat

Verbose == {"v", "verbose"}
Help == {"h", "help"}

Options  == [form : {"option"}, name : Names]
Settings == [form : {"setting"}, name : Names, value : Values]
Words    == [form : {"word"}, value : Values]
Tokens   == Options \cup Settings \cup Words

VARIABLES
  args,           \* args_
  asserts,        \* the build has assertions, as the default build type does
  pc, i,          \* how far the start is, and the loop over args_
  flags, params,  \* flags_ and params_
  debug,          \* the log level is set to debug
  project_path,   \* AppContext's field
  title           \* the window's title: "default", or that it is the project's

given  == <<args, asserts>>
parsed == <<flags, params>>
vars   == <<given, parsed, pc, i, debug, project_path, title>>

Init ==
  /\ \E n \in 0..MaxArgs : args \in [1..n -> Tokens]
  /\ asserts \in BOOLEAN
  /\ pc = "parse" /\ i = 1
  /\ flags = {} /\ params = [n \in Names |-> NoValue]
  /\ debug = FALSE /\ project_path = "" /\ title = "default"

-----------------------------------------------------------------------------
(* The loop of parse. *)

is_option(t) == t.form # "word"

\* Mutant: options take no value, as in the parser's other mode: the names
\* are registered after the parse.
HasValue_Registered(k) == FALSE

\* The next argument is the value of the option at k, registered or not.
HasValue(k) == k < Len(args) /\ ~is_option(args[k + 1])

\* is_option asserts that there is a first character; it is asked of every
\* argument, of a value before it is taken.
Rejected(k) ==
  /\ asserts
  /\ \/ args[k] = [form |-> "word", value |-> ""]
     \/ /\ args[k].form = "option" /\ k < Len(args)
        /\ args[k + 1] = [form |-> "word", value |-> ""]

\* Mutant: the last value wins.
Insert_Overwrites(n, v) == params' = [params EXCEPT ![n] = v]

\* std::map::insert keeps a value that is there.
Insert(n, v) ==
  params' = [params EXCEPT ![n] = IF @ = NoValue THEN v ELSE @]

Parse ==
  /\ pc = "parse"
  /\ i <= Len(args)
  /\ ~Rejected(i)
  /\ UNCHANGED <<given, pc, debug, project_path, title>>

TakeWord ==
  /\ Parse
  /\ args[i].form = "word"
  /\ i' = i + 1
  /\ UNCHANGED parsed

TakeSetting ==
  /\ Parse
  /\ args[i].form = "setting"
  /\ Insert(args[i].name, args[i].value)
  /\ i' = i + 1
  /\ UNCHANGED flags

\* Mutant: the argument after a flag is skipped too.
TakeFlag_Skips ==
  /\ Parse
  /\ args[i].form = "option" /\ ~HasValue(i)
  /\ flags' = flags \cup {args[i].name}
  /\ i' = i + 2
  /\ UNCHANGED params

TakeFlag ==
  /\ Parse
  /\ args[i].form = "option" /\ ~HasValue(i)
  /\ flags' = flags \cup {args[i].name}
  /\ i' = i + 1
  /\ UNCHANGED params

TakeParam ==
  /\ Parse
  /\ args[i].form = "option" /\ HasValue(i)
  /\ Insert(args[i].name, args[i + 1].value)
  /\ i' = i + 2
  /\ UNCHANGED flags

Abort ==
  /\ pc = "parse"
  /\ i <= Len(args)
  /\ Rejected(i)
  /\ pc' = "aborted"
  /\ UNCHANGED <<given, parsed, i, debug, project_path, title>>

Parsed ==
  /\ pc = "parse"
  /\ i > Len(args)
  /\ pc' = "configure"
  /\ UNCHANGED <<given, parsed, i, debug, project_path, title>>

-----------------------------------------------------------------------------
(* What is asked of the parser. *)

\* Mutant: parameters count as flags.
GetCMDFlag_Any(ns) ==
  \E n \in ns : n \in flags \cup {m \in Names : params[m] # NoValue}

GetCMDFlag(ns) == \E n \in ns : n \in flags

\* Mutant: the long name is looked for first.
GetCMDParam_Path(first, second) ==
  IF params[second] # NoValue THEN params[second] ELSE params[first]

\* The first match in the order of the map's keys, that of the names.
GetCMDParam(first, second) ==
  IF params[first] # NoValue THEN params[first] ELSE params[second]

\* configure_parser; for help it ends the process.
Configure ==
  /\ pc = "configure"
  /\ debug' = GetCMDFlag(Verbose)
  /\ pc' = IF GetCMDFlag(Help) THEN "helped" ELSE "context"
  /\ UNCHANGED <<given, parsed, i, project_path, title>>

GenerateAppContext ==
  /\ pc = "context"
  /\ LET p == GetCMDParam("p", "path") IN
       project_path' = IF p = NoValue THEN "" ELSE p
  /\ pc' = "title"
  /\ UNCHANGED <<given, parsed, i, debug, title>>

SetTitle ==
  /\ pc = "title"
  /\ title' = IF project_path \in Existing THEN "project" ELSE "default"
  /\ pc' = "up"
  /\ UNCHANGED <<given, parsed, i, debug, project_path>>

Next ==
  \/ TakeWord \/ TakeSetting \/ TakeFlag \/ TakeParam \/ Abort \/ Parsed
  \/ Configure \/ GenerateAppContext \/ SetTitle

Spec == Init /\ [][Next]_vars

-----------------------------------------------------------------------------
(* What a command line means, read from the arguments alone. *)

Positions == DOMAIN args

\* An option that is last or is followed by another is a flag.
Flag(j) ==
  /\ args[j].form = "option"
  /\ j + 1 \in Positions => args[j + 1].form # "word"

\* Argument j gives name n the value v.
Gives(j, n, v) ==
  \/ /\ args[j].form = "setting" /\ args[j].name = n
     /\ v = args[j].value
  \/ /\ args[j].form = "option" /\ args[j].name = n
     /\ j + 1 \in Positions /\ args[j + 1].form = "word"
     /\ v = args[j + 1].value

\* Of the arguments before k, the first that gives n a value gives it v.
FirstGives(k, n, v) ==
  \E j \in Positions :
    /\ j < k /\ Gives(j, n, v)
    /\ \A l \in Positions : l < j => \A w \in Values : ~Gives(l, n, w)

Unset(k, n) ==
  \A j \in Positions : j < k => \A w \in Values : ~Gives(j, n, w)

HasFlag(ns) == \E j \in Positions : Flag(j) /\ args[j].name \in ns

End == Len(args) + 1

-----------------------------------------------------------------------------
(* Properties. *)

\* Types; the loop ends at the end of the arguments, never behind it.
TypeOK ==
  /\ args \in Seq(Tokens) /\ Len(args) <= MaxArgs /\ asserts \in BOOLEAN
  /\ pc \in {"parse", "configure", "context", "title", "up", "aborted",
             "helped"}
  /\ i \in 1..End
  /\ flags \subseteq Names /\ params \in [Names -> Values \cup {NoValue}]
  /\ debug \in BOOLEAN /\ project_path \in Values
  /\ title \in {"default", "project"}

\* Wherever the loop is, the flags and parameters are what the arguments up
\* to there mean by themselves: none is taken twice, as a value and as a free
\* word, none is lost, and of two values for a name the first stays.
ParsedSoFar ==
  /\ flags = {args[j].name : j \in {k \in Positions : k < i /\ Flag(k)}}
  /\ \A n \in Names :
       IF params[n] = NoValue THEN Unset(i, n) ELSE FirstGives(i, n, params[n])

\* The project is the first value of p; only where there is none that of
\* path, wherever it stands; and the title says so if it exists.
PathStated ==
  pc \in {"title", "up"} =>
    /\ \/ FirstGives(End, "p", project_path)
       \/ Unset(End, "p") /\ FirstGives(End, "path", project_path)
       \/ Unset(End, "p") /\ Unset(End, "path") /\ project_path = ""
    /\ pc = "up" => (title = "project" <=> project_path \in Existing)

\* The log is verbose, and the start ends with the help text, exactly if an
\* argument asks for it that is last or followed by another option.
Heard ==
  pc \in {"helped", "context", "title", "up"} =>
    /\ debug <=> HasFlag(Verbose)
    /\ pc = "helped" <=> HasFlag(Help)

\* An empty argument, free or a value, stops a build that has assertions and
\* no other build, before anything is done.
EmptyAborts ==
  LET empty == \E j \in Positions : args[j] = [form |-> "word", value |-> ""] IN
  /\ pc = "aborted" => asserts /\ empty
  /\ pc \notin {"parse", "aborted"} => ~(asserts /\ empty)

\* The use that the help text describes: a path follows -p and --path, and
\* nothing else.
AsDocumented ==
  \A j \in Positions :
    /\ args[j] \notin Settings \cup {[form |-> "word", value |-> ""]}
    /\ args[j].form = "option" =>
         (args[j].name \in {"p", "path"} <=>
            j + 1 \in Positions /\ args[j + 1].form = "word")

\* Used as documented every -v and -h is heard, wherever it stands, and every
\* path that is given makes for a project.
DocumentedUse ==
  AsDocumented =>
    /\ pc \in {"context", "title", "up"} =>
         \A j \in Positions : args[j].form = "option" =>
           /\ args[j].name \in Verbose => debug
           /\ args[j].name \notin Help
    /\ pc \in {"title", "up"} =>
         (project_path # "" <=>
            \E j \in Positions : /\ args[j].form = "option"
                                 /\ args[j].name \in {"p", "path"})
=============================================================================
