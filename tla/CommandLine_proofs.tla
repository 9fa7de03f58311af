------------------------- MODULE CommandLine_proofs -------------------------
(***************************************************************************)
(* The invariants of CommandLine, for command lines of any length and any  *)
(* names and values.                                                       *)
(***************************************************************************)
EXTENDS CommandLine, SequenceTheorems, TLAPS

-----------------------------------------------------------------------------
(* The inductive invariant. *)

\* The loop never stands on a word that the option before it has taken.
Boundary ==
  pc = "parse" /\ i \in Positions /\ i > 1 /\ args[i].form = "word" =>
    args[i - 1].form # "option"

\* With assertions, nothing the loop has passed is empty.
NoneEmpty ==
  asserts => \A j \in Positions :
               j < i => args[j] # [form |-> "word", value |-> ""]

\* The parse is over at the end of the arguments.
Whole == pc \notin {"parse", "aborted"} => i = End

\* The inductive invariant: what the properties rest on.
IInv ==
  /\ TypeOK /\ Boundary /\ NoneEmpty /\ Whole /\ ParsedSoFar
  /\ PathStated /\ Heard /\ EmptyAborts

-----------------------------------------------------------------------------
(* What the arguments mean. *)

\* A token has the fields of its form.
LEMMA TokenTyped ==
  ASSUME NEW t \in Tokens
  PROVE  /\ t.form \in {"option", "setting", "word"}
         /\ t.form = "option" => t.name \in Names
         /\ t.form = "setting" => t.name \in Names /\ t.value \in Values
         /\ t.form = "word" => t.value \in Values
  BY DEF Tokens, Options, Settings, Words

\* The arguments as a function on their positions.
LEMMA ArgsTyped ==
  ASSUME TypeOK
  PROVE  /\ Len(args) \in Nat /\ Positions = 1..Len(args)
         /\ i \in Nat /\ 1 <= i /\ i <= Len(args) + 1
         /\ \A j \in Positions : args[j] \in Tokens
  BY LenProperties, ElementOfSeq DEF TypeOK, Positions, End

\* What is given is a value.
LEMMA GivesTyped ==
  ASSUME TypeOK, NEW j \in Positions, NEW n, NEW v, Gives(j, n, v)
  PROVE  v \in Values
  <1>1. args[j] \in Tokens /\ (j + 1 \in Positions => args[j + 1] \in Tokens)
    BY ArgsTyped
  <1> QED
    BY <1>1, TokenTyped DEF Gives

\* What was given first before one position was so before a later one.
LEMMA FirstStays ==
  ASSUME TypeOK, NEW k \in Nat, NEW m \in Nat, k <= m, NEW n, NEW v,
         FirstGives(k, n, v)
  PROVE  FirstGives(m, n, v)
  BY ArgsTyped DEF FirstGives

\* A name stays without a value over an argument that gives it none.
LEMMA UnsetStays ==
  ASSUME TypeOK, NEW k \in Nat, NEW n, Unset(k, n),
         \A w \in Values : ~Gives(k, n, w)
  PROVE  Unset(k + 1, n)
  BY ArgsTyped DEF Unset

\* The first argument that gives a name a value.
LEMMA FirstGiven ==
  ASSUME TypeOK, NEW k \in Positions, NEW n, NEW v, Unset(k, n), Gives(k, n, v)
  PROVE  FirstGives(k + 1, n, v)
  BY ArgsTyped DEF Unset, FirstGives

\* A value that is the first is the only one that is.
LEMMA FirstIsOne ==
  ASSUME TypeOK, NEW k \in Nat, NEW m \in Nat, NEW n, NEW v
  PROVE  ~(k <= m /\ FirstGives(k, n, v) /\ Unset(m, n))
  <1> SUFFICES ASSUME k <= m, FirstGives(k, n, v), Unset(m, n)
               PROVE  FALSE
    OBVIOUS
  <1>1. PICK j \in Positions : j < k /\ Gives(j, n, v)
    BY DEF FirstGives
  <1>2. v \in Values
    BY <1>1, GivesTyped
  <1> QED
    BY <1>1, <1>2, ArgsTyped DEF Unset

\* The names of the flags before a position.
FlagsBefore(k) == {args[j].name : j \in {l \in Positions : l < k /\ Flag(l)}}

\* The flags do not grow over an argument that is none, and by its name over
\* one that is.
LEMMA FlagsGrow ==
  ASSUME TypeOK, NEW k \in Positions
  PROVE  FlagsBefore(k + 1) =
           FlagsBefore(k) \cup (IF Flag(k) THEN {args[k].name} ELSE {})
  <1>1. \A l \in Positions : l < k + 1 <=> l < k \/ l = k
    BY ArgsTyped
  <1>2. {l \in Positions : l < k + 1 /\ Flag(l)} =
          {l \in Positions : l < k /\ Flag(l)} \cup (IF Flag(k) THEN {k} ELSE {})
    BY <1>1
  <1> QED
    BY <1>2 DEF FlagsBefore

-----------------------------------------------------------------------------
(* What the loop sees is what the arguments mean. *)

\* A word is no flag and gives nothing.
LEMMA WordMeans ==
  ASSUME TypeOK, NEW k \in Positions, args[k].form = "word"
  PROVE  ~Flag(k) /\ \A n, v : ~Gives(k, n, v)
  BY DEF Flag, Gives

\* A setting gives its own value.
LEMMA SettingMeans ==
  ASSUME TypeOK, NEW k \in Positions, args[k].form = "setting"
  PROVE  /\ ~Flag(k)
         /\ \A n, v : Gives(k, n, v) <=> n = args[k].name /\ v = args[k].value
  BY DEF Flag, Gives

\* An option without a value is a flag.
LEMMA FlagMeans ==
  ASSUME TypeOK, NEW k \in Positions, args[k].form = "option", ~HasValue(k)
  PROVE  Flag(k) /\ \A n, v : ~Gives(k, n, v)
  BY ArgsTyped DEF Flag, Gives, HasValue, is_option

\* An option with one gives it, and is no flag.
LEMMA ParamMeans ==
  ASSUME TypeOK, NEW k \in Positions, args[k].form = "option", HasValue(k)
  PROVE  /\ ~Flag(k) /\ k + 1 \in Positions /\ args[k + 1].form = "word"
         /\ \A n, v :
              Gives(k, n, v) <=> n = args[k].name /\ v = args[k + 1].value
  BY ArgsTyped DEF Flag, Gives, HasValue, is_option

-----------------------------------------------------------------------------
(* A step of the loop. *)

\* The values that p holds are those that the arguments before k give.
ParamsAt(k, p) ==
  \A n \in Names :
    IF p[n] = NoValue THEN Unset(k, n) ELSE FirstGives(k, n, p[n])

\* ParsedSoFar in these words, and after a step that keeps the arguments.
LEMMA ParsedBefore == ParsedSoFar <=> flags = FlagsBefore(i) /\ ParamsAt(i, params)
  BY DEF ParsedSoFar, FlagsBefore, ParamsAt

LEMMA ParsedAfter ==
  ASSUME args' = args, flags' = FlagsBefore(i'), ParamsAt(i', params')
  PROVE  ParsedSoFar'
  BY DEF ParsedSoFar, FlagsBefore, ParamsAt, Unset, FirstGives, Gives, Flag,
         Positions

\* Over an argument that gives nothing the parameters stay right.
LEMMA ParamsStay ==
  ASSUME TypeOK, NEW k \in Positions, NEW p, ParamsAt(k, p),
         \A n, v : ~Gives(k, n, v)
  PROVE  ParamsAt(k + 1, p)
  <1>1. k \in Nat /\ k + 1 \in Nat /\ k <= k + 1
    BY ArgsTyped
  <1> QED
    BY <1>1, UnsetStays, FirstStays DEF ParamsAt

\* Insert makes them right over one that gives something.
LEMMA InsertRight ==
  ASSUME TypeOK, ParamsAt(i, params), i \in Positions,
         NEW m \in Names, NEW v \in Values, Insert(m, v),
         \A n, w : Gives(i, n, w) <=> n = m /\ w = v
  PROVE  /\ params' \in [Names -> Values \cup {NoValue}]
         /\ ParamsAt(i + 1, params')
  <1>1. params' \in [Names -> Values \cup {NoValue}]
    BY DEF TypeOK, Insert
  <1>2. ASSUME NEW n \in Names
        PROVE  IF params'[n] = NoValue THEN Unset(i + 1, n)
               ELSE FirstGives(i + 1, n, params'[n])
    <2>1. CASE n # m
      <3>1. params'[n] = params[n]
        BY <2>1 DEF Insert, TypeOK
      <3> QED
        BY <2>1, <3>1, ArgsTyped, UnsetStays, FirstStays DEF ParamsAt
    <2>2. CASE n = m /\ params[n] = NoValue
      <3>1. params'[n] = v /\ v # NoValue
        BY <2>2, CommandLineAssumption DEF Insert, TypeOK
      <3>2. Unset(i, n) /\ Gives(i, n, v)
        BY <2>2 DEF ParamsAt
      <3> QED
        BY <3>1, <3>2, FirstGiven
    <2>3. CASE n = m /\ params[n] # NoValue
      <3>1. params'[n] = params[n]
        BY <2>3 DEF Insert, TypeOK
      <3>2. FirstGives(i, n, params[n])
        BY <2>3 DEF ParamsAt
      <3> QED
        BY <2>3, <3>1, <3>2, ArgsTyped, FirstStays
    <2> QED
      BY <2>1, <2>2, <2>3
  <1> QED
    BY <1>1, <1>2 DEF ParamsAt

\* What an iteration keeps: it stands behind what it has taken.
LEMMA LoopStep ==
  ASSUME IInv, Parse, TakeWord \/ TakeSetting \/ TakeFlag \/ TakeParam
  PROVE  IInv'
  <1> USE DEF IInv
  <1>1. i \in Positions /\ i \in Nat /\ args' = args /\ asserts' = asserts
        /\ pc = "parse" /\ pc' = "parse" /\ debug' = debug
        /\ project_path' = project_path /\ title' = title /\ ~Rejected(i)
    BY ArgsTyped DEF Parse, given, TypeOK
  <1>2. args[i] \in Tokens /\ flags = FlagsBefore(i) /\ ParamsAt(i, params)
    BY <1>1, ArgsTyped, ParsedBefore
  <1>3. /\ i' \in 1..End /\ flags' \subseteq Names
        /\ params' \in [Names -> Values \cup {NoValue}]
        /\ flags' = FlagsBefore(i') /\ ParamsAt(i', params')
        /\ \/ i' = i + 1
           \/ i' = i + 2 /\ HasValue(i) /\ args[i].form = "option"
        /\ i' = i + 1 /\ args[i].form = "option" => ~HasValue(i)
    <2>1. CASE TakeWord
      <3>1. ~Flag(i) /\ \A n, v : ~Gives(i, n, v)
        BY <1>1, <2>1, WordMeans DEF TakeWord
      <3>2. i' = i + 1 /\ flags' = flags /\ params' = params
            /\ args[i].form = "word"
        BY <2>1 DEF TakeWord, parsed
      <3>3. flags' = FlagsBefore(i') /\ ParamsAt(i', params')
        BY <1>1, <1>2, <3>1, <3>2, FlagsGrow, ParamsStay
      <3> QED
        BY <1>1, <3>2, <3>3, ArgsTyped DEF TypeOK, End
    <2>2. CASE TakeSetting
      <3>1. args[i].form = "setting" /\ i' = i + 1 /\ flags' = flags
            /\ Insert(args[i].name, args[i].value)
        BY <2>2 DEF TakeSetting
      <3>2. args[i].name \in Names /\ args[i].value \in Values
        BY <1>2, <3>1, TokenTyped
      <3>3. ~Flag(i)
            /\ \A n, w : Gives(i, n, w) <=> n = args[i].name /\ w = args[i].value
        BY <1>1, <3>1, SettingMeans
      <3>4. params' \in [Names -> Values \cup {NoValue}]
            /\ ParamsAt(i + 1, params')
        BY <1>1, <1>2, <3>1, <3>2, <3>3, InsertRight
      <3>5. FlagsBefore(i + 1) = FlagsBefore(i)
        BY <1>1, <3>3, FlagsGrow
      <3> QED
        BY <1>1, <1>2, <3>1, <3>4, <3>5, ArgsTyped DEF TypeOK, End
    <2>3. CASE TakeFlag
      <3>1. args[i].form = "option" /\ ~HasValue(i) /\ i' = i + 1
            /\ flags' = flags \cup {args[i].name} /\ params' = params
        BY <2>3 DEF TakeFlag
      <3>2. Flag(i) /\ \A n, v : ~Gives(i, n, v)
        BY <1>1, <3>1, FlagMeans
      <3>3. flags' = FlagsBefore(i + 1)
        BY <1>1, <1>2, <3>1, <3>2, FlagsGrow
      <3>4. ParamsAt(i + 1, params')
        BY <1>1, <1>2, <3>1, <3>2, ParamsStay
      <3>5. args[i].name \in Names
        BY <1>2, <3>1, TokenTyped
      <3> QED
        BY <1>1, <3>1, <3>3, <3>4, <3>5, ArgsTyped DEF TypeOK, End
    <2>4. CASE TakeParam
      <3>1. args[i].form = "option" /\ HasValue(i) /\ i' = i + 2
            /\ flags' = flags /\ Insert(args[i].name, args[i + 1].value)
        BY <2>4 DEF TakeParam
      <3>2. /\ ~Flag(i) /\ i + 1 \in Positions /\ args[i + 1].form = "word"
            /\ \A n, w :
                 Gives(i, n, w) <=> n = args[i].name /\ w = args[i + 1].value
        BY <1>1, <3>1, ParamMeans
      <3>3. args[i].name \in Names /\ args[i + 1].value \in Values
        BY <1>2, <3>1, <3>2, ArgsTyped, TokenTyped
      <3>4. params' \in [Names -> Values \cup {NoValue}]
            /\ ParamsAt(i + 1, params')
        BY <1>1, <1>2, <3>1, <3>2, <3>3, InsertRight
      <3>5. ~Flag(i + 1) /\ \A n, v : ~Gives(i + 1, n, v)
        BY <3>2, WordMeans
      <3>6. (i + 1) + 1 = i + 2
        BY <1>1
      <3>7. ParamsAt(i + 2, params')
        BY <3>2, <3>4, <3>5, <3>6, ParamsStay
      <3>8. FlagsBefore(i + 2) = FlagsBefore(i)
        <4>1. FlagsBefore(i + 1) = FlagsBefore(i)
          BY <1>1, <3>2, FlagsGrow
        <4>2. FlagsBefore((i + 1) + 1) = FlagsBefore(i + 1)
          BY <3>2, <3>5, FlagsGrow
        <4> QED
          BY <4>1, <4>2, <3>6
      <3> QED
        BY <1>1, <1>2, <3>1, <3>2, <3>4, <3>7, <3>8, ArgsTyped DEF TypeOK, End
    <2> QED
      BY <2>1, <2>2, <2>3, <2>4
  <1>4. TypeOK'
    BY <1>1, <1>3 DEF TypeOK, End
  <1>5. ParsedSoFar'
    BY <1>1, <1>3, ParsedAfter
  <1>6. Boundary'
    <2> SUFFICES ASSUME i' \in Positions, args[i'].form = "word"
                 PROVE  args[i' - 1].form # "option"
      BY <1>1 DEF Boundary, Positions
    <2>1. CASE i' = i + 1
      BY <1>1, <1>3, <2>1, ArgsTyped DEF HasValue, is_option
    <2>2. CASE i' = i + 2 /\ HasValue(i)
      <3>1. args[i + 1].form = "word"
        BY <2>2, <1>1, <1>3, ParamMeans
      <3> QED
        BY <1>1, <2>2, <3>1
    <2> QED
      BY <1>3, <2>1, <2>2
  <1>7. NoneEmpty'
    <2> SUFFICES ASSUME asserts, NEW j \in Positions, j < i'
                 PROVE  args[j] # [form |-> "word", value |-> ""]
      BY <1>1 DEF NoneEmpty, Positions
    <2>1. j < i \/ j = i \/ (j = i + 1 /\ i' = i + 2)
      BY <1>1, <1>3, ArgsTyped
    <2>2. CASE j < i
      BY <2>2 DEF NoneEmpty
    <2>3. CASE j = i
      BY <1>1, <2>3 DEF Rejected
    <2>4. CASE j = i + 1 /\ i' = i + 2
      <3>1. args[i].form = "option" /\ i < Len(args)
        BY <1>1, <1>3, <2>4, ArgsTyped
      <3> QED
        BY <1>1, <2>4, <3>1 DEF Rejected
    <2> QED
      BY <2>1, <2>2, <2>3, <2>4
  <1>8. Whole' /\ PathStated' /\ Heard' /\ EmptyAborts'
    BY <1>1 DEF Whole, PathStated, Heard, EmptyAborts
  <1> QED
    BY <1>4, <1>5, <1>6, <1>7, <1>8

-----------------------------------------------------------------------------
(* Before and after the loop. *)

LEMMA InitInv == Init => IInv
  <1> SUFFICES ASSUME Init PROVE IInv
    OBVIOUS
  <1>1. PICK n \in 0..MaxArgs : args \in [1..n -> Tokens]
    BY DEF Init
  <1>2. n \in Nat /\ n <= MaxArgs
    <2>1. MaxArgs \in Nat
      BY CommandLineAssumption
    <2>2. n \in 0..MaxArgs
      BY <1>1
    <2> QED
      BY <2>1, <2>2
  <1>3. args \in Seq(Tokens)
    BY <1>1, <1>2, SeqDef
  <1>4. Len(args) = n
    BY <1>1, <1>2, <1>3, LenProperties
  <1>5. TypeOK
    <2>1. "" \in Values
      BY CommandLineAssumption
    <2>2. i = 1
      BY DEF Init
    <2>3. i \in 1..End
      BY <1>2, <1>4, <2>2 DEF End
    <2>4. params \in [Names -> Values \cup {NoValue}]
      BY DEF Init
    <2> QED
      BY <1>2, <1>3, <1>4, <2>1, <2>3, <2>4 DEF Init, TypeOK
  <1>6. i = 1 /\ pc = "parse" /\ flags = {}
        /\ \A m \in Names : params[m] = NoValue
    BY DEF Init
  <1>7. \A j \in Positions : ~(j < i)
    BY <1>5, <1>6, ArgsTyped
  <1>8. ParsedSoFar
    BY <1>6, <1>7 DEF ParsedSoFar, Unset
  <1>9. Boundary /\ NoneEmpty /\ Whole /\ PathStated /\ Heard /\ EmptyAborts
    BY <1>6, <1>7 DEF Boundary, NoneEmpty, Whole, PathStated, Heard, EmptyAborts
  <1> QED
    BY <1>5, <1>8, <1>9 DEF IInv

\* At the end of the arguments a flag is asked for as it is meant.
LEMMA FlagsHeard ==
  ASSUME TypeOK, ParsedSoFar, i = End, NEW ns
  PROVE  GetCMDFlag(ns) <=> HasFlag(ns)
  <1>1. \A j \in Positions : j < i
    BY ArgsTyped DEF End
  <1>2. flags = {args[j].name : j \in {k \in Positions : Flag(k)}}
    BY <1>1 DEF ParsedSoFar
  <1> QED
    BY <1>2 DEF GetCMDFlag, HasFlag

\* And so are the paths.
LEMMA PathMeant ==
  ASSUME TypeOK, ParsedSoFar, i = End, NEW q,
         q = (IF GetCMDParam("p", "path") = NoValue THEN ""
              ELSE GetCMDParam("p", "path"))
  PROVE  /\ q \in Values
         /\ \/ FirstGives(End, "p", q)
            \/ Unset(End, "p") /\ FirstGives(End, "path", q)
            \/ Unset(End, "p") /\ Unset(End, "path") /\ q = ""
  BY CommandLineAssumption DEF TypeOK, ParsedSoFar, GetCMDParam

\* The loop ends, or is aborted.
LEMMA LoopEnds ==
  ASSUME IInv, Abort \/ Parsed
  PROVE  IInv'
  <1> USE DEF IInv
  <1>1. UNCHANGED <<args, asserts, flags, params, i, debug, project_path, title>>
        /\ pc = "parse" /\ pc' \in {"aborted", "configure"}
    BY DEF Abort, Parsed, given, parsed
  <1>2. TypeOK'
    BY <1>1 DEF TypeOK, End
  <1>3. ParsedSoFar'
    BY <1>1, ParsedBefore, ParsedAfter
  <1>4. Boundary' /\ NoneEmpty'
    BY <1>1 DEF Boundary, NoneEmpty, Positions
  <1>5. Whole'
    BY <1>1, ArgsTyped DEF Whole, End, Abort, Parsed
  <1>6. PathStated' /\ Heard'
    BY <1>1 DEF PathStated, Heard
  <1>7. EmptyAborts'
    <2>1. CASE Abort
      <3>1. asserts /\ i \in Positions
            /\ \/ args[i] = [form |-> "word", value |-> ""]
               \/ /\ i + 1 \in Positions
                  /\ args[i + 1] = [form |-> "word", value |-> ""]
        <4>1. asserts /\ i <= Len(args)
              /\ \/ args[i] = [form |-> "word", value |-> ""]
                 \/ /\ i < Len(args)
                    /\ args[i + 1] = [form |-> "word", value |-> ""]
          BY <2>1 DEF Abort, Rejected
        <4>2. i <= Len(args)
          BY <4>1
        <4>3. i \in Positions /\ (i < Len(args) => i + 1 \in Positions)
          BY <4>2, ArgsTyped
        <4> QED
          BY <4>1, <4>3
      <3> QED
        BY <1>1, <2>1, <3>1 DEF EmptyAborts, Abort, Positions
    <2>2. CASE Parsed
      <3>1. \A j \in Positions : j < i
        BY <2>2, ArgsTyped DEF Parsed
      <3> QED
        BY <1>1, <2>2, <3>1 DEF EmptyAborts, Parsed, NoneEmpty, Positions
    <2> QED
      BY <2>1, <2>2
  <1> QED
    BY <1>2, <1>3, <1>4, <1>5, <1>6, <1>7

\* What follows the parse leaves what it has found.
LEMMA Afterwards ==
  ASSUME IInv, Configure \/ GenerateAppContext \/ SetTitle
  PROVE  IInv'
  <1> USE DEF IInv
  <1>1. UNCHANGED <<args, asserts, flags, params, i>>
        /\ pc \notin {"parse", "aborted"} /\ pc' \notin {"parse", "aborted"}
    BY DEF Configure, GenerateAppContext, SetTitle, given, parsed
  <1>2. i = End
    BY <1>1 DEF Whole
  <1>3. ParsedSoFar'
    BY <1>1, ParsedBefore, ParsedAfter
  <1>4. Boundary' /\ NoneEmpty' /\ Whole' /\ EmptyAborts'
    BY <1>1 DEF Boundary, NoneEmpty, Whole, EmptyAborts, Positions, End
  <1>5. HasFlag(Verbose)' = HasFlag(Verbose) /\ HasFlag(Help)' = HasFlag(Help)
    BY <1>1 DEF HasFlag, Flag, Positions
  <1>6. CASE Configure
    <2>1. TypeOK'
      BY <1>1, <1>6 DEF Configure, TypeOK, End, GetCMDFlag
    <2>2. /\ debug' = HasFlag(Verbose)
          /\ pc' = IF HasFlag(Help) THEN "helped" ELSE "context"
      BY <1>2, <1>6, FlagsHeard DEF Configure, GetCMDFlag, HasFlag
    <2>3. PathStated' /\ Heard'
      BY <1>5, <2>2 DEF PathStated, Heard
    <2> QED
      BY <1>3, <1>4, <2>1, <2>3
  <1>7. CASE GenerateAppContext
    <2>1. /\ project_path' \in Values
          /\ \/ FirstGives(End, "p", project_path')
             \/ Unset(End, "p") /\ FirstGives(End, "path", project_path')
             \/ Unset(End, "p") /\ Unset(End, "path") /\ project_path' = ""
      BY <1>2, <1>7, PathMeant DEF GenerateAppContext
    <2>2. pc = "context" /\ pc' = "title" /\ UNCHANGED <<debug, title>>
      BY <1>7 DEF GenerateAppContext
    <2>3. TypeOK'
      BY <1>1, <2>1, <2>2 DEF TypeOK, End
    <2>4. PathStated'
      <3>1. /\ FirstGives(End, "p", project_path)' <=>
                 FirstGives(End, "p", project_path')
            /\ FirstGives(End, "path", project_path)' <=>
                 FirstGives(End, "path", project_path')
            /\ Unset(End, "p")' <=> Unset(End, "p")
            /\ Unset(End, "path")' <=> Unset(End, "path")
        BY <1>1 DEF FirstGives, Unset, Gives, Positions, End
      <3> QED
        BY <2>1, <2>2, <3>1 DEF PathStated
    <2>5. Heard'
      BY <1>5, <2>2 DEF Heard
    <2> QED
      BY <1>3, <1>4, <2>3, <2>4, <2>5
  <1>8. CASE SetTitle
    <2>1. /\ title' = IF project_path \in Existing THEN "project" ELSE "default"
          /\ pc = "title" /\ pc' = "up" /\ UNCHANGED <<debug, project_path>>
      BY <1>8 DEF SetTitle
    <2>2. TypeOK'
      BY <1>1, <2>1 DEF TypeOK, End
    <2>3. PathStated'
      <3>1. /\ FirstGives(End, "p", project_path)' <=>
                 FirstGives(End, "p", project_path)
            /\ FirstGives(End, "path", project_path)' <=>
                 FirstGives(End, "path", project_path)
            /\ Unset(End, "p")' <=> Unset(End, "p")
            /\ Unset(End, "path")' <=> Unset(End, "path")
        BY <1>1, <2>1 DEF FirstGives, Unset, Gives, Positions, End
      <3> QED
        BY <2>1, <3>1 DEF PathStated
    <2>4. Heard'
      BY <1>5, <2>1 DEF Heard
    <2> QED
      BY <1>3, <1>4, <2>2, <2>3, <2>4
  <1> QED
    BY <1>6, <1>7, <1>8

LEMMA NextInv == IInv /\ [Next]_vars => IInv'
  <1>1. ASSUME IInv, UNCHANGED vars
        PROVE  IInv'
    <2>1. UNCHANGED <<args, asserts, flags, params, pc, i, debug, project_path,
                      title>>
      BY <1>1 DEF vars, given, parsed
    <2>2. TypeOK' /\ Boundary' /\ NoneEmpty' /\ Whole' /\ EmptyAborts'
      BY <1>1, <2>1 DEF IInv, TypeOK, Boundary, NoneEmpty, Whole, EmptyAborts,
         Positions, End
    <2>3. ParsedSoFar'
      BY <1>1, <2>1, ParsedBefore, ParsedAfter DEF IInv
    <2>4. PathStated'
      <3>1. /\ FirstGives(End, "p", project_path)' <=>
                 FirstGives(End, "p", project_path)
            /\ FirstGives(End, "path", project_path)' <=>
                 FirstGives(End, "path", project_path)
            /\ Unset(End, "p")' <=> Unset(End, "p")
            /\ Unset(End, "path")' <=> Unset(End, "path")
        BY <2>1 DEF FirstGives, Unset, Gives, Positions, End
      <3> QED
        BY <1>1, <2>1, <3>1 DEF IInv, PathStated
    <2>5. Heard'
      BY <1>1, <2>1 DEF IInv, Heard, HasFlag, Flag, Positions
    <2> QED
      BY <2>2, <2>3, <2>4, <2>5 DEF IInv
  <1>2. ASSUME Next
        PROVE  \/ Parse /\ (TakeWord \/ TakeSetting \/ TakeFlag \/ TakeParam)
               \/ Abort \/ Parsed
               \/ Configure \/ GenerateAppContext \/ SetTitle
    BY <1>2 DEF Next, TakeWord, TakeSetting, TakeFlag, TakeParam
  <1> QED
    BY <1>1, <1>2, LoopStep, LoopEnds, Afterwards

-----------------------------------------------------------------------------
(* The theorems. *)

\* The inductive invariant holds of every command line.
THEOREM Invariant == Spec => []IInv
  BY InitInv, NextInv, PTL DEF Spec

\* Types, and that the loop over the arguments ends where they do.
THEOREM TypeCorrect == Spec => []TypeOK
  BY Invariant, PTL DEF IInv

\* InitCMD: the parse takes every argument for what it means by itself.
THEOREM ParseRight == Spec => []ParsedSoFar
  BY Invariant, PTL DEF IInv

\* GenerateAppContext: which path is the project's.
THEOREM PathRight == Spec => []PathStated
  BY Invariant, PTL DEF IInv

\* configure_parser: which arguments make the log verbose or ask for help.
THEOREM FlagsRight == Spec => []Heard
  BY Invariant, PTL DEF IInv

\* An empty argument stops the builds with assertions, and nothing else does.
THEOREM EmptyStops == Spec => []EmptyAborts
  BY Invariant, PTL DEF IInv

\* In the documented use every option is heard and every path taken.
THEOREM DocumentedWorks == Spec => []DocumentedUse
  <1>1. ASSUME IInv, AsDocumented
        PROVE  DocumentedUse
    <2> USE <1>1 DEF IInv
    <2>1. ASSUME NEW j \in Positions, args[j].form = "option",
                 args[j].name \notin {"p", "path"}
          PROVE  Flag(j)
      BY <2>1 DEF AsDocumented, Flag
    <2>2. ASSUME pc \in {"context", "title", "up"}, NEW j \in Positions,
                 args[j].form = "option"
          PROVE  (args[j].name \in Verbose => debug) /\ args[j].name \notin Help
      BY <2>1, <2>2 DEF Heard, HasFlag, Verbose, Help
    <2>3. ASSUME NEW l \in Positions, NEW n \in {"p", "path"}, NEW v,
                 Gives(l, n, v)
          PROVE  args[l].form = "option" /\ args[l].name = n /\ v # ""
      <3>1. args[l] \in Tokens /\ args[l] \notin Settings
        BY <2>3, ArgsTyped DEF AsDocumented
      <3>2. args[l].form # "setting"
        BY <3>1 DEF Tokens, Options, Words
      <3>3. /\ args[l].form = "option" /\ args[l].name = n /\ l + 1 \in Positions
            /\ args[l + 1].form = "word" /\ v = args[l + 1].value
        BY <2>3, <3>2 DEF Gives
      <3>4. /\ args[l + 1] \in Tokens
            /\ args[l + 1] # [form |-> "word", value |-> ""]
        BY <3>3, ArgsTyped DEF AsDocumented
      <3>5. args[l + 1] \in Words
        BY <3>3, <3>4 DEF Tokens, Options, Settings
      <3> QED
        BY <3>3, <3>4, <3>5 DEF Words
    <2>4. ASSUME NEW j \in Positions, args[j].form = "option",
                 args[j].name \in {"p", "path"}, Unset(End, args[j].name)
          PROVE  FALSE
      <3>1. j + 1 \in Positions /\ args[j + 1].form = "word"
        BY <2>4 DEF AsDocumented
      <3>2. j < End
        BY ArgsTyped DEF End
      <3>3. Gives(j, args[j].name, args[j + 1].value)
        BY <2>4, <3>1 DEF Gives
      <3> QED
        BY <2>4, <3>2, <3>3, GivesTyped DEF Unset
    <2>5. ASSUME pc \in {"title", "up"}
          PROVE  project_path # "" <=>
                   \E j \in Positions : /\ args[j].form = "option"
                                        /\ args[j].name \in {"p", "path"}
      <3>1. CASE \E n \in {"p", "path"} : FirstGives(End, n, project_path)
        BY <2>3, <3>1 DEF FirstGives
      <3>2. CASE Unset(End, "p") /\ Unset(End, "path") /\ project_path = ""
        BY <2>4, <3>2
      <3> QED
        BY <2>5, <3>1, <3>2 DEF PathStated
    <2> QED
      BY <2>2, <2>5 DEF DocumentedUse
  <1>2. IInv => DocumentedUse
    BY <1>1 DEF DocumentedUse
  <1> QED
    BY <1>2, Invariant, PTL
=============================================================================
