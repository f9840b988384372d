------------------------------- MODULE Logger --------------------------------
(***************************************************************************)
(* The logging facade of src/logger: the std logger (std.go), the Filter   *)
(* that wraps it (filter.go), the Helper (helper.go) and the process-wide  *)
(* logger behind the package-level functions (global.go).                  *)
(*                                                                         *)
(* The configuration is the one the repository's App uses: global starts   *)
(* as DefaultLogger, a std logger, and SetLogger installs a Filter over a  *)
(* std logger; a Helper is made over that Filter.  Keys, values and        *)
(* messages are words of a small set; fmt.Sprint of a message is the word  *)
(* itself.  A line the std logger writes is its level and its list of      *)
(* key-value pairs; "[%-5s]" and " [%s=%v]" formatting is left out.        *)
(*                                                                         *)
(* The Level type and its constants are declared outside this             *)
(* repository's sources; they are ordered integers, here 0 .. 4.          *)
(***************************************************************************)
EXTENDS Naturals, Sequences, SequencesExt

CONSTANTS
  Words,         \* keys, values and messages callers pass
  MsgKey,        \* DefaultMessageKey
  HelperKey,     \* the Helper's WithMessageKey
  FilterKeys,    \* FilterKey(...)
  FilterValues,  \* FilterValue(...)
  FilterLvl,     \* FilterLevel(...)
  DropWords,     \* FilterFunc: true when a key-value is one of these
  Fuzzy,         \* fuzzyStr, "***"
  Unpaired,      \* "KEY VALUE UNPAIRED"
  NoLine,        \* nothing written
  MaxKv          \* longest key-value list a caller passes

LevelDebug == 0
LevelInfo  == 1
LevelWarn  == 2
LevelError == 3
LevelFatal == 4
Levels == LevelDebug .. LevelFatal

ASSUME {MsgKey, HelperKey} \cup FilterKeys \cup FilterValues \cup DropWords
         \subseteq Words
ASSUME FilterLvl \in Levels /\ {Fuzzy, Unpaired} \cap Words = {}

Kvs == BoundedSeq(Words, MaxKv)

VARIABLES
  global,   \* the Logger inside global: "std" or "filter"
  written,  \* the line the last call made the std logger write, or NoLine
  call,     \* history: the last call, its level, key-values and logger
  exited    \* os.Exit(1) has run

vars == <<global, written, call, exited>>

-----------------------------------------------------------------------------
\* stdLogger.Log: nothing for no key-values; an odd list gets Unpaired
\* appended; then one line of the pairs.
Padded(kv) == IF Len(kv) % 2 = 1 THEN Append(kv, Unpaired) ELSE kv
Pairs(kv) == [i \in 1 .. Len(kv) \div 2 |-> <<kv[2 * i - 1], kv[2 * i]>>]
StdLog(level, kv) ==
  IF kv = <<>> THEN NoLine
  ELSE [level |-> level, pairs |-> Pairs(Padded(kv))]

\* NewFilter(std, FilterLevel(FilterLvl), FilterKey(...), FilterValue(...),
\* FilterFunc(...)): the options fill the struct's level and key sets.
NewFilter == [level |-> FilterLvl, key |-> FilterKeys, value |-> FilterValues]

\* NewHelper(filter, WithMessageKey(HelperKey)).
NewHelper == [logger |-> "filter", msgKey |-> HelperKey]

\* The FilterFunc the Filter is built with.
FilterFunc(level, kv) == \E i \in DOMAIN kv : kv[i] \in DropWords

\* Mutant: the key test made on the value, f.key[keyValue[v]].
MaskKeyAtValue(kv) ==
  [i \in DOMAIN kv |->
     IF i % 2 = 0 /\ (kv[i] \in NewFilter.key \/ kv[i] \in NewFilter.value)
       THEN Fuzzy ELSE kv[i]]

\* The loop over i = 0, 2, 4, ... (1-based: the value at even i follows its
\* key at i - 1): a value is replaced by fuzzyStr when its key is a filtered
\* key or it is itself a filtered value; a trailing key with no value is
\* skipped.  With no filtered keys and values the loop changes nothing, so
\* its guard needs no separate case.
Mask(kv) ==
  [i \in DOMAIN kv |->
     IF i % 2 = 0 /\ (kv[i - 1] \in NewFilter.key \/ kv[i] \in NewFilter.value)
       THEN Fuzzy ELSE kv[i]]

\* Filter.Log over the std logger: below the filter level nothing; the
\* wrapped logger is not a *logger, so prefixKv is empty; the FilterFunc on
\* the prefix or the key-values drops the log; otherwise the masked
\* key-values go to the std logger.
FilterLog(level, kv) ==
  IF level < NewFilter.level \/ FilterFunc(level, <<>>) \/ FilterFunc(level, kv)
    THEN NoLine
    ELSE StdLog(level, Mask(kv))

LogVia(lg, level, kv) ==
  IF lg = "filter" THEN FilterLog(level, kv) ELSE StdLog(level, kv)

\* A call that makes logger lg log kv at level, then exits if exit.
Emit(lg, level, kv, exit) ==
  /\ ~exited
  /\ written' = LogVia(lg, level, kv)
  /\ call' = [level |-> level, kv |-> kv, by |-> lg]
  /\ exited' = exit
  /\ UNCHANGED global

-----------------------------------------------------------------------------
\* var global; init() { global.SetLogger(DefaultLogger) }
Init ==
  /\ global = "std"
  /\ written = NoLine
  /\ call = [level |-> LevelDebug, kv |-> <<>>, by |-> "std"]
  /\ exited = FALSE

\* SetLogger(logger), as App's New calls it with the Filter.
SetLogger(lg) ==
  /\ ~exited
  /\ global' = lg
  /\ UNCHANGED <<written, call, exited>>

\* Debug(a...) .. Fatal(a...) and the f variants: the message under
\* DefaultMessageKey; the Fatal ones exit.
GlobalMsg(level, m) == Emit(global, level, <<MsgKey, m>>, level = LevelFatal)

\* Debugw(keyValue...) .. Fatalw(keyValue...).
GlobalKv(level, kv) == Emit(global, level, kv, level = LevelFatal)

\* Log(level, keyValue...): never exits.
GlobalLog(level, kv) == Emit(global, level, kv, FALSE)

\* The Helper's Debug .. Fatal and f variants, under h.msgKey.
HelperMsg(level, m) ==
  Emit(NewHelper.logger, level, <<NewHelper.msgKey, m>>, level = LevelFatal)

\* The Helper's w variants.
HelperKv(level, kv) == Emit(NewHelper.logger, level, kv, level = LevelFatal)

\* Helper.Log.
HelperLog(level, kv) == Emit(NewHelper.logger, level, kv, FALSE)

Next ==
  \/ \E lg \in {"std", "filter"} : SetLogger(lg)
  \/ \E level \in Levels, m \in Words :
       GlobalMsg(level, m) \/ HelperMsg(level, m)
  \/ \E level \in Levels, kv \in Kvs :
       GlobalKv(level, kv) \/ GlobalLog(level, kv)
       \/ HelperKv(level, kv) \/ HelperLog(level, kv)

Spec == Init /\ [][Next]_vars

-----------------------------------------------------------------------------
(* Properties.                                                             *)

\* Reference redaction of one pair: a real pair (not the padding of an odd
\* list) whose key is filtered, or whose value is, shows fuzzyStr.
Redact(p, real) ==
  IF real /\ (p[1] \in FilterKeys \/ p[2] \in FilterValues)
    THEN <<p[1], Fuzzy>> ELSE p

\* What a Filter-wrapped std logger should write for key-values kv at level.
Expected(level, kv) ==
  LET ps == Pairs(Padded(kv)) IN
  IF kv = <<>> \/ level < FilterLvl \/ FilterFunc(level, kv) THEN NoLine
  ELSE [level |-> level,
        pairs |-> [i \in 1 .. Len(ps) |-> Redact(ps[i], 2 * i <= Len(kv))]]

\* Every call that reaches the Filter (through the Helper, or through the
\* package functions after SetLogger) writes exactly the reference line:
\* nothing at or above the filter level is lost, nothing below it is
\* written, and the index arithmetic of Filter.Log's masking loop and of
\* stdLogger's pairing agree on which word is a key and which a value, for
\* odd lists and message forms too.
FilteredAsPairs == call.by = "filter" => written = Expected(call.level, call.kv)

=============================================================================
