----------------------------- MODULE LogConfig ------------------------------
(* The hierarchy of log levels of tasarch::config and the registry of        *)
(* loggers of tasarch::log.  One thread reloads the configuration (main, or  *)
(* the GUI thread in on_actionReloadConf) while others ask log::get for      *)
(* loggers (a connection is made on an io thread).  registry_mutex guards    *)
(* the registry; nothing guards the hierarchy, which from_toml rebuilds node *)
(* by node.  A read of it is atomic here, every write of it is a step.       *)
EXTENDS Integers, Sequences, SequencesExt

CONSTANTS Levels,      \* spdlog's levels
          info,        \* the level by default
          Parts,       \* what stands between the dots of a name
          LoggerNames, \* the names asked for, split at their dots
          Files,       \* what tasarch.toml may hold (see FilesAreTables)
          Threads      \* the threads that call log::get

config_logger == <<"config">>

\* In place of a name; no part of a name holds a dot.
no_name == <<".">>

(* A file maps the tables under [logging], the root one being <<>>, to what  *)
(* their `level` key holds: a level, "none" without the key, "bad" when it   *)
(* is not a level; a key that is not a table is a "scalar".  find_or         *)
(* replaces a `logging` that is none.  A file without syntax is `unparsable`.*)
unparsable == [t \in {} |-> "none"]

PrefixClosed(tables) == \A t \in tables : t # <<>> => Front(t) \in tables

FilesAreTables ==
    \A f \in Files \ {unparsable} :
        /\ DOMAIN f \subseteq Seq(Parts) /\ PrefixClosed(DOMAIN f)
        /\ <<>> \in DOMAIN f /\ f[<<>>] # "scalar"
        /\ \A t \in DOMAIN f : /\ f[t] \in Levels \cup {"none", "bad", "scalar"}
                               /\ t # <<>> => f[Front(t)] # "scalar"

ASSUME LogConfigAssumption ==
    /\ info \in Levels
    /\ Levels \cap {"none", "bad", "scalar"} = {}
    /\ FilesAreTables
    /\ "config" \in Parts /\ LoggerNames \subseteq Seq(Parts)
    /\ no_name \notin LoggerNames /\ "free" \notin Threads

VARIABLES
    levels,    \* config::logging.levels: its nodes, each with its level
    registry,  \* the loggers that exist, each with its level
    lock,      \* who holds registry_mutex: "free" or a thread
    asked,     \* what each thread is about to get, or no_name
    found,     \* the level it has read for the new logger, or "none"
    file,      \* what the latest reload has read
    loading,   \* the reload: "idle", "levels" or "apply"
    stack,     \* the calls of from_toml that have not returned
    outcome    \* what the latest reload has logged: "loaded" or "failed"

getVars    == <<asked, found>>
reloadVars == <<file, loading, stack, outcome>>
vars == <<levels, registry, lock, getVars, reloadVars>>

(* Walks down as long as there is a child with the next part of the name.    *)
get_level(name) ==
    LET depth == CHOOSE i \in 0..Len(name) :
                    /\ \A j \in 0..i : SubSeq(name, 1, j) \in DOMAIN levels
                    /\ \/ i = Len(name)
                       \/ SubSeq(name, 1, i + 1) \notin DOMAIN levels
    IN  levels[SubSeq(name, 1, depth)]

Init == /\ levels = [n \in {<<>>} |-> info]
        /\ registry = [n \in {<<>>} |-> info]
        /\ lock = "free"
        /\ asked = [t \in Threads |-> no_name]
        /\ found = [t \in Threads |-> "none"]
        /\ file = [t \in {<<>>} |-> "none"]
        /\ loading = "idle" /\ stack = <<>> /\ outcome = "loaded"

-----------------------------------------------------------------------------
(* log::get                                                                  *)

WithLogger(name, level) ==
    [n \in DOMAIN registry \cup {name} |-> IF n = name THEN level
                                           ELSE registry[n]]

GetLock(t, name) ==
    /\ asked[t] = no_name
    /\ lock = "free"
    /\ lock' = t
    /\ asked' = [asked EXCEPT ![t] = name]
    /\ UNCHANGED <<levels, registry, found, reloadVars>>

InGet(t) == lock = t /\ asked[t] # no_name

GetFound(t) ==
    /\ InGet(t) /\ found[t] = "none"
    /\ asked[t] \in DOMAIN registry
    /\ lock' = "free"
    /\ asked' = [asked EXCEPT ![t] = no_name]
    /\ UNCHANGED <<levels, registry, found, reloadVars>>

\* Mutant of GetLevel: the new logger is made outside the lock.
GetLevelUnlocks(t) ==
    /\ InGet(t) /\ found[t] = "none"
    /\ asked[t] \notin DOMAIN registry
    /\ found' = [found EXCEPT ![t] = get_level(asked[t])]
    /\ lock' = "free"
    /\ UNCHANGED <<levels, registry, asked, reloadVars>>

\* Mutant of GetLevel: it logs, and waits for the mutex it holds.
GetLevelReenters(t) ==
    /\ InGet(t) /\ found[t] = "none"
    /\ asked[t] \notin DOMAIN registry
    /\ UNCHANGED vars

GetLevel(t) ==
    /\ InGet(t) /\ found[t] = "none"
    /\ asked[t] \notin DOMAIN registry
    /\ found' = [found EXCEPT ![t] = get_level(asked[t])]
    /\ UNCHANGED <<levels, registry, lock, asked, reloadVars>>

GetRegister(t) ==
    /\ found[t] # "none"
    /\ registry' = WithLogger(asked[t], found[t])
    /\ lock' = "free"
    /\ asked' = [asked EXCEPT ![t] = no_name]
    /\ found' = [found EXCEPT ![t] = "none"]
    /\ UNCHANGED <<levels, reloadVars>>

get(t) == GetFound(t) \/ GetLevel(t) \/ GetRegister(t)

-----------------------------------------------------------------------------
(* config::reload                                                            *)

Frame(table) == [at |-> table, step |-> "level", rest |-> {}]

Top == stack[Len(stack)]

Fails == /\ loading' = "idle" /\ stack' = <<>> /\ outcome' = "failed"
         /\ UNCHANGED file

\* It gets its own logger first, and then parses the file.
reload(f) ==
    /\ loading = "idle" /\ lock = "free"
    /\ registry' = IF config_logger \in DOMAIN registry THEN registry
                   ELSE WithLogger(config_logger, get_level(config_logger))
    /\ IF f = unparsable THEN Fails
       ELSE /\ file' = f /\ loading' = "levels" /\ stack' = <<Frame(<<>>)>>
            /\ UNCHANGED outcome
    /\ UNCHANGED <<levels, lock, getVars>>

InTable(step) == loading = "levels" /\ Top.step = step

Continue(frame) == /\ stack' = [stack EXCEPT ![Len(stack)] = frame]
                   /\ UNCHANGED <<file, loading, outcome>>

\* from_str knows the name of no such level, or the value is no string.
NotALevel(table) == file[table] = "bad"

\* Mutant of SetLevel: a level is given to its logger as soon as it is read.
SetLevelApplies(node, level) ==
    /\ levels' = [levels EXCEPT ![node] = level]
    /\ registry' = [n \in DOMAIN registry |->
                       IF n = node THEN level ELSE registry[n]]

SetLevel(node, level) ==
    /\ levels' = [levels EXCEPT ![node] = level]
    /\ UNCHANGED registry

\* from_toml: the level of the table, info when it has none.
ReadLevel ==
    /\ InTable("level")
    /\ \/ /\ NotALevel(Top.at)
          /\ Fails
          /\ UNCHANGED <<levels, registry>>
       \/ /\ ~NotALevel(Top.at)
          /\ SetLevel(Top.at, IF file[Top.at] \in Levels THEN file[Top.at]
                              ELSE info)
          /\ Continue([Top EXCEPT !.step = "clear"])
    /\ UNCHANGED <<lock, getVars>>

Below(node) == {n \in DOMAIN levels : IsStrictPrefix(node, n)}

\* children.clear(), and then as_table() throws for what is no table.
ClearChildren ==
    /\ InTable("clear")
    /\ levels' = [n \in DOMAIN levels \ Below(Top.at) |-> levels[n]]
    /\ \/ file[Top.at] = "scalar" /\ Fails
       \/ /\ file[Top.at] # "scalar"
          /\ Continue([Top EXCEPT !.step = "children",
                           !.rest = {t \in DOMAIN file :
                                        t # <<>> /\ Front(t) = Top.at}])
    /\ UNCHANGED <<registry, lock, getVars>>

\* Mutant of LoadChild: the level of a new node is not initialized.
LoadChildUninitialized ==
    /\ InTable("children")
    /\ \E child \in Top.rest :
          /\ levels' = [n \in DOMAIN levels \cup {child} |->
                           IF n = child THEN "none" ELSE levels[n]]
          /\ stack' = Append([stack EXCEPT ![Len(stack)].rest = @ \ {child}],
                             Frame(child))
    /\ UNCHANGED <<registry, lock, getVars, file, loading, outcome>>

\* The next child, in the order of the table's hash map.
LoadChild ==
    /\ InTable("children")
    /\ \E child \in Top.rest :
          /\ levels' = [n \in DOMAIN levels \cup {child} |->
                           IF n = child THEN info ELSE levels[n]]
          /\ stack' = Append([stack EXCEPT ![Len(stack)].rest = @ \ {child}],
                             Frame(child))
    /\ UNCHANGED <<registry, lock, getVars, file, loading, outcome>>

TableDone ==
    /\ InTable("children") /\ Top.rest = {}
    /\ stack' = Front(stack)
    /\ loading' = IF Len(stack) = 1 THEN "apply" ELSE "levels"
    /\ UNCHANGED <<levels, registry, lock, getVars, file, outcome>>

\* Mutant of apply_all: its callback gets a logger, and waits for ever.
apply_all_reenters ==
    /\ loading = "apply" /\ lock = "free"
    /\ UNCHANGED vars

\* apply_all holds registry_mutex for the whole of its loop.
apply_all ==
    /\ loading = "apply" /\ lock = "free"
    /\ registry' = [n \in DOMAIN registry |-> get_level(n)]
    /\ loading' = "idle" /\ outcome' = "loaded"
    /\ UNCHANGED <<levels, lock, getVars, file, stack>>

Load == ReadLevel \/ ClearChildren \/ LoadChild \/ TableDone \/ apply_all

Next == \/ \E t \in Threads : get(t) \/ \E n \in LoggerNames : GetLock(t, n)
        \/ \E f \in Files : reload(f)
        \/ Load

Spec == Init /\ [][Next]_vars

(* Every thread that is inside get or reload runs on; none has to start.     *)
FairSpec == Spec /\ WF_vars(Load) /\ \A t \in Threads : WF_vars(get(t))

-----------------------------------------------------------------------------
(* The type invariant: in every state another thread can see, a half-loaded  *)
(* one too, the hierarchy is a tree, so that get_level never asks a node     *)
(* that is not there.                                                        *)
TypeOK ==
    /\ levels \in [DOMAIN levels -> Levels]
    /\ <<>> \in DOMAIN levels /\ PrefixClosed(DOMAIN levels)
    /\ registry \in [DOMAIN registry -> Levels]
    /\ DOMAIN registry \subseteq LoggerNames \cup {<<>>, config_logger}
    /\ lock \in Threads \cup {"free"}
    /\ \A t \in Threads : /\ asked[t] \in LoggerNames \cup {no_name}
                          /\ found[t] \in Levels \cup {"none"}
    /\ file \in Files \cup {[t \in {<<>>} |-> "none"]}
    /\ loading \in {"idle", "levels", "apply"}
    /\ loading = "levels" <=> stack # <<>>
    /\ \A i \in 1..Len(stack) : /\ stack[i].at \in DOMAIN levels
                                /\ stack[i].rest \subseteq DOMAIN file
    /\ outcome \in {"loaded", "failed"}

(* The level a file gives a logger: that of the deepest table on the way to  *)
(* its name, and info if that table states none.                             *)
FileLevel(f, name) ==
    LET deepest == CHOOSE t \in DOMAIN f :
                      /\ IsPrefix(t, name)
                      /\ \A u \in DOMAIN f : IsPrefix(u, name) => Len(u) <= Len(t)
    IN  IF f[deepest] \in Levels THEN f[deepest] ELSE info

(* After a reload that succeeded every logger has the level the file gives   *)
(* it: those that existed, and those that were made while the hierarchy was  *)
(* half loaded.                                                              *)
LoadedLevelsApply ==
    loading = "idle" /\ outcome = "loaded"
        => \A n \in DOMAIN registry : registry[n] = FileLevel(file, n)

(* A reload that fails, however far it got, leaves the default level to every*)
(* logger that has it, and so does each of its steps: nothing of a file that *)
(* is rejected further down reaches a logger that another thread holds       *)
(* already (config.h 172-179 and 207-218).  The loggers that an earlier file *)
(* has set are left out: the message of a failure says that the default is   *)
(* used (config.h 216), and the code keeps their levels.                     *)
FailureKeepsDefaults ==
    [][outcome' = "failed" \/ loading' = "levels"
          => \A n \in DOMAIN registry :
                registry[n] = info => registry'[n] = info]_vars

(* No path through get keeps registry_mutex.                                *)
MutexIsReleased == \A t \in Threads : lock = t ~> lock # t

(* A reload ends, loaded or failed, for every file; apply_all only waits for *)
(* a mutex, which the other threads leave alone at some time.                *)
ReloadEnds == <>[](\A t \in Threads : asked[t] = no_name)
                  => (loading # "idle" ~> loading = "idle")
=============================================================================
