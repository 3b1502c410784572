--------------------------- MODULE Config_proofs ----------------------------
(* What the configuration guarantees, for any files: what registry_mutex     *)
(* gives and what a load comes to, for any loggers and threads; and what the *)
(* merge of any number of files is.                                          *)
EXTENDS LogConfig, Merging, Framing_proofs

\* A thread that has read the level of a new logger holds the mutex, and no
\* other thread has registered a logger of that name since it looked.
MakerHoldsLock ==
    /\ DOMAIN found = Threads
    /\ \A t \in Threads :
          found[t] # "none" => lock = t /\ asked[t] \notin DOMAIN registry

LEMMA InitMaker == Init => MakerHoldsLock
BY DEF Init, MakerHoldsLock

\* Who finds the mutex free, or holds it without a level, is alone in get.
LEMMA Alone ==
    ASSUME MakerHoldsLock,
           lock = "free" \/ \E t \in Threads : lock = t /\ found[t] = "none"
    PROVE  \A t \in Threads : found[t] = "none"
BY LogConfigAssumption DEF MakerHoldsLock

LEMMA GetMaker ==
    ASSUME MakerHoldsLock, NEW t \in Threads, get(t)
    PROVE  MakerHoldsLock'
<1>1. CASE GetFound(t)
  <2>1. \A u \in Threads : found[u] = "none"
    BY <1>1, Alone DEF GetFound, InGet
  <2> QED BY <1>1, <2>1 DEF GetFound, MakerHoldsLock
<1>2. CASE GetLevel(t)
  <2>1. \A u \in Threads : found[u] = "none"
    BY <1>2, Alone DEF GetLevel, InGet
  <2>2. \A u \in Threads : found'[u] # "none" => u = t
    BY <1>2, <2>1 DEF GetLevel, MakerHoldsLock
  <2> QED BY <1>2, <2>2 DEF GetLevel, InGet, MakerHoldsLock
<1>3. CASE GetRegister(t)
  <2>1. \A u \in Threads : found'[u] = "none"
    BY <1>3 DEF GetRegister, MakerHoldsLock
  <2> QED BY <1>3, <2>1 DEF GetRegister, MakerHoldsLock
<1> QED BY <1>1, <1>2, <1>3 DEF get

LEMMA LockMaker ==
    ASSUME MakerHoldsLock, NEW t \in Threads, NEW n, GetLock(t, n)
    PROVE  MakerHoldsLock'
<1>1. \A u \in Threads : found[u] = "none"
  BY Alone DEF GetLock
<1> QED BY <1>1 DEF GetLock, MakerHoldsLock

LEMMA ReloadMaker ==
    ASSUME MakerHoldsLock, (\E f \in Files : reload(f)) \/ Load
    PROVE  MakerHoldsLock'
<1>1. UNCHANGED <<found, asked, lock>>
  BY DEF reload, Load, ReadLevel, SetLevel, ClearChildren, LoadChild, TableDone,
         apply_all, getVars
<1>2. CASE UNCHANGED registry
  BY <1>1, <1>2 DEF MakerHoldsLock
<1>3. CASE lock = "free"
  <2>1. \A u \in Threads : found[u] = "none"
    BY <1>3, Alone
  <2> QED BY <1>1, <2>1 DEF MakerHoldsLock
<1> QED BY <1>2, <1>3 DEF reload, Load, ReadLevel, SetLevel, ClearChildren,
                          LoadChild, TableDone, apply_all

LEMMA StepMaker == MakerHoldsLock /\ [Next]_vars => MakerHoldsLock'
<1> SUFFICES ASSUME MakerHoldsLock, [Next]_vars PROVE MakerHoldsLock'
  OBVIOUS
<1>1. CASE UNCHANGED vars
  BY <1>1 DEF vars, getVars, MakerHoldsLock
<1> QED BY <1>1, GetMaker, LockMaker, ReloadMaker DEF Next

-----------------------------------------------------------------------------

\* A logger that is there already is only given a level by apply_all.
LEMMA StepSpares ==
    ASSUME MakerHoldsLock, [Next]_vars,
           outcome' = "failed" \/ loading' = "levels"
    PROVE  \A n \in DOMAIN registry : registry'[n] = registry[n]
<1>1. ASSUME NEW t \in Threads, get(t) \/ \E n \in LoggerNames : GetLock(t, n)
      PROVE  \A n \in DOMAIN registry : registry'[n] = registry[n]
  <2>1. CASE GetRegister(t)
    BY <2>1 DEF GetRegister, WithLogger, MakerHoldsLock
  <2> QED BY <1>1, <2>1 DEF get, GetFound, GetLevel, GetLock
<1>2. ASSUME NEW f \in Files, reload(f)
      PROVE  \A n \in DOMAIN registry : registry'[n] = registry[n]
  BY <1>2 DEF reload, WithLogger
<1>3. CASE Load
  BY <1>3 DEF Load, ReadLevel, SetLevel, ClearChildren, LoadChild, TableDone,
              apply_all
<1>4. CASE UNCHANGED vars
  BY <1>4 DEF vars
<1> QED BY <1>1, <1>2, <1>3, <1>4 DEF Next

(* For any files, loggers and threads: a reload that fails leaves the        *)
(* default level to every logger that has it, and so does every step of      *)
(* another thread while one is under way; no thread makes a second logger,   *)
(* with a level of half a file, in place of the first (config.h 96-114 and   *)
(* 207-218, logging.cpp 55-69).                                              *)
THEOREM FailedReloadKeepsDefaults == Spec => FailureKeepsDefaults
<1>1. MakerHoldsLock /\ [Next]_vars
        => [outcome' = "failed" \/ loading' = "levels"
              => \A n \in DOMAIN registry :
                    registry[n] = info => registry'[n] = info]_vars
  BY StepSpares
<1> QED BY <1>1, InitMaker, StepMaker, PTL DEF Spec, FailureKeepsDefaults

-----------------------------------------------------------------------------
(* Names as sequences, and what induction they need                          *)

Path == Seq(Parts)

\* Induction from each number to the next.
LEMMA NatInduct ==
    ASSUME NEW S, 0 \in S, \A n \in Nat : n \in S => n + 1 \in S
    PROVE  Nat \subseteq S
<1>1. ASSUME NEW n \in Nat, \A m \in Nat : m < n => m \in S
      PROVE  n \in S
  <2>1. CASE n # 0
    <3>1. n - 1 \in Nat /\ n - 1 < n /\ n = n - 1 + 1
      BY <2>1
    <3> QED BY <1>1, <3>1
  <2> QED BY <2>1
<1> QED BY <1>1, StrongInduct

LEMMA SubSeqFacts ==
    ASSUME NEW S, NEW s \in Seq(S), NEW i \in 0..Len(s)
    PROVE  /\ SubSeq(s, 1, i) \in Seq(S) /\ Len(SubSeq(s, 1, i)) = i
           /\ \A j \in 1..i : SubSeq(s, 1, i)[j] = s[j]
OBVIOUS

LEMMA SameItems ==
    ASSUME NEW S, NEW s \in Seq(S), NEW t \in Seq(S), Len(s) = Len(t),
           \A i \in 1..Len(s) : s[i] = t[i]
    PROVE  s = t
OBVIOUS

LEMMA FrontFacts ==
    ASSUME NEW S, NEW s \in Seq(S), s # <<>>
    PROVE  /\ Front(s) \in Seq(S) /\ Len(Front(s)) = Len(s) - 1
           /\ Len(s) \in Nat \ {0}
           /\ \A j \in 1..Len(s) - 1 : Front(s)[j] = s[j]
<1>1. Len(s) \in Nat \ {0} /\ Len(s) - 1 \in 0..Len(s)
  OBVIOUS
<1> QED BY <1>1, SubSeqFacts DEF Front

LEMMA PrefixFacts ==
    ASSUME NEW s \in Path, NEW t \in Path
    PROVE  IsPrefix(s, t) <=> /\ Len(s) <= Len(t)
                              /\ \A i \in 1..Len(s) : s[i] = t[i]
<1> USE DEF Path
<1>1. Len(s) \in Nat /\ Len(t) \in Nat
  OBVIOUS
<1>2. CASE Len(s) <= Len(t)
  <2>1. Len(s) \in 0..Len(s) /\ Len(s) \in 0..Len(t)
    BY <1>1, <1>2
  <2>2. /\ SubSeq(s, 1, Len(s)) \in Seq(Parts) /\ Len(SubSeq(s, 1, Len(s))) = Len(s)
        /\ \A i \in 1..Len(s) : SubSeq(s, 1, Len(s))[i] = s[i]
    BY <2>1, SubSeqFacts
  <2>3. /\ SubSeq(t, 1, Len(s)) \in Seq(Parts) /\ Len(SubSeq(t, 1, Len(s))) = Len(s)
        /\ \A i \in 1..Len(s) : SubSeq(t, 1, Len(s))[i] = t[i]
    BY <2>1, SubSeqFacts
  <2>4. SubSeq(s, 1, Len(s)) = SubSeq(t, 1, Len(s))
          <=> \A i \in 1..Len(s) : s[i] = t[i]
    <3>1. ASSUME \A i \in 1..Len(s) : s[i] = t[i]
          PROVE  SubSeq(s, 1, Len(s)) = SubSeq(t, 1, Len(s))
      BY <2>2, <2>3, <3>1, SameItems
    <3>2. ASSUME SubSeq(s, 1, Len(s)) = SubSeq(t, 1, Len(s)),
                 NEW i \in 1..Len(s)
          PROVE  s[i] = t[i]
      BY <2>2, <2>3, <3>2
    <3> QED BY <3>1, <3>2
  <2> QED BY <1>2, <2>4 DEF IsPrefix
<1> QED BY <1>2 DEF IsPrefix

\* A name has one prefix of a length, its sub-sequence.
LEMMA PrefixIsSubSeq ==
    ASSUME NEW name \in Path, NEW i \in 0..Len(name)
    PROVE  /\ SubSeq(name, 1, i) \in Path /\ Len(SubSeq(name, 1, i)) = i
           /\ IsPrefix(SubSeq(name, 1, i), name)
           /\ \A t \in Path : IsPrefix(t, name) /\ Len(t) = i
                                => t = SubSeq(name, 1, i)
<1> DEFINE p == SubSeq(name, 1, i)
<1>1. p \in Path /\ Len(p) = i /\ \A j \in 1..i : p[j] = name[j]
  BY SubSeqFacts DEF Path
<1>2. Len(name) \in Nat
  BY DEF Path
<1> HIDE DEF p
<1>3. IsPrefix(p, name)
  BY <1>1, <1>2, PrefixFacts
<1>4. ASSUME NEW t \in Path, IsPrefix(t, name), Len(t) = i PROVE t = p
  <2>1. \A j \in 1..i : t[j] = p[j]
    BY <1>1, <1>4, PrefixFacts
  <2> QED BY <1>1, <1>4, <2>1, SameItems DEF Path
<1> QED BY <1>1, <1>3, <1>4 DEF p

\* What is below a node is below it or right under it.
LEMMA BelowFront ==
    ASSUME NEW a \in Path, NEW t \in Path, IsStrictPrefix(a, t)
    PROVE  t # <<>> /\ Front(t) \in Path /\ IsPrefix(a, Front(t))
<1>1. /\ IsPrefix(a, t) /\ a # t
      /\ Len(a) \in Nat /\ Len(t) \in Nat /\ Len(a) <= Len(t)
      /\ \A i \in 1..Len(a) : a[i] = t[i]
  BY PrefixFacts DEF IsStrictPrefix, Path
<1>2. Len(a) # Len(t)
  BY <1>1, SameItems DEF Path
<1>3. t # <<>>
  BY <1>1, <1>2
<1>4. /\ Front(t) \in Path /\ Len(Front(t)) = Len(t) - 1
      /\ \A j \in 1..Len(t) - 1 : Front(t)[j] = t[j]
  BY <1>3, FrontFacts DEF Path
<1>5. Len(a) <= Len(Front(t)) /\ \A i \in 1..Len(a) : a[i] = Front(t)[i]
  BY <1>1, <1>2, <1>4
<1> QED BY <1>3, <1>4, <1>5, PrefixFacts

\* And what is above a node is above everything below it.
LEMMA PrefixOfFront ==
    ASSUME NEW a \in Path, NEW t \in Path, t # <<>>, IsPrefix(a, Front(t))
    PROVE  IsStrictPrefix(a, t)
<1>1. /\ Front(t) \in Path /\ Len(Front(t)) = Len(t) - 1 /\ Len(t) \in Nat
      /\ \A j \in 1..Len(t) - 1 : Front(t)[j] = t[j]
  BY FrontFacts DEF Path
<1>2. /\ Len(a) \in Nat /\ Len(a) <= Len(t) - 1
      /\ \A i \in 1..Len(a) : a[i] = Front(t)[i]
  BY <1>1, PrefixFacts DEF Path
<1>3. Len(a) <= Len(t) /\ Len(a) # Len(t) /\ \A i \in 1..Len(a) : a[i] = t[i]
  BY <1>1, <1>2
<1> QED BY <1>3, PrefixFacts DEF IsStrictPrefix

\* A set of names that holds the one above each of its names holds every
\* prefix of them.
LEMMA PrefixesIn ==
    ASSUME NEW D, D \subseteq Path, PrefixClosed(D),
           NEW t \in D, NEW i \in 0..Len(t)
    PROVE  SubSeq(t, 1, i) \in D
<1>1. t \in Path /\ Len(t) \in Nat
  BY DEF Path
<1> DEFINE S == {k \in Nat : k <= Len(t) => SubSeq(t, 1, Len(t) - k) \in D}
<1>2. 0 \in S
  <2>1. Len(t) \in 0..Len(t) /\ IsPrefix(t, t) /\ Len(t) - 0 = Len(t)
    BY <1>1, PrefixFacts
  <2>2. SubSeq(t, 1, Len(t)) = t
    BY <1>1, <2>1, PrefixIsSubSeq
  <2> QED BY <2>1, <2>2
<1>3. ASSUME NEW k \in Nat, k \in S PROVE k + 1 \in S
  <2> SUFFICES ASSUME k + 1 <= Len(t) PROVE SubSeq(t, 1, Len(t) - (k + 1)) \in D
    OBVIOUS
  <2> DEFINE m == Len(t) - k
             p == SubSeq(t, 1, m)
             q == SubSeq(t, 1, m - 1)
  <2>1. m \in 1..Len(t) /\ m - 1 \in 0..Len(t) /\ m \in 0..Len(t)
        /\ Len(t) - (k + 1) = m - 1
    BY <1>1, <1>3
  <2>2. p \in D
    BY <1>1, <1>3
  <2> HIDE DEF m
  <2>3. p \in Path /\ Len(p) = m /\ \A j \in 1..m : p[j] = t[j]
    BY <1>1, <2>1, SubSeqFacts DEF Path
  <2>4. q \in Path /\ Len(q) = m - 1 /\ \A j \in 1..m - 1 : q[j] = t[j]
    BY <1>1, <2>1, SubSeqFacts DEF Path
  <2> HIDE DEF p, q
  <2>5. p # <<>>
    BY <2>1, <2>3
  <2>6. /\ Front(p) \in Path /\ Len(Front(p)) = m - 1
        /\ \A j \in 1..m - 1 : Front(p)[j] = p[j]
    BY <2>3, <2>5, FrontFacts DEF Path
  <2>7. Front(p) = q
    <3>1. \A j \in 1..m - 1 : j \in 1..m
      BY <2>1
    <3>2. \A j \in 1..m - 1 : Front(p)[j] = q[j]
      BY <2>3, <2>4, <2>6, <3>1
    <3> QED BY <2>4, <2>6, <3>2, SameItems DEF Path
  <2>8. q \in D
    BY <2>2, <2>5, <2>7 DEF PrefixClosed
  <2> QED BY <2>1, <2>8 DEF q
<1>4. Len(t) - i \in S
  <2> HIDE DEF S
  <2>1. Nat \subseteq S
    BY <1>2, <1>3, NatInduct
  <2> QED BY <1>1, <2>1
<1>5. Len(t) - (Len(t) - i) = i /\ Len(t) - i <= Len(t)
  BY <1>1
<1> QED BY <1>4, <1>5

\* How far a name can be walked down: to its deepest prefix that is there.
LEMMA DeepestPrefix ==
    ASSUME NEW D, D \subseteq Path, <<>> \in D, PrefixClosed(D), NEW name \in Path
    PROVE  /\ \E i \in 0..Len(name) :
                 /\ \A j \in 0..i : SubSeq(name, 1, j) \in D
                 /\ i = Len(name) \/ SubSeq(name, 1, i + 1) \notin D
           /\ \A i \in 0..Len(name) :
                 i = Len(name) \/ SubSeq(name, 1, i + 1) \notin D
                    => \A t \in D : IsPrefix(t, name) => Len(t) <= i
<1>1. Len(name) \in Nat
  BY DEF Path
<1>2. \E i \in 0..Len(name) :
         /\ \A j \in 0..i : SubSeq(name, 1, j) \in D
         /\ i = Len(name) \/ SubSeq(name, 1, i + 1) \notin D
  <2> SUFFICES ASSUME \A i \in 0..Len(name) :
                         (\A j \in 0..i : SubSeq(name, 1, j) \in D)
                           => i # Len(name) /\ SubSeq(name, 1, i + 1) \in D
               PROVE  FALSE
    OBVIOUS
  <2> DEFINE S == {i \in Nat : i <= Len(name)
                                 => \A j \in 0..i : SubSeq(name, 1, j) \in D}
  <2>1. 0 \in S
    <3>1. SubSeq(name, 1, 0) \in Path /\ Len(SubSeq(name, 1, 0)) = 0
      BY <1>1, SubSeqFacts DEF Path
    <3>2. \A q \in Path : Len(q) = 0 => q = <<>>
      BY DEF Path
    <3>3. SubSeq(name, 1, 0) = <<>>
      BY <3>1, <3>2
    <3>4. \A j \in 0..0 : j = 0
      OBVIOUS
    <3> QED BY <3>3, <3>4
  <2>2. ASSUME NEW i \in Nat, i \in S PROVE i + 1 \in S
    <3> SUFFICES ASSUME i + 1 <= Len(name), NEW j \in 0..i + 1
                 PROVE  SubSeq(name, 1, j) \in D
      OBVIOUS
    <3>1. i \in 0..Len(name) /\ i <= Len(name)
      BY <1>1
    <3>2. \A k \in 0..i : SubSeq(name, 1, k) \in D
      BY <2>2, <3>1
    <3>3. SubSeq(name, 1, i + 1) \in D
      BY <3>1, <3>2
    <3>4. j \in 0..i \/ j = i + 1
      OBVIOUS
    <3> QED BY <3>2, <3>3, <3>4
  <2>3. Len(name) \in S
    <3> HIDE DEF S
    <3> QED BY <1>1, <2>1, <2>2, NatInduct
  <2>4. Len(name) \in 0..Len(name)
    BY <1>1
  <2> QED BY <1>1, <2>3, <2>4
<1>3. ASSUME NEW i \in 0..Len(name),
             i = Len(name) \/ SubSeq(name, 1, i + 1) \notin D,
             NEW t \in D, IsPrefix(t, name)
      PROVE  Len(t) <= i
  <2>1. t \in Path /\ Len(t) \in Nat /\ Len(t) <= Len(name)
        /\ \A j \in 1..Len(t) : t[j] = name[j]
    BY <1>3, PrefixFacts DEF Path
  <2> SUFFICES ASSUME Len(t) > i PROVE FALSE
    BY <2>1
  <2>2. /\ i + 1 \in 0..Len(t) /\ i + 1 \in 0..Len(name)
        /\ SubSeq(name, 1, i + 1) \notin D
    BY <1>1, <1>3, <2>1
  <2>3. SubSeq(t, 1, i + 1) \in D
    BY <2>2, PrefixesIn
  <2>4. SubSeq(t, 1, i + 1) = SubSeq(name, 1, i + 1)
    <3>1. /\ SubSeq(t, 1, i + 1) \in Path /\ Len(SubSeq(t, 1, i + 1)) = i + 1
          /\ \A j \in 1..i + 1 : SubSeq(t, 1, i + 1)[j] = t[j]
      BY <2>1, <2>2, SubSeqFacts DEF Path
    <3>2. /\ SubSeq(name, 1, i + 1) \in Path
          /\ Len(SubSeq(name, 1, i + 1)) = i + 1
          /\ \A j \in 1..i + 1 : SubSeq(name, 1, i + 1)[j] = name[j]
      BY <2>2, SubSeqFacts DEF Path
    <3>3. \A j \in 1..i + 1 : j \in 1..Len(t)
      BY <2>1, <2>2
    <3> HIDE DEF Path
    <3>4. \A j \in 1..i + 1 : SubSeq(t, 1, i + 1)[j] = SubSeq(name, 1, i + 1)[j]
      BY <2>1, <3>1, <3>2, <3>3
    <3> QED BY <3>1, <3>2, <3>4, SameItems DEF Path
  <2> QED BY <2>2, <2>3, <2>4
<1> QED BY <1>2, <1>3

-----------------------------------------------------------------------------
(* The hierarchy while a file is loaded.  LoadedLevelsApply says something   *)
(* of the end of a reload; LoadedInv says how far each state of it has got:  *)
(* every table is in the hierarchy, or it is still to come in a call of      *)
(* from_toml that has not returned.                                          *)

Steps  == {"level", "clear", "children"}
Frames == [at : Path, step : Steps, rest : SUBSET Path]

\* What from_toml gives the node of a table.
Stated(table) == IF file[table] \in Levels THEN file[table] ELSE info

ChildTables(table) == {t \in DOMAIN file : t # <<>> /\ Front(t) = table}

FileInv == /\ DOMAIN file \subseteq Path
           /\ <<>> \in DOMAIN file /\ PrefixClosed(DOMAIN file)
           /\ file \in Files \cup {[t \in {<<>>} |-> "none"]}

TreeInv == /\ levels \in [DOMAIN levels -> Levels]
           /\ DOMAIN levels \subseteq Path
           /\ <<>> \in DOMAIN levels /\ PrefixClosed(DOMAIN levels)

StackInv ==
    /\ stack \in Seq(Frames)
    /\ loading \in {"idle", "levels", "apply"} /\ outcome \in {"loaded", "failed"}
    /\ loading = "levels" <=> stack # <<>>
    /\ stack # <<>> => stack[1].at = <<>>
    /\ \A i \in 1..Len(stack) :
          /\ stack[i].at \in DOMAIN levels \cap DOMAIN file
          /\ stack[i].rest \subseteq ChildTables(stack[i].at)
          /\ i < Len(stack) => stack[i].step = "children"
          /\ \A j \in i..Len(stack) : IsPrefix(stack[i].at, stack[j].at)

\* The nodes of the old hierarchy are gone.
Cleared ==
    \/ loading = "apply"
    \/ loading = "levels" /\ (Len(stack) > 1 \/ Top.step = "children")
    \/ loading = "idle" /\ outcome = "loaded"

\* A call of from_toml that has not returned will load the table t.
Pending(t) ==
    \E i \in 1..Len(stack) : /\ stack[i].at = Front(t)
                             /\ t \in stack[i].rest \/ stack[i].step # "children"

LoadedInv ==
    /\ stack # <<>> /\ Top.step # "level" => levels[Top.at] = Stated(Top.at)
    /\ Cleared =>
          /\ DOMAIN levels \subseteq DOMAIN file
          /\ \A n \in DOMAIN levels :
                \/ levels[n] = Stated(n)
                \/ stack # <<>> /\ n = Top.at /\ Top.step = "level"
          /\ \A t \in DOMAIN file \ DOMAIN levels :
                t # <<>> /\ Front(t) \in DOMAIN levels => Pending(t)

\* The loggers, and what a thread is about to register.
LoggersInv ==
    /\ registry \in [DOMAIN registry -> Levels]
    /\ DOMAIN registry \subseteq LoggerNames \cup {<<>>, config_logger}
    /\ lock \in Threads \cup {"free"}
    /\ asked \in [Threads -> LoggerNames \cup {no_name}]
    /\ found \in [Threads -> Levels \cup {"none"}]
    /\ \A t \in Threads : found[t] # "none" => asked[t] # no_name

AppliedInv ==
    loading = "idle" /\ outcome = "loaded"
        => /\ \A n \in DOMAIN registry : registry[n] = FileLevel(file, n)
           /\ \A t \in Threads : found[t] # "none"
                                   => found[t] = FileLevel(file, asked[t])

LogInv == /\ FileInv /\ TreeInv /\ StackInv /\ LoadedInv /\ LoggersInv
          /\ AppliedInv /\ MakerHoldsLock

LEMMA NamesArePaths ==
    /\ <<>> \in Path /\ config_logger \in Path
    /\ \A n \in LoggerNames : n \in Path /\ n # no_name
    /\ info \in Levels /\ "none" \notin Levels
<1>1. <<>> \in Path /\ config_logger \in Path
  BY LogConfigAssumption DEF Path, config_logger
<1>2. \A n \in LoggerNames : n \in Path /\ n # no_name
  BY LogConfigAssumption DEF Path
<1>3. info \in Levels /\ "none" \notin Levels
  BY LogConfigAssumption
<1> QED BY <1>1, <1>2, <1>3

LEMMA FilesHold ==
    ASSUME NEW f \in Files, f # unparsable
    PROVE  DOMAIN f \subseteq Path /\ <<>> \in DOMAIN f /\ PrefixClosed(DOMAIN f)
BY LogConfigAssumption DEF FilesAreTables, Path

\* get_level of a tree: the level of the deepest node on the way to a name.
LEMMA GetLevelIs ==
    ASSUME TreeInv, NEW name \in Path
    PROVE  \E i \in 0..Len(name) :
              /\ SubSeq(name, 1, i) \in DOMAIN levels
              /\ \A t \in DOMAIN levels : IsPrefix(t, name) => Len(t) <= i
              /\ get_level(name) = levels[SubSeq(name, 1, i)]
              /\ get_level(name) \in Levels
<1> DEFINE D == DOMAIN levels
           P(i) == /\ \A j \in 0..i : SubSeq(name, 1, j) \in D
                   /\ i = Len(name) \/ SubSeq(name, 1, i + 1) \notin D
           depth == CHOOSE i \in 0..Len(name) : P(i)
<1>1. D \subseteq Path /\ <<>> \in D /\ PrefixClosed(D) /\ levels \in [D -> Levels]
  BY DEF TreeInv
<1>2. get_level(name) = levels[SubSeq(name, 1, depth)]
  BY DEF get_level
<1> HIDE DEF D
<1>3. \E i \in 0..Len(name) : P(i)
  BY <1>1, DeepestPrefix
<1>4. depth \in 0..Len(name) /\ P(depth)
  BY <1>3
<1> HIDE DEF depth
<1>5. \A t \in D : IsPrefix(t, name) => Len(t) <= depth
  BY <1>1, <1>4, DeepestPrefix
<1>6. depth \in 0..depth
  BY <1>4
<1>7. SubSeq(name, 1, depth) \in D
  BY <1>4, <1>6
<1>8. get_level(name) \in Levels
  BY <1>1, <1>2, <1>7
<1> QED BY <1>2, <1>4, <1>5, <1>7, <1>8 DEF D

\* Once every table has been read, get_level gives what the file states.
LEMMA LevelIsFileLevel ==
    ASSUME FileInv, TreeInv, LoadedInv, Cleared, stack = <<>>, NEW name \in Path
    PROVE  get_level(name) = FileLevel(file, name)
<1>1. \A t \in DOMAIN file : t \in DOMAIN levels
  <2> DEFINE S == {k \in Nat : \A t \in DOMAIN file : Len(t) = k => t \in DOMAIN levels}
  <2>1. 0 \in S
    <3>1. \A t \in Path : Len(t) = 0 => t = <<>>
      BY DEF Path
    <3> QED BY <3>1 DEF FileInv, TreeInv
  <2>2. ASSUME NEW k \in Nat, k \in S PROVE k + 1 \in S
    <3> SUFFICES ASSUME NEW t \in DOMAIN file, Len(t) = k + 1
                 PROVE  t \in DOMAIN levels
      OBVIOUS
    <3>1. t \in Path /\ t # <<>>
      BY DEF FileInv, Path
    <3>2. Front(t) \in DOMAIN file /\ Len(Front(t)) = k
      BY <3>1, FrontFacts DEF FileInv, PrefixClosed, Path
    <3>3. Front(t) \in DOMAIN levels
      BY <2>2, <3>2
    <3>4. ~Pending(t)
      BY DEF Pending
    <3> QED BY <3>1, <3>3, <3>4 DEF LoadedInv
  <2>3. Nat \subseteq S
    <3> HIDE DEF S
    <3> QED BY <2>1, <2>2, NatInduct
  <2>4. \A t \in DOMAIN file : Len(t) \in Nat
    BY DEF FileInv, Path
  <2> QED BY <2>3, <2>4
<1>2. DOMAIN levels = DOMAIN file
  BY <1>1 DEF LoadedInv
<1>3. \A n \in DOMAIN file : levels[n] = Stated(n)
  BY <1>2 DEF LoadedInv
<1>4. PICK i \in 0..Len(name) :
         /\ SubSeq(name, 1, i) \in DOMAIN file
         /\ \A t \in DOMAIN file : IsPrefix(t, name) => Len(t) <= i
         /\ get_level(name) = levels[SubSeq(name, 1, i)]
  BY <1>2, GetLevelIs
<1> DEFINE p == SubSeq(name, 1, i)
           Deepest(t) == /\ IsPrefix(t, name)
                         /\ \A u \in DOMAIN file :
                               IsPrefix(u, name) => Len(u) <= Len(t)
           d == CHOOSE t \in DOMAIN file : Deepest(t)
<1>5. /\ p \in Path /\ Len(p) = i /\ IsPrefix(p, name)
      /\ \A t \in Path : IsPrefix(t, name) /\ Len(t) = i => t = p
  BY PrefixIsSubSeq
<1>6. Deepest(p)
  BY <1>4, <1>5
<1>7. d \in DOMAIN file /\ Deepest(d)
  <2> HIDE DEF Deepest, p
  <2> QED BY <1>4, <1>6 DEF p
<1>8. d = p
  <2> HIDE DEF d
  <2>1. d \in Path /\ Len(d) \in Nat /\ i \in Nat
    BY <1>7 DEF FileInv, Path
  <2>2. Len(p) <= Len(d) /\ Len(d) <= Len(p)
    BY <1>4, <1>5, <1>7
  <2> QED BY <1>5, <1>7, <2>1, <2>2
<1>9. FileLevel(file, name) = Stated(d)
  BY DEF FileLevel, Stated
<1> QED BY <1>3, <1>4, <1>8, <1>9

LEMMA InitLog == Init => LogInv
<1> SUFFICES ASSUME Init PROVE LogInv
  OBVIOUS
<1> USE DEF Init
<1>0. <<>> \in Path /\ Len(<<>>) = 0 /\ IsPrefix(<<>>, <<>>)
  BY NamesArePaths DEF IsPrefix
<1>1. FileInv /\ TreeInv
  BY <1>0, NamesArePaths DEF FileInv, TreeInv, PrefixClosed
<1>2. StackInv
  BY DEF StackInv
<1>3. LoadedInv
  BY NamesArePaths DEF LoadedInv, Stated
<1>4. LoggersInv
  BY NamesArePaths DEF LoggersInv
<1>5. FileLevel(file, <<>>) = info
  <2> DEFINE d == CHOOSE t \in DOMAIN file :
                     /\ IsPrefix(t, <<>>)
                     /\ \A u \in DOMAIN file : IsPrefix(u, <<>>) => Len(u) <= Len(t)
  <2>1. d \in DOMAIN file
    <3>1. \E t \in DOMAIN file :
             /\ IsPrefix(t, <<>>)
             /\ \A u \in DOMAIN file : IsPrefix(u, <<>>) => Len(u) <= Len(t)
      BY <1>0
    <3> QED BY <3>1
  <2>2. file[d] = "none"
    BY <2>1
  <2> QED BY <2>2, NamesArePaths DEF FileLevel
<1>6. AppliedInv
  BY <1>5 DEF AppliedInv
<1> QED BY <1>1, <1>2, <1>3, <1>4, <1>6, InitMaker DEF LogInv

\* A step of log::get leaves the hierarchy and the reload alone.
LEMMA GetLog ==
    ASSUME LogInv, NEW t \in Threads,
           get(t) \/ \E n \in LoggerNames : GetLock(t, n)
    PROVE  LogInv'
<1>1. UNCHANGED <<levels, reloadVars>>
  BY DEF get, GetFound, GetLevel, GetRegister, GetLock
<1>2. FileInv' /\ TreeInv' /\ StackInv' /\ LoadedInv'
  BY <1>1 DEF LogInv, FileInv, TreeInv, StackInv, LoadedInv, Stated, ChildTables,
              Cleared, Pending, Top, reloadVars
<1>3. MakerHoldsLock'
  BY GetMaker, LockMaker DEF LogInv
<1> SUFFICES LoggersInv' /\ AppliedInv'
  BY <1>2, <1>3 DEF LogInv
<1>4. CASE \E n \in LoggerNames : GetLock(t, n)
  <2>1. \A u \in Threads : found[u] = "none"
    BY <1>4, Alone DEF GetLock, LogInv
  <2> QED BY <1>1, <1>4, <2>1
          DEF GetLock, LogInv, LoggersInv, AppliedInv, reloadVars
<1>5. CASE GetFound(t)
  BY <1>1, <1>5 DEF GetFound, InGet, LogInv, LoggersInv, AppliedInv, reloadVars
<1>6. CASE GetLevel(t)
  <2>1. asked[t] \in LoggerNames /\ asked[t] \in Path
    BY <1>6, NamesArePaths DEF GetLevel, InGet, LogInv, LoggersInv
  <2>2. get_level(asked[t]) \in Levels
    BY <2>1, GetLevelIs DEF LogInv
  <2>3. ASSUME loading = "idle", outcome = "loaded"
        PROVE  get_level(asked[t]) = FileLevel(file, asked[t])
    <3>1. Cleared /\ stack = <<>>
      BY <2>3 DEF Cleared, LogInv, StackInv
    <3> QED BY <2>1, <3>1, LevelIsFileLevel DEF LogInv
  <2>4. found' = [found EXCEPT ![t] = get_level(asked[t])]
        /\ UNCHANGED <<registry, lock, asked>>
    BY <1>6 DEF GetLevel
  <2>5. LoggersInv'
    BY <1>6, <2>2, <2>4 DEF GetLevel, InGet, LogInv, LoggersInv
  <2>6. AppliedInv'
    BY <1>1, <2>3, <2>4 DEF LogInv, LoggersInv, AppliedInv, reloadVars
  <2> QED BY <2>5, <2>6
<1>7. CASE GetRegister(t)
  <2>1. asked[t] \in LoggerNames /\ found[t] \in Levels
    BY <1>7 DEF GetRegister, LogInv, LoggersInv
  <2>2. /\ registry' = WithLogger(asked[t], found[t])
        /\ asked' = [asked EXCEPT ![t] = no_name]
        /\ found' = [found EXCEPT ![t] = "none"]
        /\ lock' = "free"
    BY <1>7 DEF GetRegister
  <2>3. LoggersInv'
    BY <2>1, <2>2 DEF WithLogger, LogInv, LoggersInv
  <2>4. AppliedInv'
    BY <1>1, <1>7, <2>2
       DEF GetRegister, WithLogger, LogInv, LoggersInv, AppliedInv, reloadVars
  <2> QED BY <2>3, <2>4
<1> QED BY <1>4, <1>5, <1>6, <1>7 DEF get

\* A reload that fails leaves a tree, and nothing to show for it.
LEMMA FailsLog ==
    ASSUME LogInv, Fails, UNCHANGED <<lock, getVars>>, TreeInv', LoggersInv',
           MakerHoldsLock'
    PROVE  LogInv'
<1>1. /\ loading' = "idle" /\ stack' = <<>> /\ outcome' = "failed"
      /\ file' = file
  BY DEF Fails
<1>2. FileInv' /\ StackInv'
  BY <1>1 DEF LogInv, FileInv, StackInv
<1>3. ~Cleared' /\ LoadedInv' /\ AppliedInv'
  BY <1>1 DEF Cleared, LoadedInv, AppliedInv
<1> QED BY <1>2, <1>3 DEF LogInv

LEMMA ReloadLog ==
    ASSUME LogInv, NEW f \in Files, reload(f)
    PROVE  LogInv'
<1>1. MakerHoldsLock'
  BY ReloadMaker DEF LogInv
<1>2. TreeInv' /\ UNCHANGED <<levels, lock, getVars>>
  BY DEF reload, LogInv, TreeInv
<1>3. LoggersInv'
  <2>1. get_level(config_logger) \in Levels
    BY NamesArePaths, GetLevelIs DEF LogInv
  <2>2. UNCHANGED registry \/ registry' = WithLogger(config_logger, get_level(config_logger))
    BY DEF reload
  <2>3. /\ registry' \in [DOMAIN registry' -> Levels]
        /\ DOMAIN registry' \subseteq LoggerNames \cup {<<>>, config_logger}
    BY <2>1, <2>2 DEF WithLogger, LogInv, LoggersInv
  <2> QED BY <1>2, <2>3 DEF LogInv, LoggersInv, getVars
<1>4. CASE f = unparsable
  BY <1>1, <1>2, <1>3, <1>4, FailsLog DEF reload
<1>5. CASE f # unparsable
  <2>1. /\ file' = f /\ loading' = "levels" /\ stack' = <<Frame(<<>>)>>
        /\ outcome' = outcome
    BY <1>5 DEF reload
  <2>2. FileInv'
    BY <1>5, <2>1, FilesHold DEF FileInv
  <2>3. /\ Frame(<<>>).at = <<>> /\ Frame(<<>>).step = "level"
        /\ Frame(<<>>).rest = {} /\ Frame(<<>>) \in Frames
    BY NamesArePaths DEF Frame, Frames, Steps
  <2>4. /\ stack' \in Seq(Frames) /\ Len(stack') = 1 /\ stack'[1] = Frame(<<>>)
        /\ stack' # <<>>
    <3> HIDE DEF Frame
    <3> QED BY <2>1, <2>3
  <2>5. StackInv'
    <3>1. \A i \in 1..Len(stack') : i = 1
      BY <2>4
    <3>2. \A i \in 1..Len(stack') : \A j \in i..Len(stack') : j = 1
      BY <2>4
    <3>3. IsPrefix(<<>>, <<>>)
      BY DEF IsPrefix
    <3>4. <<>> \in DOMAIN levels' \cap DOMAIN file'
      BY <1>2, <2>2 DEF TreeInv, FileInv
    <3> QED BY <2>1, <2>3, <2>4, <3>1, <3>2, <3>3, <3>4 DEF StackInv, LogInv
  <2>6. ~Cleared' /\ LoadedInv' /\ AppliedInv'
    BY <2>1, <2>3, <2>4 DEF Cleared, Top, LoadedInv, AppliedInv
  <2> QED BY <1>1, <1>2, <1>3, <2>2, <2>5, <2>6 DEF LogInv
<1> QED BY <1>4, <1>5

-----------------------------------------------------------------------------
(* The steps of from_toml and apply_all                                      *)

LEMMA TopFacts ==
    ASSUME StackInv, stack # <<>>
    PROVE  /\ Len(stack) \in Nat /\ Len(stack) >= 1 /\ Len(stack) \in 1..Len(stack)
           /\ Top = stack[Len(stack)] /\ Top \in Frames
           /\ Top.at \in Path /\ Top.step \in Steps
           /\ Top.at \in DOMAIN levels /\ Top.at \in DOMAIN file
           /\ Top.rest \subseteq ChildTables(Top.at)
           /\ \A i \in 1..Len(stack) : /\ stack[i].at \in Path
                                       /\ IsPrefix(stack[i].at, Top.at)
<1>1. Len(stack) \in Nat /\ Len(stack) >= 1 /\ Len(stack) \in 1..Len(stack)
  BY DEF StackInv
<1>2. \A i \in 1..Len(stack) : stack[i] \in Frames /\ stack[i].at \in Path
                               /\ stack[i].step \in Steps
  <2>1. \A i \in 1..Len(stack) : stack[i] \in Frames
    BY DEF StackInv
  <2>2. \A e \in Frames : e.at \in Path /\ e.step \in Steps
    BY DEF Frames
  <2> QED BY <2>1, <2>2
<1>3. \A i \in 1..Len(stack) : Len(stack) \in i..Len(stack)
  BY <1>1
<1> QED BY <1>1, <1>2, <1>3 DEF StackInv, Top

\* The frame on top goes on in its call of from_toml.
LEMMA ContinueStack ==
    ASSUME StackInv, stack # <<>>, NEW frame \in Frames, Continue(frame),
           frame.at = Top.at, frame.rest \subseteq ChildTables(Top.at),
           \A i \in 1..Len(stack) : stack[i].at \in DOMAIN levels'
    PROVE  /\ StackInv' /\ Top' = frame /\ Len(stack') = Len(stack)
           /\ stack' # <<>> /\ loading' = "levels"
           /\ UNCHANGED <<file, loading, outcome>>
           /\ \A i \in 1..Len(stack) :
                 /\ stack'[i].at = stack[i].at
                 /\ i # Len(stack) => stack'[i] = stack[i]
<1>1. Len(stack) \in Nat /\ Len(stack) >= 1 /\ Len(stack) \in 1..Len(stack)
  BY TopFacts
<1>2. /\ stack' = [stack EXCEPT ![Len(stack)] = frame]
      /\ UNCHANGED <<file, loading, outcome>> /\ stack \in Seq(Frames)
      /\ loading = "levels"
  BY DEF Continue, StackInv
<1>3. /\ stack' \in Seq(Frames) /\ Len(stack') = Len(stack)
      /\ \A i \in 1..Len(stack) :
            stack'[i] = IF i = Len(stack) THEN frame ELSE stack[i]
  BY <1>1, <1>2
<1>4. Top' = frame /\ stack' # <<>>
  BY <1>1, <1>3 DEF Top
<1>5. \A i \in 1..Len(stack) : stack'[i].at = stack[i].at
  BY <1>3 DEF Top
<1>6. ASSUME NEW i \in 1..Len(stack')
      PROVE  /\ stack'[i].at \in DOMAIN levels' \cap DOMAIN file'
             /\ stack'[i].rest \subseteq ChildTables(stack'[i].at)
             /\ i < Len(stack') => stack'[i].step = "children"
             /\ \A j \in i..Len(stack') : IsPrefix(stack'[i].at, stack'[j].at)
  <2>1. i \in 1..Len(stack) /\ \A j \in i..Len(stack') : j \in 1..Len(stack)
    BY <1>1, <1>3
  <2>2. stack'[i].at \in DOMAIN levels' \cap DOMAIN file'
    BY <1>2, <1>5, <2>1 DEF StackInv
  <2>3. stack'[i].rest \subseteq ChildTables(stack'[i].at)
    <3>1. CASE i = Len(stack)
      BY <1>3, <2>1, <3>1
    <3>2. CASE i # Len(stack)
      BY <1>3, <2>1, <3>2 DEF StackInv
    <3> QED BY <3>1, <3>2
  <2>4. i < Len(stack') => stack'[i].step = "children"
    BY <1>1, <1>3, <2>1 DEF StackInv
  <2>5. \A j \in i..Len(stack') : IsPrefix(stack'[i].at, stack'[j].at)
    BY <1>3, <1>5, <2>1 DEF StackInv
  <2> QED BY <2>2, <2>3, <2>4, <2>5
<1>7. stack'[1].at = <<>>
  BY <1>1, <1>5 DEF StackInv
<1>8. StackInv'
  BY <1>2, <1>3, <1>4, <1>6, <1>7 DEF StackInv, ChildTables
<1> QED BY <1>2, <1>3, <1>4, <1>5, <1>8

\* What no step of the loading itself touches.
LEMMA LoadElse ==
    ASSUME LogInv, Load, loading' # "idle" \/ outcome' # "loaded"
    PROVE  LoggersInv' /\ AppliedInv' /\ MakerHoldsLock'
<1>1. MakerHoldsLock'
  BY ReloadMaker DEF LogInv
<1>2. UNCHANGED <<lock, asked, found>> /\ (UNCHANGED registry \/ apply_all)
  BY DEF Load, ReadLevel, SetLevel, ClearChildren, LoadChild, TableDone, apply_all, getVars
<1>3. ~apply_all
  BY DEF apply_all
<1>4. LoggersInv'
  BY <1>2, <1>3 DEF LogInv, LoggersInv
<1> QED BY <1>1, <1>4 DEF AppliedInv

LEMMA ReadLevelLog == ASSUME LogInv, ReadLevel PROVE LogInv'
<1>0. FileInv /\ TreeInv /\ StackInv /\ LoadedInv /\ Load
  BY DEF LogInv, Load
<1>1. loading = "levels" /\ Top.step = "level" /\ stack # <<>>
      /\ UNCHANGED <<lock, getVars>>
  BY <1>0 DEF ReadLevel, InTable, StackInv
<1>2. CASE NotALevel(Top.at)
  <2>1. Fails /\ UNCHANGED levels
    BY <1>2 DEF ReadLevel
  <2>2. TreeInv'
    BY <1>0, <2>1 DEF TreeInv
  <2> QED BY <1>0, <1>1, <2>1, <2>2, LoadElse, FailsLog DEF Fails
<1>3. CASE ~NotALevel(Top.at)
  <2> DEFINE frame == [Top EXCEPT !.step = "clear"]
  <2>1. /\ levels' = [levels EXCEPT ![Top.at] = Stated(Top.at)]
        /\ Continue(frame)
    BY <1>3 DEF ReadLevel, SetLevel, Stated
  <2>2. /\ Top \in Frames /\ Top.at \in DOMAIN levels
        /\ Top.rest \subseteq ChildTables(Top.at)
        /\ Len(stack) \in 1..Len(stack)
    BY <1>0, <1>1, TopFacts
  <2>3. /\ frame \in Frames /\ frame.at = Top.at /\ frame.step = "clear"
        /\ frame.rest = Top.rest
    BY <2>2 DEF Frames, Steps
  <2>4. Stated(Top.at) \in Levels
    BY NamesArePaths DEF Stated
  <2>5. /\ DOMAIN levels' = DOMAIN levels /\ levels' \in [DOMAIN levels -> Levels]
        /\ \A n \in DOMAIN levels :
              levels'[n] = IF n = Top.at THEN Stated(Top.at) ELSE levels[n]
    BY <1>0, <2>1, <2>4 DEF TreeInv
  <2> HIDE DEF frame
  <2>6. /\ StackInv' /\ Top' = frame /\ Len(stack') = Len(stack)
        /\ stack' # <<>> /\ loading' = "levels"
        /\ UNCHANGED <<file, loading, outcome>>
        /\ \A i \in 1..Len(stack) :
              /\ stack'[i].at = stack[i].at
              /\ i # Len(stack) => stack'[i] = stack[i]
    <3>1. \A i \in 1..Len(stack) : stack[i].at \in DOMAIN levels'
      BY <1>0, <2>5 DEF StackInv
    <3> QED BY <1>0, <1>1, <2>1, <2>2, <2>3, <3>1, ContinueStack
  <2>7. TreeInv' /\ FileInv'
    BY <1>0, <2>5, <2>6 DEF TreeInv, FileInv
  <2>8. \A n : Stated(n)' = Stated(n)
    BY <2>6 DEF Stated
  <2>9. levels'[Top.at] = Stated(Top.at) /\ Top'.at = Top.at
    BY <2>2, <2>3, <2>5, <2>6
  <2>10. Cleared' => Cleared
    BY <1>1, <2>3, <2>6 DEF Cleared
  <2>11. ASSUME NEW t, Pending(t) PROVE Pending(t)'
    <3>1. PICK i \in 1..Len(stack) :
             /\ stack[i].at = Front(t)
             /\ t \in stack[i].rest \/ stack[i].step # "children"
      BY <2>11 DEF Pending
    <3>2. i = Len(stack) => stack'[i].step = "clear"
      BY <2>3, <2>6 DEF Top
    <3> QED BY <2>6, <3>1, <3>2 DEF Pending
  <2>12. LoadedInv'
    BY <1>0, <2>5, <2>6, <2>8, <2>9, <2>10, <2>11 DEF LoadedInv
  <2> QED BY <1>0, <2>6, <2>7, <2>12, LoadElse DEF LogInv
<1> QED BY <1>2, <1>3

\* What is above a node is not below it.
LEMMA AboveIsNotBelow ==
    ASSUME NEW a \in Path, NEW b \in Path, IsPrefix(a, b)
    PROVE  ~IsStrictPrefix(b, a)
<1> SUFFICES ASSUME IsStrictPrefix(b, a) PROVE FALSE
  OBVIOUS
<1>1. /\ Len(a) \in Nat /\ Len(b) \in Nat /\ Len(a) = Len(b) /\ a # b
      /\ \A i \in 1..Len(a) : a[i] = b[i]
  BY PrefixFacts DEF IsStrictPrefix, Path
<1> QED BY <1>1, SameItems DEF Path

\* The root is above every other node.
LEMMA RootIsAbove ==
    ASSUME NEW t \in Path
    PROVE  ~IsStrictPrefix(t, <<>>) /\ (t # <<>> => IsStrictPrefix(<<>>, t))
<1>1. <<>> \in Path /\ Len(<<>>) = 0 /\ Len(t) >= 0
  BY NamesArePaths DEF Path
<1>2. IsPrefix(<<>>, t)
  BY <1>1, PrefixFacts
<1> QED BY <1>1, <1>2, AboveIsNotBelow DEF IsStrictPrefix

LEMMA ClearLog == ASSUME LogInv, ClearChildren PROVE LogInv'
<1>0. FileInv /\ TreeInv /\ StackInv /\ LoadedInv /\ Load
  BY DEF LogInv, Load
<1>1. loading = "levels" /\ Top.step = "clear" /\ stack # <<>>
      /\ UNCHANGED <<lock, getVars>>
  BY <1>0 DEF ClearChildren, InTable, StackInv
<1>2. /\ Top \in Frames /\ Top.at \in DOMAIN levels /\ Top.at \in DOMAIN file
      /\ Top.at \in Path
      /\ Len(stack) \in 1..Len(stack) /\ Len(stack) \in Nat
      /\ \A i \in 1..Len(stack) : /\ stack[i].at \in Path
                                  /\ IsPrefix(stack[i].at, Top.at)
  BY <1>0, <1>1, TopFacts
<1> DEFINE D == DOMAIN levels \ Below(Top.at)
<1>3. /\ levels' = [n \in D |-> levels[n]] /\ D \subseteq DOMAIN levels
      /\ DOMAIN levels \subseteq Path /\ levels \in [DOMAIN levels -> Levels]
      /\ \A n : n \in D <=> n \in DOMAIN levels /\ ~IsStrictPrefix(Top.at, n)
  BY <1>0 DEF ClearChildren, TreeInv, Below
<1> HIDE DEF D
<1>4. /\ DOMAIN levels' = D /\ levels' \in [D -> Levels]
      /\ \A n \in D : levels'[n] = levels[n]
  BY <1>3
<1>5. TreeInv'
  <2>1. <<>> \in D
    BY <1>0, <1>2, <1>3, RootIsAbove DEF TreeInv
  <2>2. ASSUME NEW t \in D, t # <<>> PROVE Front(t) \in D
    <3>1. t \in Path /\ Front(t) \in DOMAIN levels
      BY <1>0, <1>3, <2>2 DEF TreeInv, PrefixClosed
    <3>2. IsStrictPrefix(Top.at, Front(t)) => IsStrictPrefix(Top.at, t)
      BY <1>2, <2>2, <3>1, PrefixOfFront DEF IsStrictPrefix
    <3> QED BY <1>3, <3>1, <3>2
  <2> QED BY <1>3, <1>4, <2>1, <2>2 DEF TreeInv, PrefixClosed
<1>6. CASE file[Top.at] = "scalar"
  BY <1>0, <1>1, <1>5, <1>6, LoadElse, FailsLog DEF ClearChildren, Fails
<1>7. CASE file[Top.at] # "scalar"
  <2> DEFINE frame == [Top EXCEPT !.step = "children", !.rest = ChildTables(Top.at)]
  <2>1. Continue(frame)
    BY <1>7 DEF ClearChildren, ChildTables
  <2>2. ChildTables(Top.at) \in SUBSET Path
    BY <1>0 DEF ChildTables, FileInv
  <2>3. /\ frame \in Frames /\ frame.at = Top.at /\ frame.step = "children"
        /\ frame.rest = ChildTables(Top.at)
    <3> HIDE DEF ChildTables
    <3> QED BY <1>2, <2>2 DEF Frames, Steps
  <2> HIDE DEF frame
  <2>4. \A i \in 1..Len(stack) : stack[i].at \in D
    BY <1>0, <1>2, <1>3, AboveIsNotBelow DEF StackInv
  <2>5. /\ StackInv' /\ Top' = frame /\ Len(stack') = Len(stack)
        /\ stack' # <<>> /\ loading' = "levels"
        /\ UNCHANGED <<file, loading, outcome>>
        /\ \A i \in 1..Len(stack) :
              /\ stack'[i].at = stack[i].at
              /\ i # Len(stack) => stack'[i] = stack[i]
    BY <1>0, <1>1, <1>4, <2>1, <2>3, <2>4, ContinueStack
  <2>6. FileInv'
    BY <1>0, <2>5 DEF FileInv
  <2>7. \A n : Stated(n)' = Stated(n)
    BY <2>5 DEF Stated
  <2>8. Top.at \in D
    BY <1>2, <2>4 DEF Top
  <2>9. ~Cleared => D = {<<>>} /\ Top.at = <<>>
    <3> SUFFICES ASSUME ~Cleared PROVE D = {<<>>} /\ Top.at = <<>>
      OBVIOUS
    <3>0. ~(Len(stack) > 1)
      BY <1>1 DEF Cleared
    <3>1. Len(stack) = 1
      <4>1. Len(stack) \in Nat /\ Len(stack) >= 1
        BY <1>0, <1>1, TopFacts
      <4> QED BY <3>0, <4>1
    <3>2. Top.at = <<>>
      BY <1>0, <1>1, <3>1 DEF StackInv, Top
    <3> QED BY <1>3, <2>8, <3>2, RootIsAbove
  <2>10. levels[Top.at] = Stated(Top.at)
    BY <1>0, <1>1 DEF LoadedInv
  <2>11. D \subseteq DOMAIN file /\ \A n \in D : levels'[n] = Stated(n)
    <3>1. CASE Cleared
      BY <1>0, <1>1, <1>3, <1>4, <3>1 DEF LoadedInv
    <3>2. CASE ~Cleared
      BY <1>2, <1>4, <2>8, <2>9, <2>10, <3>2
    <3> QED BY <3>1, <3>2
  <2>12. ASSUME NEW t \in DOMAIN file \ D, t # <<>>, Front(t) \in D
         PROVE  Pending(t)'
    <3>0. /\ stack'[Len(stack)] = frame /\ Len(stack) \in 1..Len(stack')
      BY <1>2, <2>5 DEF Top
    <3>1. CASE Front(t) = Top.at
      <4>1. t \in frame.rest
        BY <2>3, <2>12, <3>1 DEF ChildTables
      <4> QED BY <2>3, <3>0, <3>1, <4>1 DEF Pending
    <3>2. CASE Front(t) # Top.at
      <4>1. t \in Path
        BY <1>0 DEF FileInv
      <4>2. Cleared
        BY <2>9, <2>12, <3>2
      <4>3. t \notin DOMAIN levels
        <5> SUFFICES ASSUME t \in DOMAIN levels PROVE FALSE
          OBVIOUS
        <5>1. IsStrictPrefix(Top.at, t)
          BY <1>3, <2>12
        <5>2. IsPrefix(Top.at, Front(t))
          BY <1>2, <4>1, <5>1, BelowFront
        <5>3. IsStrictPrefix(Top.at, Front(t))
          BY <3>2, <5>2 DEF IsStrictPrefix
        <5> QED BY <1>3, <2>12, <5>3
      <4>4. Pending(t)
        BY <1>0, <1>3, <2>12, <4>2, <4>3 DEF LoadedInv
      <4>5. PICK i \in 1..Len(stack) :
               /\ stack[i].at = Front(t)
               /\ t \in stack[i].rest \/ stack[i].step # "children"
        BY <4>4 DEF Pending
      <4>6. i # Len(stack)
        BY <3>2, <4>5 DEF Top
      <4> QED BY <2>5, <4>5, <4>6 DEF Pending
    <3> QED BY <3>1, <3>2
  <2>13. LoadedInv'
    BY <1>4, <2>5, <2>7, <2>8, <2>3, <2>11, <2>12 DEF LoadedInv
  <2> QED BY <1>0, <1>5, <2>5, <2>6, <2>13, LoadElse DEF LogInv
<1> QED BY <1>6, <1>7

LEMMA LoadChildLog == ASSUME LogInv, LoadChild PROVE LogInv'
<1>0. FileInv /\ TreeInv /\ StackInv /\ LoadedInv /\ Load
  BY DEF LogInv, Load
<1>1. loading = "levels" /\ Top.step = "children" /\ stack # <<>> /\ Cleared
      /\ UNCHANGED <<file, loading, outcome>>
  BY <1>0 DEF LoadChild, InTable, StackInv, Cleared
<1> DEFINE len == Len(stack)
<1>2. /\ Top \in Frames /\ Top.at \in DOMAIN levels
      /\ Top.rest \subseteq ChildTables(Top.at)
      /\ len \in 1..len /\ len \in Nat /\ len >= 1
      /\ \A i \in 1..len : /\ stack[i].at \in Path
                           /\ IsPrefix(stack[i].at, Top.at)
  BY <1>0, <1>1, TopFacts
<1>3. PICK child \in Top.rest :
         /\ levels' = [n \in DOMAIN levels \cup {child} |->
                          IF n = child THEN info ELSE levels[n]]
         /\ stack' = Append([stack EXCEPT ![len].rest = @ \ {child}], Frame(child))
  BY DEF LoadChild
<1>4. /\ child \in DOMAIN file /\ child # <<>> /\ Front(child) = Top.at
      /\ child \in Path
  BY <1>0, <1>2, <1>3 DEF ChildTables, FileInv
<1>5. /\ DOMAIN levels' = DOMAIN levels \cup {child}
      /\ levels' \in [DOMAIN levels' -> Levels]
      /\ \A n \in DOMAIN levels : n # child => levels'[n] = levels[n]
  BY <1>0, <1>3, NamesArePaths DEF TreeInv
<1>6. TreeInv' /\ FileInv'
  BY <1>0, <1>1, <1>2, <1>4, <1>5 DEF TreeInv, FileInv, PrefixClosed
<1> DEFINE old == [Top EXCEPT !.rest = @ \ {child}]
           new == Frame(child)
<1>7. /\ old \in Frames /\ old.at = Top.at /\ old.step = "children"
      /\ old.rest = Top.rest \ {child}
  BY <1>1, <1>2 DEF Frames
<1>8. /\ new \in Frames /\ new.at = child /\ new.step = "level" /\ new.rest = {}
  BY <1>4 DEF Frame, Frames, Steps
<1>9. stack' = Append([stack EXCEPT ![len] = old], new)
  BY <1>3 DEF Top
<1> HIDE DEF old, new
<1>10. /\ stack' \in Seq(Frames) /\ Len(stack') = len + 1
       /\ stack'[len + 1] = new
       /\ \A i \in 1..len : stack'[i] = IF i = len THEN old ELSE stack[i]
  <2> DEFINE s == [stack EXCEPT ![len] = old]
  <2>1. stack \in Seq(Frames)
    BY <1>0 DEF StackInv
  <2>2. s \in Seq(Frames) /\ Len(s) = len
        /\ \A i \in 1..len : s[i] = IF i = len THEN old ELSE stack[i]
    BY <1>2, <1>7, <2>1
  <2>3. stack' = Append(s, new)
    BY <1>9
  <2> HIDE DEF s
  <2>4. /\ Append(s, new) \in Seq(Frames) /\ Len(Append(s, new)) = len + 1
        /\ Append(s, new)[len + 1] = new
        /\ \A i \in 1..len : Append(s, new)[i] = s[i]
    BY <1>2, <1>8, <2>2
  <2> QED BY <2>2, <2>3, <2>4
<1>11. Top' = new /\ stack' # <<>>
  BY <1>2, <1>10 DEF Top
<1>12. /\ \A i \in 1..len : stack'[i].at = stack[i].at /\ stack'[i].step = stack[i].step
       /\ \A i \in 1..len : i # len => stack'[i] = stack[i]
  BY <1>1, <1>7, <1>10 DEF Top
<1>13. ASSUME NEW i \in 1..Len(stack')
       PROVE  /\ stack'[i].at \in DOMAIN levels' \cap DOMAIN file
              /\ stack'[i].rest \subseteq ChildTables(stack'[i].at)
              /\ i < Len(stack') => stack'[i].step = "children"
              /\ \A j \in i..Len(stack') : IsPrefix(stack'[i].at, stack'[j].at)
  <2>1. CASE i = len + 1
    <3>1. IsPrefix(child, child)
      BY <1>4, PrefixFacts DEF Path
    <3>2. \A j \in i..Len(stack') : j = len + 1
      BY <1>2, <1>10, <2>1
    <3> QED BY <1>2, <1>4, <1>5, <1>8, <1>10, <2>1, <3>1, <3>2
  <2>2. CASE i # len + 1
    <3>1. i \in 1..len
      BY <1>2, <1>10, <2>2
    <3>2. stack'[i].at \in DOMAIN levels' \cap DOMAIN file
      BY <1>0, <1>5, <1>12, <3>1 DEF StackInv
    <3>3. stack'[i].rest \subseteq ChildTables(stack'[i].at)
      <4>1. CASE i = len
        BY <1>2, <1>7, <1>10, <4>1
      <4>2. CASE i # len
        BY <1>0, <1>12, <3>1, <4>2 DEF StackInv
      <4> QED BY <4>1, <4>2
    <3>4. stack'[i].step = "children"
      <4>1. i = len \/ i < len
        BY <1>2, <3>1
      <4> QED BY <1>0, <1>1, <1>12, <3>1, <4>1 DEF StackInv, Top
    <3>5. ASSUME NEW j \in i..Len(stack')
          PROVE  IsPrefix(stack'[i].at, stack'[j].at)
      <4>1. CASE j = len + 1
        <5>1. IsPrefix(stack[i].at, Front(child)) /\ stack[i].at \in Path
          BY <1>2, <1>4, <3>1
        <5>2. IsPrefix(stack[i].at, child)
          BY <1>4, <5>1, PrefixOfFront DEF IsStrictPrefix
        <5> QED BY <1>8, <1>10, <1>12, <3>1, <4>1, <5>2
      <4>2. CASE j # len + 1
        <5>1. j \in i..len /\ j \in 1..len
          BY <1>2, <1>10, <3>1, <4>2
        <5> QED BY <1>0, <1>12, <3>1, <5>1 DEF StackInv
      <4> QED BY <4>1, <4>2
    <3> QED BY <3>2, <3>3, <3>4, <3>5
  <2> QED BY <2>1, <2>2
<1>14. StackInv'
  <2>1. stack'[1].at = <<>>
    <3>1. 1 \in 1..len
      BY <1>2
    <3> QED BY <1>0, <1>1, <1>12, <3>1 DEF StackInv
  <2> QED BY <1>0, <1>1, <1>10, <1>11, <1>13, <2>1 DEF StackInv, ChildTables
<1>15. \A n : Stated(n)' = Stated(n)
  BY <1>1 DEF Stated
<1>16. /\ DOMAIN levels \subseteq DOMAIN file
       /\ \A n \in DOMAIN levels : levels[n] = Stated(n)
  BY <1>0, <1>1 DEF LoadedInv
<1>17. ASSUME NEW t \in DOMAIN file \ DOMAIN levels', t # <<>>,
              Front(t) \in DOMAIN levels'
       PROVE  Pending(t)'
  <2>1. CASE Front(t) = child
    <3>1. len + 1 \in 1..Len(stack')
      BY <1>2, <1>10
    <3> QED BY <1>8, <1>10, <2>1, <3>1 DEF Pending
  <2>2. CASE Front(t) # child
    <3>1. Pending(t)
      BY <1>0, <1>1, <1>5, <1>17, <2>2 DEF LoadedInv
    <3>2. PICK i \in 1..len : /\ stack[i].at = Front(t)
                              /\ t \in stack[i].rest \/ stack[i].step # "children"
      BY <3>1 DEF Pending
    <3>3. i \in 1..Len(stack')
      BY <1>2, <1>10
    <3>4. t \in stack[i].rest => t \in stack'[i].rest
      <4>1. t # child
        BY <1>5, <1>17
      <4> QED BY <1>7, <1>10, <4>1 DEF Top
    <3> QED BY <1>12, <3>2, <3>3, <3>4 DEF Pending
  <2> QED BY <2>1, <2>2
<1>18. LoadedInv'
  <2>1. DOMAIN levels' \subseteq DOMAIN file
    BY <1>4, <1>5, <1>16
  <2>2. \A n \in DOMAIN levels' : levels'[n] = Stated(n) \/ n = child
    BY <1>5, <1>16
  <2> QED BY <1>1, <1>8, <1>11, <1>15, <1>17, <2>1, <2>2 DEF LoadedInv
<1> QED BY <1>0, <1>1, <1>6, <1>14, <1>18, LoadElse DEF LogInv

LEMMA TableDoneLog == ASSUME LogInv, TableDone PROVE LogInv'
<1>0. FileInv /\ TreeInv /\ StackInv /\ LoadedInv /\ Load
  BY DEF LogInv, Load
<1>1. /\ loading = "levels" /\ Top.step = "children" /\ Top.rest = {}
      /\ stack # <<>> /\ Cleared /\ stack' = Front(stack)
      /\ loading' = IF Len(stack) = 1 THEN "apply" ELSE "levels"
      /\ UNCHANGED <<levels, file, outcome>>
  BY <1>0 DEF TableDone, InTable, StackInv, Cleared
<1> DEFINE len == Len(stack)
<1>2. /\ len \in Nat /\ len >= 1 /\ Top = stack[len]
  BY <1>0, <1>1, TopFacts
<1>3. /\ stack' \in Seq(Frames) /\ Len(stack') = len - 1
      /\ \A i \in 1..len - 1 : stack'[i] = stack[i]
  BY <1>0, <1>1, FrontFacts DEF StackInv
<1>4. stack' = <<>> <=> len = 1
  BY <1>2, <1>3
<1>5. FileInv' /\ TreeInv'
  BY <1>0, <1>1 DEF FileInv, TreeInv
<1>6. ASSUME NEW i \in 1..Len(stack')
      PROVE  /\ stack'[i] = stack[i] /\ i \in 1..len /\ i < len
             /\ \A j \in i..Len(stack') : stack'[j] = stack[j] /\ j \in i..len
  BY <1>2, <1>3
<1>7. StackInv'
  <2>1. stack' # <<>> => stack'[1].at = <<>>
    BY <1>0, <1>1, <1>2, <1>3, <1>4 DEF StackInv
  <2>2. ASSUME NEW i \in 1..Len(stack')
        PROVE  /\ stack'[i].at \in DOMAIN levels \cap DOMAIN file
               /\ stack'[i].rest \subseteq ChildTables(stack'[i].at)
               /\ stack'[i].step = "children"
               /\ \A j \in i..Len(stack') : IsPrefix(stack'[i].at, stack'[j].at)
    BY <1>0, <1>6 DEF StackInv
  <2>3. loading' = "levels" <=> stack' # <<>>
    BY <1>1, <1>4
  <2> QED BY <1>0, <1>1, <1>3, <2>1, <2>2, <2>3 DEF StackInv, ChildTables
<1>8. /\ DOMAIN levels \subseteq DOMAIN file
      /\ \A n \in DOMAIN levels : levels[n] = Stated(n)
  BY <1>0, <1>1 DEF LoadedInv
<1>9. ASSUME NEW t, Pending(t) PROVE Pending(t)'
  <2>1. PICK i \in 1..len : /\ stack[i].at = Front(t)
                            /\ t \in stack[i].rest \/ stack[i].step # "children"
    BY <1>9 DEF Pending
  <2>2. i # len
    BY <1>1, <1>2, <2>1
  <2>3. i \in 1..Len(stack') /\ i \in 1..len - 1
    BY <1>2, <1>3, <2>2
  <2> QED BY <1>3, <2>1, <2>3 DEF Pending
<1>10. \A n : Stated(n)' = Stated(n)
  BY <1>1 DEF Stated
<1>11. stack' # <<>> => Top'.at \in DOMAIN levels
  <2> SUFFICES ASSUME stack' # <<>> PROVE Top'.at \in DOMAIN levels
    OBVIOUS
  <2>1. len - 1 \in 1..Len(stack') /\ len - 1 \in 1..len
    BY <1>2, <1>3, <1>4
  <2>2. Top' = stack[len - 1]
    BY <1>3, <2>1 DEF Top
  <2> QED BY <1>0, <2>1, <2>2 DEF StackInv
<1>12. LoadedInv'
  <2>1. \A t \in DOMAIN file \ DOMAIN levels :
           t # <<>> /\ Front(t) \in DOMAIN levels => Pending(t)'
    BY <1>0, <1>1, <1>9 DEF LoadedInv
  <2> QED BY <1>1, <1>8, <1>10, <1>11, <2>1 DEF LoadedInv
<1> QED BY <1>0, <1>1, <1>5, <1>7, <1>12, LoadElse DEF LogInv

LEMMA ApplyLog == ASSUME LogInv, apply_all PROVE LogInv'
<1>0. FileInv /\ TreeInv /\ StackInv /\ LoadedInv /\ Load
  BY DEF LogInv, Load
<1>1. /\ loading = "apply" /\ stack = <<>> /\ Cleared /\ lock = "free"
      /\ registry' = [n \in DOMAIN registry |-> get_level(n)]
      /\ loading' = "idle" /\ outcome' = "loaded"
      /\ UNCHANGED <<levels, lock, getVars, file, stack>>
  BY <1>0 DEF apply_all, StackInv, Cleared
<1>2. FileInv' /\ TreeInv' /\ StackInv'
  BY <1>0, <1>1 DEF FileInv, TreeInv, StackInv, ChildTables
<1>3. LoadedInv'
  BY <1>0, <1>1 DEF LoadedInv, Stated, Pending, Top
<1>4. MakerHoldsLock'
  BY <1>0, ReloadMaker DEF LogInv
<1>5. ASSUME NEW n \in DOMAIN registry
      PROVE  get_level(n) \in Levels /\ get_level(n) = FileLevel(file, n)
  <2>1. n \in Path
    BY NamesArePaths DEF LogInv, LoggersInv
  <2> QED BY <1>0, <1>1, <2>1, GetLevelIs, LevelIsFileLevel
<1>6. LoggersInv'
  BY <1>1, <1>5 DEF LogInv, LoggersInv, getVars
<1>7. \A t \in Threads : found[t] = "none"
  BY <1>1, Alone DEF LogInv
<1>8. AppliedInv'
  BY <1>1, <1>5, <1>7 DEF AppliedInv, getVars
<1> QED BY <1>2, <1>3, <1>4, <1>6, <1>8 DEF LogInv

LEMMA StepLog == LogInv /\ [Next]_vars => LogInv'
<1> SUFFICES ASSUME LogInv, [Next]_vars PROVE LogInv'
  OBVIOUS
<1>1. CASE UNCHANGED vars
  <2>1. FileInv' /\ TreeInv' /\ StackInv' /\ LoadedInv'
    BY <1>1 DEF LogInv, FileInv, TreeInv, StackInv, LoadedInv, Stated,
                ChildTables, Cleared, Pending, Top, vars, reloadVars
  <2>2. LoggersInv' /\ AppliedInv' /\ MakerHoldsLock'
    BY <1>1 DEF LogInv, LoggersInv, AppliedInv, MakerHoldsLock, vars, getVars,
                reloadVars
  <2> QED BY <2>1, <2>2 DEF LogInv
<1> QED BY <1>1, GetLog, ReloadLog, ReadLevelLog, ClearLog, LoadChildLog,
           TableDoneLog, ApplyLog DEF Next, Load

LEMMA SpecLog == Spec => []LogInv
BY InitLog, StepLog, PTL DEF Spec

(* In every state of a reload, under way or failed half way, the hierarchy   *)
(* is a tree with a level at each node: get_level, which takes no lock,      *)
(* never asks a node that is not there (config.h 60-115).                    *)
THEOREM LogConfigTypeCorrect == Spec => []TypeOK
<1>1. LogInv => TypeOK
  <2> SUFFICES ASSUME LogInv PROVE TypeOK
    OBVIOUS
  <2>1. \A i \in 1..Len(stack) : stack[i].rest \subseteq DOMAIN file
    BY DEF LogInv, StackInv, ChildTables
  <2> QED BY <2>1 DEF LogInv, FileInv, TreeInv, StackInv, LoggersInv, TypeOK
<1> QED BY <1>1, SpecLog, PTL

(* For any file, however deep its tables are, in whatever order the hash map *)
(* gives them, and whatever threads ask for meanwhile: after a reload that   *)
(* succeeded every logger has the level of the deepest table on the way to   *)
(* its name, the loggers included that were made while half of the hierarchy *)
(* was there.                                                                *)
THEOREM LoadedLevelsReachLoggers == Spec => []LoadedLevelsApply
<1>1. LogInv => LoadedLevelsApply
  BY DEF LogInv, AppliedInv, LoadedLevelsApply
<1> QED BY <1>1, SpecLog, PTL

-----------------------------------------------------------------------------
(* Values of nested tables: the recursive functions unfold.                  *)

NextValues(n, previous) ==
    Scalars \cup [type : {"array"}, elements : Seq(Elements)]
            \cup IF n = 0 THEN {}
                 ELSE [type : {"table"}, entries : [Keys -> previous \cup {absent}]]

LEMMA ValuesUnfold ==
    \A n \in Nat : Values[n] = NextValues(n, Values[n - 1])
<1> DEFINE Solves(f, n) == \A m \in 0..n : f[m] = NextValues(m, f[m - 1])
           T == {n \in Nat : \E f : Solves(f, n)}
           w == [n \in Nat |-> CHOOSE f : Solves(f, n)]
           F == [n \in Nat |-> w[n][n]]
<1>1. \A p, q : NextValues(0, p) = NextValues(0, q)
  BY DEF NextValues
<1>2. ASSUME NEW n \in Nat, NEW f, Solves(f, n), NEW g, Solves(g, n)
      PROVE  f[n] = g[n]
  <2> DEFINE Q == {m \in Nat : m <= n => f[m] = g[m]}
  <2>1. ASSUME NEW m \in Nat, \A k \in Nat : k < m => k \in Q, m <= n
        PROVE  f[m] = g[m]
    <3>0. m \in 0..n
      BY <2>1
    <3>1. f[m] = NextValues(m, f[m - 1]) /\ g[m] = NextValues(m, g[m - 1])
      BY <3>0, <1>2
    <3>2. CASE m = 0
      BY <3>1, <3>2, <1>1
    <3>3. CASE m # 0
      <4>1. m - 1 \in Nat /\ m - 1 < m /\ m - 1 <= n
        BY <3>3, <2>1
      <4> QED BY <3>1, <4>1, <2>1
    <3> QED BY <3>2, <3>3
  <2>2. \A m \in Nat : (\A k \in Nat : k < m => k \in Q) => m \in Q
    BY <2>1
  <2> HIDE DEF Q
  <2>3. Nat \subseteq Q
    BY <2>2, StrongInduct
  <2> QED BY <2>3 DEF Q
<1>3. ASSUME NEW n \in Nat, \A m \in Nat : m < n => m \in T
      PROVE  n \in T
  <2>1. CASE n = 0
    <3> DEFINE f == [m \in {0} |-> NextValues(0, {})]
    <3>1. \A m \in 0..n : m = 0
      BY <2>1
    <3>2. f[0] = NextValues(0, f[0 - 1])
      BY <1>1
    <3> HIDE DEF f
    <3>3. Solves(f, n)
      BY <3>1, <3>2
    <3> QED BY <3>3
  <2>2. CASE n # 0
    <3>1. n - 1 \in Nat /\ n - 1 < n
      BY <2>2
    <3>2. PICK f : Solves(f, n - 1)
      BY <3>1, <1>3
    <3> DEFINE h == [m \in 0..n |-> IF m = n THEN NextValues(n, f[n - 1])
                                    ELSE f[m]]
    <3>3. ASSUME NEW m \in 0..n PROVE h[m] = NextValues(m, h[m - 1])
      <4>1. CASE m = 0
        <5>1. m \in 0..(n - 1) /\ m # n
          BY <4>1, <2>2
        <5>2. h[m] = NextValues(m, f[m - 1])
          BY <5>1, <3>2
        <5> QED BY <5>2, <4>1, <1>1
      <4>2. CASE m # 0 /\ m # n
        <5>1. m \in 0..(n - 1) /\ m - 1 \in 0..n /\ m - 1 # n
          BY <4>2
        <5>2. h[m - 1] = f[m - 1] /\ h[m] = f[m]
          BY <5>1, <4>2
        <5> HIDE DEF h
        <5> QED BY <5>1, <5>2, <3>2
      <4>3. CASE m = n
        <5>1. n - 1 \in 0..n /\ n - 1 # n
          BY <3>1
        <5>2. h[n - 1] = f[n - 1]
          BY <5>1
        <5>3. h[n] = NextValues(n, f[n - 1])
          OBVIOUS
        <5> HIDE DEF h
        <5> QED BY <5>2, <5>3, <4>3
      <4> QED BY <4>1, <4>2, <4>3
    <3> HIDE DEF h
    <3>4. Solves(h, n)
      BY <3>3
    <3> QED BY <3>4
  <2> QED BY <2>1, <2>2
<1>4. ASSUME NEW n \in Nat PROVE Solves(w[n], n)
  <2>1. n \in T
    <3> HIDE DEF T
    <3> QED BY <1>3, StrongInduct
  <2> HIDE DEF Solves
  <2>2. \E f : Solves(f, n)
    BY <2>1
  <2>3. w[n] = CHOOSE f : Solves(f, n)
    OBVIOUS
  <2> QED BY <2>2, <2>3
<1>5. ASSUME NEW n \in Nat PROVE F[n] = NextValues(n, F[n - 1])
  <2>1. w[n][n] = NextValues(n, w[n][n - 1])
    <3> HIDE DEF w
    <3>1. n \in 0..n
      OBVIOUS
    <3> QED BY <1>4, <3>1
  <2>2. CASE n = 0
    BY <2>1, <2>2, <1>1
  <2>3. CASE n # 0
    <3>1. n - 1 \in Nat
      BY <2>3
    <3>2. Solves(w[n], n - 1)
      <4> HIDE DEF w
      <4>1. \A m \in 0..(n - 1) : m \in 0..n
        OBVIOUS
      <4> QED BY <1>4, <4>1
    <3>3. Solves(w[n - 1], n - 1)
      BY <3>1, <1>4
    <3>4. w[n][n - 1] = w[n - 1][n - 1]
      <4> HIDE DEF w, Solves
      <4> QED BY <3>1, <3>2, <3>3, <1>2
    <3> QED BY <2>1, <3>1, <3>4
  <2> QED BY <2>2, <2>3
<1>6. F = [n \in Nat |-> NextValues(n, F[n - 1])]
  <2>1. F = [n \in Nat |-> F[n]]
    OBVIOUS
  <2> HIDE DEF F
  <2> QED BY <2>1, <1>5
<1> HIDE DEF F
<1>7. Values = CHOOSE f : f = [n \in Nat |-> NextValues(n, f[n - 1])]
  BY DEF Values, NextValues
<1>8. Values = [n \in Nat |-> NextValues(n, Values[n - 1])]
  <2> DEFINE R(f) == f = [n \in Nat |-> NextValues(n, f[n - 1])]
  <2>1. R(F)
    BY <1>6
  <2>2. Values = CHOOSE f : R(f)
    BY <1>7
  <2> HIDE DEF R
  <2>3. R(Values)
    BY <2>1, <2>2
  <2> QED BY <2>3 DEF R
<1> QED BY <1>8

NextMerging(n, previous) ==
    [p \in Results(n) \X Results(n) |->
        merge_values(p[1], p[2], IF n = 0 THEN <<>> ELSE previous)]

LEMMA MergingUnfold ==
    \A n \in Nat : merging[n] = NextMerging(n, merging[n - 1])
<1> DEFINE Solves(f, n) == \A m \in 0..n : f[m] = NextMerging(m, f[m - 1])
           T == {n \in Nat : \E f : Solves(f, n)}
           w == [n \in Nat |-> CHOOSE f : Solves(f, n)]
           F == [n \in Nat |-> w[n][n]]
<1>1. \A p, q : NextMerging(0, p) = NextMerging(0, q)
  BY DEF NextMerging
<1>2. ASSUME NEW n \in Nat, NEW f, Solves(f, n), NEW g, Solves(g, n)
      PROVE  f[n] = g[n]
  <2> DEFINE Q == {m \in Nat : m <= n => f[m] = g[m]}
  <2>1. ASSUME NEW m \in Nat, \A k \in Nat : k < m => k \in Q, m <= n
        PROVE  f[m] = g[m]
    <3>0. m \in 0..n
      BY <2>1
    <3>1. f[m] = NextMerging(m, f[m - 1]) /\ g[m] = NextMerging(m, g[m - 1])
      BY <3>0, <1>2
    <3>2. CASE m = 0
      BY <3>1, <3>2, <1>1
    <3>3. CASE m # 0
      <4>1. m - 1 \in Nat /\ m - 1 < m /\ m - 1 <= n
        BY <3>3, <2>1
      <4> QED BY <3>1, <4>1, <2>1
    <3> QED BY <3>2, <3>3
  <2>2. \A m \in Nat : (\A k \in Nat : k < m => k \in Q) => m \in Q
    BY <2>1
  <2> HIDE DEF Q
  <2>3. Nat \subseteq Q
    BY <2>2, StrongInduct
  <2> QED BY <2>3 DEF Q
<1>3. ASSUME NEW n \in Nat, \A m \in Nat : m < n => m \in T
      PROVE  n \in T
  <2>1. CASE n = 0
    <3> DEFINE f == [m \in {0} |-> NextMerging(0, <<>>)]
    <3>1. \A m \in 0..n : m = 0
      BY <2>1
    <3>2. f[0] = NextMerging(0, f[0 - 1])
      BY <1>1
    <3> HIDE DEF f
    <3>3. Solves(f, n)
      BY <3>1, <3>2
    <3> QED BY <3>3
  <2>2. CASE n # 0
    <3>1. n - 1 \in Nat /\ n - 1 < n
      BY <2>2
    <3>2. PICK f : Solves(f, n - 1)
      BY <3>1, <1>3
    <3> DEFINE h == [m \in 0..n |-> IF m = n THEN NextMerging(n, f[n - 1])
                                    ELSE f[m]]
    <3>3. ASSUME NEW m \in 0..n PROVE h[m] = NextMerging(m, h[m - 1])
      <4>1. CASE m = 0
        <5>1. m \in 0..(n - 1) /\ m # n
          BY <4>1, <2>2
        <5>2. h[m] = NextMerging(m, f[m - 1])
          BY <5>1, <3>2
        <5> QED BY <5>2, <4>1, <1>1
      <4>2. CASE m # 0 /\ m # n
        <5>1. m \in 0..(n - 1) /\ m - 1 \in 0..n /\ m - 1 # n
          BY <4>2
        <5>2. h[m - 1] = f[m - 1] /\ h[m] = f[m]
          BY <5>1, <4>2
        <5> HIDE DEF h
        <5> QED BY <5>1, <5>2, <3>2
      <4>3. CASE m = n
        <5>1. n - 1 \in 0..n /\ n - 1 # n
          BY <3>1
        <5>2. h[n - 1] = f[n - 1]
          BY <5>1
        <5>3. h[n] = NextMerging(n, f[n - 1])
          OBVIOUS
        <5> HIDE DEF h
        <5> QED BY <5>2, <5>3, <4>3
      <4> QED BY <4>1, <4>2, <4>3
    <3> HIDE DEF h
    <3>4. Solves(h, n)
      BY <3>3
    <3> QED BY <3>4
  <2> QED BY <2>1, <2>2
<1>4. ASSUME NEW n \in Nat PROVE Solves(w[n], n)
  <2>1. n \in T
    <3> HIDE DEF T
    <3> QED BY <1>3, StrongInduct
  <2> HIDE DEF Solves
  <2>2. \E f : Solves(f, n)
    BY <2>1
  <2>3. w[n] = CHOOSE f : Solves(f, n)
    OBVIOUS
  <2> QED BY <2>2, <2>3
<1>5. ASSUME NEW n \in Nat PROVE F[n] = NextMerging(n, F[n - 1])
  <2>1. w[n][n] = NextMerging(n, w[n][n - 1])
    <3> HIDE DEF w
    <3>1. n \in 0..n
      OBVIOUS
    <3> QED BY <1>4, <3>1
  <2>2. CASE n = 0
    BY <2>1, <2>2, <1>1
  <2>3. CASE n # 0
    <3>1. n - 1 \in Nat
      BY <2>3
    <3>2. Solves(w[n], n - 1)
      <4> HIDE DEF w
      <4>1. \A m \in 0..(n - 1) : m \in 0..n
        OBVIOUS
      <4> QED BY <1>4, <4>1
    <3>3. Solves(w[n - 1], n - 1)
      BY <3>1, <1>4
    <3>4. w[n][n - 1] = w[n - 1][n - 1]
      <4> HIDE DEF w, Solves
      <4> QED BY <3>1, <3>2, <3>3, <1>2
    <3> QED BY <2>1, <3>1, <3>4
  <2> QED BY <2>2, <2>3
<1>6. F = [n \in Nat |-> NextMerging(n, F[n - 1])]
  <2>1. F = [n \in Nat |-> F[n]]
    OBVIOUS
  <2> HIDE DEF F
  <2> QED BY <2>1, <1>5
<1> HIDE DEF F
<1>7. merging = CHOOSE f : f = [n \in Nat |-> NextMerging(n, f[n - 1])]
  BY DEF merging, NextMerging
<1>8. merging = [n \in Nat |-> NextMerging(n, merging[n - 1])]
  <2> DEFINE R(f) == f = [n \in Nat |-> NextMerging(n, f[n - 1])]
  <2>1. R(F)
    BY <1>6
  <2>2. merging = CHOOSE f : R(f)
    BY <1>7
  <2> HIDE DEF R
  <2>3. R(merging)
    BY <2>1, <2>2
  <2> QED BY <2>3 DEF R
<1> QED BY <1>8

-----------------------------------------------------------------------------
(* What a value and a merge of two can be.                                   *)

\* The entries of a table whose values are nested at most n deep.
Slots(n) == Values[n] \cup {absent}

LEMMA ValueKinds ==
    ASSUME NEW n \in Nat, NEW x \in Values[n]
    PROVE  /\ x.type \notin {"absent", "type_error"}
           /\ x # absent /\ x # type_error
           /\ x.type = "array" => x.elements \in Seq(Elements)
           /\ x.type = "table" => /\ n # 0 /\ n - 1 \in Nat
                                  /\ x.entries \in [Keys -> Slots(n - 1)]
<1>1. x \in NextValues(n, Values[n - 1])
  BY ValuesUnfold
<1>2. CASE x \in Scalars
  BY <1>2, MergingAssumption DEF absent, type_error
<1>3. CASE x \in [type : {"array"}, elements : Seq(Elements)]
  BY <1>3 DEF absent, type_error
<1>4. CASE n # 0 /\ x \in [type : {"table"},
                            entries : [Keys -> Values[n - 1] \cup {absent}]]
  BY <1>4 DEF absent, type_error, Slots
<1> QED BY <1>1, <1>2, <1>3, <1>4 DEF NextValues

LEMMA ArrayIsValue ==
    ASSUME NEW n \in Nat, NEW e \in Seq(Elements)
    PROVE  /\ Array(e) \in Values[n]
           /\ Array(e).type = "array" /\ Array(e).elements = e
<1>1. Array(e) \in NextValues(n, Values[n - 1])
  BY DEF NextValues, Array
<1> QED BY <1>1, ValuesUnfold DEF Array

LEMMA TableIsValue ==
    ASSUME NEW n \in Nat, n # 0, NEW t \in [Keys -> Slots(n - 1)]
    PROVE  /\ Table(t) \in Values[n]
           /\ Table(t).type = "table" /\ Table(t).entries = t
<1>1. Table(t) \in NextValues(n, Values[n - 1])
  BY DEF NextValues, Table, Slots
<1> QED BY <1>1, ValuesUnfold DEF Table

LEMMA MergingOf ==
    ASSUME NEW n \in Nat, NEW x \in Results(n), NEW y \in Results(n)
    PROVE  merging[n][<<x, y>>]
               = merge_values(x, y, IF n = 0 THEN <<>> ELSE merging[n - 1])
BY MergingUnfold DEF NextMerging

\* The merge of two values by their types, and of what is thrown.
LEMMA MergingKinds ==
    ASSUME NEW n \in Nat, NEW x \in Results(n), NEW y \in Results(n)
    PROVE  LET m == merging[n][<<x, y>>]
           IN  /\ x.type # y.type => m = type_error
               /\ x = type_error \/ y = type_error => m = type_error
               /\ x.type = "array" /\ y.type = "array" =>
                      m = Array(x.elements \o y.elements)
               /\ x.type = y.type /\ x.type \notin {"array", "table"} => m = y
               /\ x.type = "table" /\ y.type = "table" /\ n # 0 =>
                      m = Overlaid(x, y, merging[n - 1])
<1> DEFINE below == IF n = 0 THEN <<>> ELSE merging[n - 1]
           m == merging[n][<<x, y>>]
<1>1. m = merge_values(x, y, below)
  BY MergingOf
<1>2. n # 0 => below = merging[n - 1]
  OBVIOUS
<1>3. type_error.type = "type_error"
  BY DEF type_error
<1>4. ASSUME NEW r \in Results(n)
      PROVE  r.type = "type_error" => r = type_error
  BY ValueKinds DEF Results
<1> HIDE DEF m, below
<1>5. x.type # y.type => m = type_error
  BY <1>1 DEF merge_values
<1>6. x.type = "array" /\ y.type = "array" => m = Array(x.elements \o y.elements)
  BY <1>1 DEF merge_values, Combined, Concatenated
<1>7. x.type = y.type /\ x.type \notin {"array", "table"} => m = y
  BY <1>1 DEF merge_values, Combined
<1>8. x.type = "table" /\ y.type = "table" /\ n # 0 =>
          m = Overlaid(x, y, merging[n - 1])
  BY <1>1, <1>2 DEF merge_values, Combined
<1>9. x = type_error \/ y = type_error => m = type_error
  BY <1>3, <1>4, <1>5, <1>7
<1> QED BY <1>5, <1>6, <1>7, <1>8, <1>9 DEF m

\* The entry of a merged table, as Overlaid forms it one level below.
Slot(n, x, y) == Entry(x, y, merging[n])

MayFail(n) == Slots(n) \cup {type_error}

LEMMA SlotKinds ==
    ASSUME NEW n \in Nat, NEW x \in MayFail(n), NEW y \in MayFail(n)
    PROVE  /\ Slot(n, absent, y) = y
           /\ Slot(n, x, absent) = x
           /\ x # absent /\ y # absent =>
                  /\ x \in Results(n) /\ y \in Results(n)
                  /\ Slot(n, x, y) = merging[n][<<x, y>>]
BY DEF Slot, Entry, MayFail, Slots, Results

\* An entry of a merged table is one again, where merges are values again.
LEMMA SlotStays ==
    ASSUME NEW n \in Nat,
           \A x, y \in Results(n) : merging[n][<<x, y>>] \in Results(n),
           NEW u \in MayFail(n), NEW v \in MayFail(n)
    PROVE  Slot(n, u, v) \in MayFail(n)
<1>1. CASE u = absent
  BY <1>1, SlotKinds
<1>2. CASE v = absent
  BY <1>2, SlotKinds
<1>3. CASE u # absent /\ v # absent
  <2>1. /\ u \in Results(n) /\ v \in Results(n)
        /\ Slot(n, u, v) = merging[n][<<u, v>>]
    BY <1>3, SlotKinds
  <2>2. Results(n) \subseteq MayFail(n)
    BY DEF Results, MayFail, Slots
  <2> QED BY <2>1, <2>2
<1> QED BY <1>1, <1>2, <1>3

\* Merging tables is merging their entries.
LEMMA TablesMerge ==
    ASSUME NEW n \in Nat, n # 0, NEW x \in Values[n], NEW y \in Values[n],
           x.type = "table", y.type = "table"
    PROVE  LET m == merging[n][<<x, y>>]
               s == [k \in Keys |-> Slot(n - 1, x.entries[k], y.entries[k])]
           IN  /\ (\E k \in Keys : s[k] = type_error) => m = type_error
               /\ (\A k \in Keys : s[k] # type_error) => m = Table(s)
<1>1. x \in Results(n) /\ y \in Results(n)
  BY DEF Results
<1>2. merging[n][<<x, y>>] = Overlaid(x, y, merging[n - 1])
  BY <1>1, MergingKinds
<1> QED BY <1>2 DEF Overlaid, Slot

\* A merge throws or has the type of both.
LEMMA MergingTyped ==
    \A n \in Nat : \A x, y \in Results(n) :
        LET m == merging[n][<<x, y>>]
        IN  /\ m \in Results(n)
            /\ m # type_error => /\ m.type = x.type /\ m.type = y.type
                                 /\ x \in Values[n] /\ y \in Values[n]
                                 /\ m \in Values[n]
<1> DEFINE Typed(n) == \A x, y \in Results(n) : merging[n][<<x, y>>] \in Results(n)
           T == {n \in Nat : Typed(n)}
<1>1. ASSUME NEW n \in Nat, \A m \in Nat : m < n => m \in T,
             NEW x \in Values[n], NEW y \in Values[n]
      PROVE  merging[n][<<x, y>>] \in Results(n)
  <2> DEFINE m == merging[n][<<x, y>>]
  <2>0. x \in Results(n) /\ y \in Results(n) /\ type_error \in Results(n)
    BY DEF Results
  <2>1. CASE x.type # y.type
    BY <2>0, <2>1, MergingKinds
  <2>2. CASE x.type = "array" /\ y.type = "array"
    <3>1. m = Array(x.elements \o y.elements)
      BY <2>0, <2>2, MergingKinds
    <3>2. x.elements \o y.elements \in Seq(Elements)
      BY <2>2, ValueKinds
    <3> QED BY <3>1, <3>2, ArrayIsValue DEF Results
  <2>3. CASE x.type = "table" /\ y.type = "table"
    <3> DEFINE s == [k \in Keys |-> Slot(n - 1, x.entries[k], y.entries[k])]
    <3>1. /\ n # 0 /\ n - 1 \in Nat /\ n - 1 < n
          /\ x.entries \in [Keys -> Slots(n - 1)]
          /\ y.entries \in [Keys -> Slots(n - 1)]
      BY <2>3, ValueKinds
    <3>2. n - 1 \in T
      BY <3>1, <1>1
    <3>3. ASSUME NEW k \in Keys PROVE s[k] \in MayFail(n - 1)
      <4>1. x.entries[k] \in MayFail(n - 1) /\ y.entries[k] \in MayFail(n - 1)
        BY <3>1 DEF MayFail
      <4>2. \A u, v \in Results(n - 1) : merging[n - 1][<<u, v>>] \in Results(n - 1)
        BY <3>2
      <4> QED BY <3>1, <4>1, <4>2, SlotStays
    <3>4. CASE \E k \in Keys : s[k] = type_error
      BY <2>0, <2>3, <3>1, <3>4, TablesMerge
    <3>5. CASE \A k \in Keys : s[k] # type_error
      <4>1. s \in [Keys -> Slots(n - 1)]
        BY <3>3, <3>5 DEF MayFail
      <4>2. m = Table(s)
        BY <2>3, <3>1, <3>5, TablesMerge
      <4> HIDE DEF s
      <4> QED BY <3>1, <4>1, <4>2, TableIsValue DEF Results
    <3> QED BY <3>4, <3>5
  <2>4. CASE x.type = y.type /\ x.type \notin {"array", "table"}
    BY <2>0, <2>4, MergingKinds
  <2> QED BY <2>1, <2>2, <2>3, <2>4
<1>2. ASSUME NEW n \in Nat, \A m \in Nat : m < n => m \in T
      PROVE  n \in T
  <2>1. ASSUME NEW x \in Results(n), NEW y \in Results(n)
        PROVE  merging[n][<<x, y>>] \in Results(n)
    <3>1. CASE x = type_error \/ y = type_error
      BY <3>1, MergingKinds DEF Results
    <3>2. CASE x \in Values[n] /\ y \in Values[n]
      BY <3>2, <1>1, <1>2
    <3> QED BY <3>1, <3>2 DEF Results
  <2> QED BY <2>1
<1>3. Nat \subseteq T
  <2> HIDE DEF T
  <2> QED BY <1>2, StrongInduct
<1>4. ASSUME NEW n \in Nat, NEW x \in Results(n), NEW y \in Results(n),
             merging[n][<<x, y>>] # type_error
      PROVE  LET m == merging[n][<<x, y>>]
             IN  m.type = x.type /\ m.type = y.type
  <2> DEFINE m == merging[n][<<x, y>>]
  <2>1. x.type = y.type /\ x # type_error /\ y # type_error
    BY <1>4, MergingKinds
  <2>2. CASE x.type = "array"
    <3>1. m = Array(x.elements \o y.elements)
      BY <2>1, <2>2, MergingKinds, ZenonT(30)
    <3> QED BY <2>1, <2>2, <3>1 DEF Array
  <2>3. CASE x.type = "table"
    <3>1. x \in Values[n] /\ y \in Values[n]
      BY <2>1 DEF Results
    <3>2. n # 0
      BY <2>3, <3>1, ValueKinds
    <3>3. m = Table([k \in Keys |-> Slot(n - 1, x.entries[k], y.entries[k])])
      BY <1>4, <2>1, <2>3, <3>1, <3>2, TablesMerge
    <3> QED BY <2>1, <2>3, <3>3 DEF Table
  <2>4. CASE x.type \notin {"array", "table"}
    BY <2>1, <2>4, MergingKinds
  <2> QED BY <2>2, <2>3, <2>4
<1> SUFFICES ASSUME NEW n \in Nat, NEW x \in Results(n), NEW y \in Results(n)
             PROVE  LET m == merging[n][<<x, y>>]
                    IN  /\ m \in Results(n)
                        /\ m # type_error =>
                               /\ m.type = x.type /\ m.type = y.type
                               /\ x \in Values[n] /\ y \in Values[n]
                               /\ m \in Values[n]
  OBVIOUS
<1>5. merging[n][<<x, y>>] \in Results(n)
  BY <1>3
<1>6. x = type_error \/ y = type_error => merging[n][<<x, y>>] = type_error
  BY MergingKinds
<1> QED BY <1>4, <1>5, <1>6 DEF Results

-----------------------------------------------------------------------------
(* Merging is associative.                                                   *)

LEMMA SlotFacts ==
    ASSUME NEW n \in Nat, NEW x \in MayFail(n), NEW y \in MayFail(n)
    PROVE  /\ Slot(n, x, y) \in MayFail(n)
           /\ Slot(n, x, y) = absent <=> x = absent /\ y = absent
           /\ x = type_error \/ y = type_error => Slot(n, x, y) = type_error
<1>1. \A u, v \in Results(n) : merging[n][<<u, v>>] \in Results(n)
  BY MergingTyped
<1>2. Slot(n, x, y) \in MayFail(n)
  BY <1>1, SlotStays
<1>3. \A u \in Results(n) : u # absent
  BY ValueKinds DEF Results, type_error, absent
<1>4. type_error \in Results(n) /\ type_error # absent
  BY DEF Results, type_error, absent
<1>5. CASE x = absent
  BY <1>2, <1>4, <1>5, SlotKinds
<1>6. CASE y = absent
  BY <1>2, <1>4, <1>6, SlotKinds
<1>7. CASE x # absent /\ y # absent
  <2>1. /\ x \in Results(n) /\ y \in Results(n)
        /\ Slot(n, x, y) = merging[n][<<x, y>>]
    BY <1>7, SlotKinds
  <2>2. x = type_error \/ y = type_error => merging[n][<<x, y>>] = type_error
    BY <2>1, MergingKinds
  <2> QED BY <1>1, <1>2, <1>3, <1>7, <2>1, <2>2
<1> QED BY <1>5, <1>6, <1>7

Associates(n) ==
    \A x, y, z \in Results(n) :
        merging[n][<<merging[n][<<x, y>>], z>>]
            = merging[n][<<x, merging[n][<<y, z>>]>>]

LEMMA SlotAssociates ==
    ASSUME NEW n \in Nat, Associates(n),
           NEW x \in MayFail(n), NEW y \in MayFail(n), NEW z \in MayFail(n)
    PROVE  Slot(n, Slot(n, x, y), z) = Slot(n, x, Slot(n, y, z))
<1>0. Slot(n, x, y) \in MayFail(n) /\ Slot(n, y, z) \in MayFail(n)
  BY SlotFacts
<1>1. CASE x = absent
  <2>1. Slot(n, absent, y) = y /\ Slot(n, absent, Slot(n, y, z)) = Slot(n, y, z)
    BY <1>0, SlotKinds, ZenonT(30)
  <2> QED BY <1>1, <2>1
<1>2. CASE y = absent
  <2>1. Slot(n, x, y) = x /\ Slot(n, y, z) = z
    BY <1>2, SlotKinds
  <2> QED BY <2>1
<1>3. CASE z = absent
  <2>1. Slot(n, y, absent) = y /\ Slot(n, Slot(n, x, y), absent) = Slot(n, x, y)
    BY <1>0, SlotKinds
  <2> QED BY <1>3, <2>1
<1>4. CASE x # absent /\ y # absent /\ z # absent
  <2>1. /\ x \in Results(n) /\ y \in Results(n) /\ z \in Results(n)
        /\ Slot(n, x, y) = merging[n][<<x, y>>]
        /\ Slot(n, y, z) = merging[n][<<y, z>>]
    BY <1>4, SlotKinds
  <2>2. Slot(n, x, y) # absent /\ Slot(n, y, z) # absent
    BY <1>4, SlotFacts
  <2>3. Slot(n, Slot(n, x, y), z) = merging[n][<<Slot(n, x, y), z>>]
    BY <1>0, <1>4, <2>2, SlotKinds
  <2>4. Slot(n, x, Slot(n, y, z)) = merging[n][<<x, Slot(n, y, z)>>]
    BY <1>0, <1>4, <2>2, SlotKinds
  <2> QED BY <2>1, <2>3, <2>4 DEF Associates
<1> QED BY <1>1, <1>2, <1>3, <1>4

\* Tables: both groupings have the entries of all three, or fail at a key.
LEMMA TablesAssociate ==
    ASSUME NEW n \in Nat, n # 0, Associates(n - 1),
           NEW x \in Values[n], NEW y \in Values[n], NEW z \in Values[n],
           x.type = "table", y.type = "table", z.type = "table"
    PROVE  merging[n][<<merging[n][<<x, y>>], z>>]
               = merging[n][<<x, merging[n][<<y, z>>]>>]
<1> DEFINE E(u, v) == Slot(n - 1, u, v)
           X == x.entries
           Y == y.entries
           Z == z.entries
           xy == [k \in Keys |-> E(X[k], Y[k])]
           yz == [k \in Keys |-> E(Y[k], Z[k])]
           left == [k \in Keys |-> E(xy[k], Z[k])]
           right == [k \in Keys |-> E(X[k], yz[k])]
           mxy == merging[n][<<x, y>>]
           myz == merging[n][<<y, z>>]
<1>1. /\ n - 1 \in Nat
      /\ X \in [Keys -> Slots(n - 1)]
      /\ Y \in [Keys -> Slots(n - 1)]
      /\ Z \in [Keys -> Slots(n - 1)]
  BY ValueKinds
<1>2. ASSUME NEW k \in Keys
      PROVE  /\ X[k] \in MayFail(n - 1) /\ Y[k] \in MayFail(n - 1)
             /\ Z[k] \in MayFail(n - 1)
             /\ xy[k] \in MayFail(n - 1) /\ yz[k] \in MayFail(n - 1)
             /\ left[k] = right[k]
             /\ xy[k] = type_error => right[k] = type_error
             /\ yz[k] = type_error => left[k] = type_error
  <2>1. /\ X[k] \in MayFail(n - 1) /\ Y[k] \in MayFail(n - 1)
        /\ Z[k] \in MayFail(n - 1)
    BY <1>1 DEF MayFail
  <2>2. /\ xy[k] = E(X[k], Y[k]) /\ yz[k] = E(Y[k], Z[k])
        /\ left[k] = E(xy[k], Z[k]) /\ right[k] = E(X[k], yz[k])
    OBVIOUS
  <2> HIDE DEF X, Y, Z, xy, yz, left, right
  <2>3. xy[k] \in MayFail(n - 1) /\ yz[k] \in MayFail(n - 1)
    BY <1>1, <2>1, <2>2, SlotFacts
  <2>4. left[k] = right[k]
    BY <1>1, <2>1, <2>2, SlotAssociates
  <2>5. /\ xy[k] = type_error => left[k] = type_error
        /\ yz[k] = type_error => right[k] = type_error
    BY <1>1, <2>1, <2>2, <2>3, SlotFacts
  <2> QED BY <2>1, <2>3, <2>4, <2>5
<1>3. /\ (\E k \in Keys : xy[k] = type_error) => mxy = type_error
      /\ (\A k \in Keys : xy[k] # type_error) => mxy = Table(xy)
  BY TablesMerge
<1>4. /\ (\E k \in Keys : yz[k] = type_error) => myz = type_error
      /\ (\A k \in Keys : yz[k] # type_error) => myz = Table(yz)
  BY TablesMerge
<1>5. /\ x \in Results(n) /\ y \in Results(n) /\ z \in Results(n)
      /\ type_error \in Results(n)
      /\ mxy \in Results(n) /\ myz \in Results(n)
  BY MergingTyped DEF Results
<1>6. CASE \E k \in Keys : left[k] = type_error
  <2>1. merging[n][<<mxy, z>>] = type_error
    <3>1. CASE \E k \in Keys : xy[k] = type_error
      <4>1. mxy = type_error
        BY <1>3, <3>1
      <4> HIDE DEF mxy
      <4> QED BY <1>5, <4>1, MergingKinds
    <3>2. CASE \A k \in Keys : xy[k] # type_error
      <4>1. mxy = Table(xy)
        BY <1>3, <3>2
      <4>2. xy \in [Keys -> Slots(n - 1)]
        BY <1>2, <3>2 DEF MayFail
      <4> HIDE DEF mxy, xy
      <4>3. mxy \in Values[n] /\ mxy.type = "table" /\ mxy.entries = xy
        BY <4>1, <4>2, TableIsValue
      <4> QED BY <1>6, <4>3, TablesMerge
    <3> QED BY <3>1, <3>2
  <2>2. merging[n][<<x, myz>>] = type_error
    <3>1. CASE \E k \in Keys : yz[k] = type_error
      <4>1. myz = type_error
        BY <1>4, <3>1
      <4> HIDE DEF myz
      <4> QED BY <1>5, <4>1, MergingKinds
    <3>2. CASE \A k \in Keys : yz[k] # type_error
      <4>1. myz = Table(yz)
        BY <1>4, <3>2
      <4>2. yz \in [Keys -> Slots(n - 1)]
        BY <1>2, <3>2 DEF MayFail
      <4>3. \E k \in Keys : right[k] = type_error
        <5> HIDE DEF left, right
        <5> QED BY <1>2, <1>6
      <4> HIDE DEF myz, yz
      <4>4. myz \in Values[n] /\ myz.type = "table" /\ myz.entries = yz
        BY <4>1, <4>2, TableIsValue
      <4> QED BY <4>3, <4>4, TablesMerge
    <3> QED BY <3>1, <3>2
  <2> QED BY <2>1, <2>2
<1>7. CASE \A k \in Keys : left[k] # type_error
  <2>1. \A k \in Keys : /\ xy[k] # type_error /\ yz[k] # type_error
                        /\ left[k] = right[k] /\ right[k] # type_error
    <3> HIDE DEF left, right, xy, yz
    <3> QED BY <1>2, <1>7
  <2>2. /\ xy \in [Keys -> Slots(n - 1)]
        /\ yz \in [Keys -> Slots(n - 1)]
    BY <1>2, <2>1 DEF MayFail
  <2>3. mxy = Table(xy) /\ myz = Table(yz)
    BY <1>3, <1>4, <2>1
  <2>4. left = right
    <3>1. \A k \in Keys : left[k] = right[k]
      BY <2>1
    <3>2. left = [k \in Keys |-> left[k]] /\ right = [k \in Keys |-> right[k]]
      OBVIOUS
    <3> HIDE DEF left, right
    <3> QED BY <3>1, <3>2
  <2>5. merging[n][<<mxy, z>>] = Table(left)
    <3> HIDE DEF mxy, xy
    <3>1. mxy \in Values[n] /\ mxy.type = "table" /\ mxy.entries = xy
      BY <2>2, <2>3, TableIsValue
    <3> QED BY <1>7, <3>1, TablesMerge
  <2>6. merging[n][<<x, myz>>] = Table(right)
    <3>1. \A k \in Keys : right[k] # type_error
      BY <2>1
    <3> HIDE DEF myz, yz
    <3>2. myz \in Values[n] /\ myz.type = "table" /\ myz.entries = yz
      BY <2>2, <2>3, TableIsValue
    <3> QED BY <3>1, <3>2, TablesMerge
  <2> QED BY <2>4, <2>5, <2>6
<1> QED BY <1>6, <1>7

LEMMA MergingAssociates == \A n \in Nat : Associates(n)
<1> DEFINE T == {n \in Nat : Associates(n)}
<1>1. ASSUME NEW n \in Nat, \A m \in Nat : m < n => m \in T,
             NEW x \in Results(n), NEW y \in Results(n), NEW z \in Results(n)
      PROVE  merging[n][<<merging[n][<<x, y>>], z>>]
                 = merging[n][<<x, merging[n][<<y, z>>]>>]
  <2> DEFINE xy == merging[n][<<x, y>>]
             yz == merging[n][<<y, z>>]
  <2>1. /\ xy \in Results(n) /\ yz \in Results(n)
        /\ xy # type_error => xy.type = x.type /\ xy.type = y.type
        /\ yz # type_error => yz.type = y.type /\ yz.type = z.type
    BY MergingTyped
  <2> DEFINE same == x.type = y.type /\ y.type = z.type
  <2>2. CASE x = type_error \/ y = type_error \/ z = type_error
    <3>1. /\ x = type_error \/ y = type_error => xy = type_error
          /\ y = type_error \/ z = type_error => yz = type_error
      BY MergingKinds
    <3> HIDE DEF xy, yz
    <3>2. /\ xy = type_error \/ z = type_error =>
                 merging[n][<<xy, z>>] = type_error
          /\ x = type_error \/ yz = type_error =>
                 merging[n][<<x, yz>>] = type_error
      BY <2>1, MergingKinds
    <3> QED BY <2>2, <3>1, <3>2 DEF xy, yz
  <2>3. CASE ~same
    <3>1. /\ x.type # y.type => xy = type_error
          /\ y.type # z.type => yz = type_error
      BY MergingKinds
    <3> HIDE DEF xy, yz
    <3>2. /\ xy = type_error \/ xy.type # z.type =>
                 merging[n][<<xy, z>>] = type_error
          /\ yz = type_error \/ x.type # yz.type =>
                 merging[n][<<x, yz>>] = type_error
      BY <2>1, MergingKinds
    <3> QED BY <2>1, <2>3, <3>1, <3>2 DEF xy, yz
  <2>4. CASE /\ same /\ x.type = "array"
             /\ x \in Values[n] /\ y \in Values[n] /\ z \in Values[n]
    <3>1. /\ x.elements \in Seq(Elements) /\ y.elements \in Seq(Elements)
          /\ z.elements \in Seq(Elements)
      BY <2>4, ValueKinds
    <3>2. /\ xy = Array(x.elements \o y.elements)
          /\ yz = Array(y.elements \o z.elements)
      BY <2>4, MergingKinds
    <3>3. /\ x.elements \o y.elements \in Seq(Elements)
          /\ y.elements \o z.elements \in Seq(Elements)
      BY <3>1
    <3> HIDE DEF xy, yz
    <3>4. /\ xy.type = "array" /\ xy.elements = x.elements \o y.elements
          /\ yz.type = "array" /\ yz.elements = y.elements \o z.elements
      BY <3>2, <3>3, ArrayIsValue
    <3>5. /\ merging[n][<<xy, z>>] = Array(xy.elements \o z.elements)
          /\ merging[n][<<x, yz>>] = Array(x.elements \o yz.elements)
      <4>1. x.type = "array" /\ z.type = "array"
        BY <2>4
      <4>2. xy \in Results(n) /\ yz \in Results(n)
        BY <2>1
      <4>3. merging[n][<<xy, z>>] = Array(xy.elements \o z.elements)
        BY <3>4, <4>1, <4>2, MergingKinds
      <4>4. merging[n][<<x, yz>>] = Array(x.elements \o yz.elements)
        BY <3>4, <4>1, <4>2, MergingKinds
      <4> QED BY <4>3, <4>4
    <3>6. (x.elements \o y.elements) \o z.elements
              = x.elements \o (y.elements \o z.elements)
      <4> DEFINE a == x.elements
                 b == y.elements
                 c == z.elements
      <4>1. a \in Seq(Elements) /\ b \in Seq(Elements) /\ c \in Seq(Elements)
        BY <3>1
      <4> HIDE DEF a, b, c
      <4>2. (a \o b) \o c = a \o (b \o c)
        BY ONLY <4>1, ConcatAssociative
      <4> QED BY <4>2 DEF a, b, c
    <3>7. merging[n][<<xy, z>>] = merging[n][<<x, yz>>]
      BY <3>4, <3>5, <3>6
    <3> QED BY <3>7 DEF xy, yz
  <2>5. CASE /\ same /\ x.type = "table"
             /\ x \in Values[n] /\ y \in Values[n] /\ z \in Values[n]
    <3>1. n # 0 /\ n - 1 \in Nat /\ n - 1 < n
      BY <2>5, ValueKinds
    <3>2. Associates(n - 1)
      BY <1>1, <3>1
    <3> QED BY <2>5, <3>1, <3>2, TablesAssociate
  <2>6. CASE /\ same /\ x.type \notin {"array", "table"}
             /\ x \in Values[n] /\ y \in Values[n] /\ z \in Values[n]
    <3>1. xy = y /\ yz = z
      BY <2>6, MergingKinds
    <3> HIDE DEF xy, yz
    <3>2. merging[n][<<xy, z>>] = z /\ merging[n][<<x, yz>>] = yz
      BY <2>1, <2>6, <3>1, MergingKinds
    <3> QED BY <3>1, <3>2 DEF xy, yz
  <2> QED BY <2>2, <2>3, <2>4, <2>5, <2>6 DEF Results
<1>2. ASSUME NEW n \in Nat, \A m \in Nat : m < n => m \in T
      PROVE  n \in T
  BY <1>1, <1>2 DEF Associates
<1>3. Nat \subseteq T
  <2> HIDE DEF T
  <2> QED BY <1>2, StrongInduct
<1> QED BY <1>3

-----------------------------------------------------------------------------
(* Any grouping of the layers gives what merging them one by one gives.      *)

LEMMA MergingFacts ==
    /\ \A x, y \in Results(Depth) : Merging(x, y) \in Results(Depth)
    /\ \A x, y, z \in Results(Depth) :
           Merging(Merging(x, y), z) = Merging(x, Merging(y, z))
    /\ Documents \subseteq Results(Depth)
<1>1. Depth \in Nat
  BY MergingAssumption
<1>2. \A x, y \in Results(Depth) : Merging(x, y) \in Results(Depth)
  BY <1>1, MergingTyped DEF Merging
<1>3. Associates(Depth)
  BY <1>1, MergingAssociates
<1>4. \A x, y, z \in Results(Depth) :
          Merging(Merging(x, y), z) = Merging(x, Merging(y, z))
  BY <1>3 DEF Associates, Merging
<1>5. Documents \subseteq Results(Depth)
  BY MergingAssumption DEF Results
<1> QED BY <1>2, <1>4, <1>5

\* The layers merged from the last to the first.
IsGrouping(g, l) ==
    g = [i \in 0..(Len(l) - 1) |-> IF i = 0 THEN l[Len(l)]
                                   ELSE Merging(l[Len(l) - i], g[i - 1])]

Grouping(l) == CHOOSE g : IsGrouping(g, l)

LEMMA GroupingIs ==
    ASSUME NEW l \in Seq(Documents), l # <<>>
    PROVE  LET n == Len(l)
               g == Grouping(l)
           IN  /\ g[0] = l[n] /\ g[0] \in Results(Depth)
               /\ \A i \in 1..(n - 1) : /\ g[i] = Merging(l[n - i], g[i - 1])
                                        /\ g[i] \in Results(Depth)
<1> DEFINE n == Len(l)
           D == 0..(n - 1)
           S == Results(Depth)
           stop == {0}
           base == [i \in D |-> l[n]]
           h == [i \in D |-> IF i = 0 THEN 0 ELSE i - 1]
           step == [p \in D \X S |-> Merging(l[n - p[1]], p[2])]
<1>1. n \in Nat \ {0} /\ \A i \in 1..n : l[i] \in S
  <2>1. n \in Nat /\ n # 0 /\ \A i \in 1..n : l[i] \in Documents
    OBVIOUS
  <2>2. Documents \subseteq S
    BY MergingFacts
  <2> QED BY <2>1, <2>2
<1>2. RecursionOver(D, S, stop, base, h, step)
  <2>1. D \subseteq Nat /\ 0 \in D
    BY <1>1
  <2>2. base \in [D -> S]
    BY <1>1
  <2>3. h \in [D -> D] /\ \A i \in D \ stop : h[i] < i
    BY <1>1
  <2>4. ASSUME NEW p \in D \X S PROVE Merging(l[n - p[1]], p[2]) \in S
    <3>1. p[1] \in 0..(n - 1) /\ p[2] \in S
      BY <2>4
    <3>2. n - p[1] \in 1..n
      BY <1>1, <3>1
    <3> HIDE DEF S, n
    <3> QED BY <1>1, <3>1, <3>2, MergingFacts DEF S
  <2>5. step \in [D \X S -> S]
    BY <2>4
  <2> HIDE DEF D, base, h, step, stop
  <2> QED BY <2>1, <2>2, <2>3, <2>5 DEF RecursionOver
<1>3. PICK f \in [D -> S] : Computes(f, D, stop, base, h, step)
  BY <1>2, Recursion
<1>4. IsGrouping(f, l)
  <2>1. f = [i \in D |-> f[i]]
    BY <1>3
  <2>2. ASSUME NEW i \in D
        PROVE  f[i] = IF i = 0 THEN l[n] ELSE Merging(l[n - i], f[i - 1])
    <3>1. CASE i = 0
      BY <1>3, <3>1 DEF Computes
    <3>2. CASE i # 0
      <4>0. h[i] = i - 1 /\ i - 1 \in D
        BY <1>1, <3>2
      <4>1. f[i] = step[<<i, f[h[i]]>>]
        <5> HIDE DEF step, h, base, D
        <5> QED BY <1>3, <2>2, <3>2 DEF Computes
      <4>2. f[i - 1] \in S
        BY <4>0
      <4> QED BY <3>2, <4>0, <4>1, <4>2
    <3> QED BY <3>1, <3>2
  <2> QED BY <2>1, <2>2 DEF IsGrouping
<1>5. IsGrouping(Grouping(l), l)
  BY <1>4 DEF Grouping
<1> DEFINE g == Grouping(l)
<1>6. \A i \in D : g[i] = IF i = 0 THEN l[n] ELSE Merging(l[n - i], g[i - 1])
  <2> HIDE DEF g
  <2> QED BY <1>5 DEF IsGrouping, g
<1> HIDE DEF g
<1> DEFINE T == {i \in D : g[i] \in S}
<1>7. ASSUME NEW i \in D, \A j \in D : j < i => j \in T
      PROVE  i \in T
  <2>1. CASE i = 0
    BY <1>1, <1>6, <2>1
  <2>2. CASE i # 0
    <3>1. i - 1 \in D /\ i - 1 < i /\ n - i \in 1..n
      BY <1>1, <2>2
    <3>2. g[i] = Merging(l[n - i], g[i - 1])
      BY <1>6, <2>2
    <3>3. g[i - 1] \in S /\ l[n - i] \in S
      BY <1>1, <1>7, <3>1
    <3> QED BY <3>2, <3>3, MergingFacts
  <2> QED BY <2>1, <2>2
<1>8. D \subseteq T
  <2>1. D \subseteq Nat
    BY <1>1
  <2> HIDE DEF D, T
  <2> QED BY <1>7, <2>1, StrongInduct
<1>9. g[0] = l[n] /\ g[0] \in S
  BY <1>1, <1>6
<1>10. ASSUME NEW i \in 1..(n - 1)
       PROVE  g[i] = Merging(l[n - i], g[i - 1]) /\ g[i] \in S
  <2>1. i \in D /\ i # 0
    BY <1>1
  <2> HIDE DEF D
  <2> QED BY <1>6, <1>8, <2>1
<1> QED BY <1>9, <1>10 DEF g

\* One more layer merges onto each of the groups.
LEMMA GroupingGrows ==
    ASSUME NEW l \in Seq(Documents), l # <<>>, NEW a \in Documents
    PROVE  Grouping(Append(l, a))[Len(l)]
               = Merging(Grouping(l)[Len(l) - 1], a)
<1> DEFINE n == Len(l)
           t == Append(l, a)
           g == Grouping(l)
           k == Grouping(t)
           S == Results(Depth)
           T == {i \in 0..(n - 1) : k[i + 1] = Merging(g[i], a)}
<1>1. /\ n \in Nat \ {0} /\ t \in Seq(Documents) /\ t # <<>>
      /\ Len(t) = n + 1 /\ t[n + 1] = a
      /\ \A i \in 1..n : t[i] = l[i] /\ l[i] \in S
      /\ a \in S
  <2>1. Documents \subseteq S
    BY MergingFacts
  <2>2. n \in Nat \ {0} /\ \A i \in 1..n : l[i] \in Documents
    OBVIOUS
  <2>3. t \in Seq(Documents) /\ Len(t) = n + 1 /\ t[n + 1] = a
    OBVIOUS
  <2>4. \A i \in 1..n : t[i] = l[i]
    OBVIOUS
  <2>5. t # <<>>
    <3> HIDE DEF t
    <3>1. Len(t) # 0
      BY <2>2, <2>3
    <3> QED BY <3>1
  <2> HIDE DEF t, n, S
  <2> QED BY <2>1, <2>2, <2>3, <2>4, <2>5
<1>2. /\ g[0] = l[n] /\ g[0] \in S
      /\ \A i \in 1..(n - 1) : g[i] = Merging(l[n - i], g[i - 1]) /\ g[i] \in S
  BY GroupingIs
<1>3. /\ k[0] = a
      /\ \A i \in 1..n : k[i] = Merging(t[n + 1 - i], k[i - 1])
  <2> HIDE DEF k, t
  <2>1. /\ k[0] = t[Len(t)]
        /\ \A i \in 1..(Len(t) - 1) : k[i] = Merging(t[Len(t) - i], k[i - 1])
    BY <1>1, GroupingIs DEF k
  <2>2. Len(t) - 1 = n
    BY <1>1
  <2> QED BY <1>1, <2>1, <2>2
<1> HIDE DEF g, k, t
<1>4. ASSUME NEW i \in 0..(n - 1), \A j \in 0..(n - 1) : j < i => j \in T
      PROVE  k[i + 1] = Merging(g[i], a)
  <2>1. CASE i = 0
    <3>1. 1 \in 1..n /\ n \in 1..n /\ n + 1 - 1 = n
      BY <1>1
    <3>2. k[1] = Merging(t[n + 1 - 1], k[1 - 1])
      BY <1>3, <3>1
    <3>3. k[1] = Merging(l[n], a)
      BY <1>1, <1>3, <3>1, <3>2
    <3> QED BY <1>2, <2>1, <3>3
  <2>2. CASE i # 0
    <3>1. /\ i \in 1..(n - 1) /\ i + 1 \in 1..n /\ i - 1 \in 0..(n - 1)
          /\ i - 1 < i /\ n + 1 - (i + 1) = n - i /\ i + 1 - 1 = i
          /\ i - 1 + 1 = i /\ n - i \in 1..n
      BY <1>1, <2>2
    <3>2. k[i + 1] = Merging(t[n + 1 - (i + 1)], k[i + 1 - 1])
      BY <1>3, <3>1
    <3>3. k[i + 1] = Merging(l[n - i], k[i])
      BY <1>1, <3>1, <3>2
    <3>4. i - 1 \in T
      BY <1>4, <3>1
    <3>5. k[i] = Merging(g[i - 1], a)
      BY <3>1, <3>4
    <3>6. g[i] = Merging(l[n - i], g[i - 1]) /\ l[n - i] \in S
      BY <1>1, <1>2, <3>1
    <3>7. g[i - 1] \in S
      <4>1. i - 1 = 0 \/ i - 1 \in 1..(n - 1)
        BY <3>1
      <4> QED BY <1>2, <4>1
    <3> HIDE DEF S
    <3>8. Merging(l[n - i], Merging(g[i - 1], a))
              = Merging(Merging(l[n - i], g[i - 1]), a)
      <4> DEFINE x == l[n - i]
                 y == g[i - 1]
      <4>1. x \in Results(Depth) /\ y \in Results(Depth) /\ a \in Results(Depth)
        BY <1>1, <3>6, <3>7 DEF S
      <4> HIDE DEF x, y
      <4>2. Merging(x, Merging(y, a)) = Merging(Merging(x, y), a)
        BY ONLY <4>1, MergingFacts
      <4> QED BY ONLY <4>2 DEF x, y
    <3> QED BY <3>3, <3>5, <3>6, <3>8
  <2> QED BY <2>1, <2>2
<1>5. 0..(n - 1) \subseteq T
  <2>1. 0..(n - 1) \subseteq Nat
    OBVIOUS
  <2>2. \A i \in 0..(n - 1) : (\A j \in 0..(n - 1) : j < i => j \in T) => i \in T
    BY <1>4
  <2> DEFINE D == 0..(n - 1)
  <2>3. D \subseteq Nat /\ \A i \in D : (\A j \in D : j < i => j \in T) => i \in T
    BY <2>1, <2>2
  <2> HIDE DEF T, D
  <2>4. D \subseteq T
    BY ONLY <2>3, StrongInduct
  <2> QED BY ONLY <2>4 DEF D
<1>6. n - 1 \in 0..(n - 1) /\ n - 1 + 1 = n
  BY <1>1
<1>7. k[n - 1 + 1] = Merging(g[n - 1], a)
  BY <1>5, <1>6
<1> QED BY <1>6, <1>7 DEF g, k, t

\* What a merge starts from and comes to.
LayersTyped ==
    /\ layers \in Seq(Documents) /\ layers # <<>>
    /\ merged \in Results(Depth)

LEMMA GroupingIsOf ==
    GroupingDoesNotMatter <=> merged = Grouping(layers)[Len(layers) - 1]
BY DEF GroupingDoesNotMatter, Grouping, IsGrouping

LEMMA MergeInitTyped == MergeInit => LayersTyped
BY MergingFacts DEF MergeInit, LayersTyped

LEMMA MergeTyped ==
    ASSUME LayersTyped, [MergeNext]_mergeVars
    PROVE  LayersTyped'
<1>1. CASE UNCHANGED mergeVars
  BY <1>1 DEF LayersTyped, mergeVars
<1>2. ASSUME NEW addition \in Documents, Merge(addition) PROVE LayersTyped'
  <2>1. layers' = Append(layers, addition) /\ merged' = Merging(merged, addition)
    BY <1>2 DEF Merge
  <2>2. layers \in Seq(Documents) /\ merged \in Results(Depth)
    BY DEF LayersTyped
  <2>3. layers' \in Seq(Documents) /\ Len(layers') = Len(layers) + 1
    BY <2>1, <2>2
  <2>4. layers' # <<>>
    BY <2>2, <2>3
  <2>5. addition \in Results(Depth)
    BY MergingFacts
  <2>6. merged' \in Results(Depth)
    BY <2>1, <2>2, <2>5, MergingFacts
  <2> QED BY <2>3, <2>4, <2>6 DEF LayersTyped
<1> QED BY <1>1, <1>2 DEF MergeNext

\* Merging is associative, also where it fails: to merge the later files with
\* each other first makes no difference, for any files nested to any depth.
THEOREM MergingIsAssociative == MergeSpec => []GroupingDoesNotMatter
<1> DEFINE Inv == LayersTyped /\ GroupingDoesNotMatter
<1>1. MergeInit => Inv
  <2> SUFFICES ASSUME MergeInit PROVE Inv
    OBVIOUS
  <2>1. LayersTyped
    BY MergeInitTyped
  <2>2. Len(layers) = 1 /\ layers[1] = merged
    BY DEF MergeInit
  <2>3. Grouping(layers)[0] = layers[1]
    BY <2>1, <2>2, GroupingIs DEF LayersTyped
  <2> QED BY <2>1, <2>2, <2>3, GroupingIsOf
<1>2. Inv /\ [MergeNext]_mergeVars => Inv'
  <2> SUFFICES ASSUME Inv, [MergeNext]_mergeVars PROVE Inv'
    OBVIOUS
  <2>0. LayersTyped'
    BY MergeTyped
  <2>1. CASE UNCHANGED mergeVars
    BY <2>0, <2>1 DEF GroupingDoesNotMatter, mergeVars
  <2>2. ASSUME NEW addition \in Documents, Merge(addition)
        PROVE  GroupingDoesNotMatter'
    <3>1. /\ layers' = Append(layers, addition)
          /\ merged' = Merging(merged, addition)
      BY <2>2 DEF Merge
    <3>2. /\ layers \in Seq(Documents) /\ layers # <<>>
          /\ merged = Grouping(layers)[Len(layers) - 1]
      BY GroupingIsOf DEF LayersTyped
    <3>3. Len(layers') - 1 = Len(layers)
      BY <3>1, <3>2
    <3>4. merged' = Grouping(layers')[Len(layers')- 1]
      BY <3>1, <3>2, <3>3, GroupingGrows
    <3>5. GroupingDoesNotMatter' <=> merged' = Grouping(layers')[Len(layers') - 1]
      BY DEF GroupingDoesNotMatter, Grouping, IsGrouping
    <3> QED BY <3>4, <3>5
  <2> QED BY <2>0, <2>1, <2>2 DEF MergeNext
<1> QED BY <1>1, <1>2, PTL DEF MergeSpec

-----------------------------------------------------------------------------
(* What is at a path.                                                        *)

Anything == UNION {MayFail(n) : n \in Nat}

LEMMA ChildKinds ==
    ASSUME NEW x \in Anything, NEW key \in Keys
    PROVE  /\ Child(x, key) \in Anything
           /\ x.type # "table" => Child(x, key) = absent
           /\ x.type = "table" => Child(x, key) = x.entries[key]
           /\ absent \in Anything /\ type_error \in Anything
<1>1. absent \in MayFail(0) /\ type_error \in MayFail(0)
  BY DEF MayFail, Slots
<1>2. absent \in Anything /\ type_error \in Anything
  BY <1>1 DEF Anything
<1>3. PICK n \in Nat : x \in MayFail(n)
  BY DEF Anything
<1>4. CASE x.type = "table"
  <2>1. x \in Values[n]
    BY <1>3, <1>4 DEF MayFail, Slots, absent, type_error
  <2>2. n - 1 \in Nat /\ x.entries \in [Keys -> Slots(n - 1)]
    BY <1>4, <2>1, ValueKinds
  <2>3. x.entries[key] \in MayFail(n - 1)
    BY <2>2 DEF MayFail
  <2>4. x.entries[key] \in Anything
    BY <2>2, <2>3 DEF Anything
  <2> QED BY <1>2, <1>4, <2>4 DEF Child
<1>5. CASE x.type # "table"
  BY <1>2, <1>5 DEF Child
<1> QED BY <1>4, <1>5

Walks(v, d, path) ==
    v = [i \in 0..Len(path) |-> IF i = 0 THEN d ELSE Child(v[i - 1], path[i])]

Walk(d, path) == CHOOSE v : Walks(v, d, path)

LEMMA AtIs ==
    ASSUME NEW d \in Anything, NEW path \in Seq(Keys)
    PROVE  LET v == Walk(d, path)
           IN  /\ At(d, path) = v[Len(path)]
               /\ v[0] = d
               /\ \A i \in 1..Len(path) : v[i] = Child(v[i - 1], path[i])
               /\ \A i \in 0..Len(path) : v[i] \in Anything
<1> DEFINE n == Len(path)
           D == 0..n
           S == Anything
           stop == {0}
           base == [i \in D |-> d]
           h == [i \in D |-> IF i = 0 THEN 0 ELSE i - 1]
           step == [p \in D \X S |-> IF p[1] = 0 THEN d ELSE Child(p[2], path[p[1]])]
<1>1. n \in Nat /\ \A i \in 1..n : path[i] \in Keys
  OBVIOUS
<1>2. RecursionOver(D, S, stop, base, h, step)
  <2>1. D \subseteq Nat /\ 0 \in D
    BY <1>1
  <2>2. base \in [D -> S]
    OBVIOUS
  <2>3. h \in [D -> D] /\ \A i \in D \ stop : h[i] < i
    BY <1>1
  <2>4. ASSUME NEW i \in D, NEW x \in S, i # 0 PROVE Child(x, path[i]) \in S
    <3>1. i \in 1..n
      BY <1>1, <2>4
    <3> QED BY <1>1, <3>1, ChildKinds
  <2>5. step \in [D \X S -> S]
    BY <2>4
  <2> HIDE DEF D, base, h, step, stop, S
  <2> QED BY <2>1, <2>2, <2>3, <2>5 DEF RecursionOver
<1>3. PICK f \in [D -> S] : Computes(f, D, stop, base, h, step)
  BY <1>2, Recursion
<1>4. Walks(f, d, path)
  <2>1. f = [i \in D |-> f[i]]
    BY <1>3
  <2>2. ASSUME NEW i \in D
        PROVE  f[i] = IF i = 0 THEN d ELSE Child(f[i - 1], path[i])
    <3>1. CASE i = 0
      BY <1>3, <3>1 DEF Computes
    <3>2. CASE i # 0
      <4>0. h[i] = i - 1 /\ i - 1 \in D
        BY <1>1, <3>2
      <4>1. f[i] = step[<<i, f[h[i]]>>]
        <5> HIDE DEF step, h, base, D
        <5> QED BY <1>3, <2>2, <3>2 DEF Computes
      <4>2. f[i - 1] \in S
        BY <4>0
      <4> QED BY <3>2, <4>0, <4>1, <4>2
    <3> QED BY <3>1, <3>2
  <2> QED BY <2>1, <2>2 DEF Walks
<1>5. Walks(Walk(d, path), d, path)
  BY <1>4 DEF Walk
<1> DEFINE v == Walk(d, path)
<1>6. \A i \in D : v[i] = IF i = 0 THEN d ELSE Child(v[i - 1], path[i])
  <2> HIDE DEF v
  <2> QED BY <1>5 DEF Walks, v
<1>7. At(d, path) = v[n]
  BY DEF At, Walk, Walks
<1> HIDE DEF v
<1> DEFINE T == {i \in D : v[i] \in S}
<1>8. ASSUME NEW i \in D, \A j \in D : j < i => j \in T
      PROVE  i \in T
  <2>1. CASE i = 0
    BY <1>6, <2>1
  <2>2. CASE i # 0
    <3>1. i - 1 \in D /\ i - 1 < i /\ i \in 1..n
      BY <1>1, <2>2
    <3>2. v[i] = Child(v[i - 1], path[i])
      BY <1>6, <2>2
    <3>3. v[i - 1] \in S /\ path[i] \in Keys
      BY <1>1, <1>8, <3>1
    <3> QED BY <3>2, <3>3, ChildKinds
  <2> QED BY <2>1, <2>2
<1>9. D \subseteq T
  <2>1. D \subseteq Nat
    BY <1>1
  <2> HIDE DEF D, T
  <2> QED BY <1>8, <2>1, StrongInduct
<1>10. v[0] = d
  BY <1>1, <1>6
<1>11. ASSUME NEW i \in 1..n PROVE v[i] = Child(v[i - 1], path[i])
  <2>1. i \in D /\ i # 0
    BY <1>1
  <2> HIDE DEF D
  <2> QED BY <1>6, <2>1
<1> QED BY <1>7, <1>9, <1>10, <1>11 DEF v

LEMMA AtNothing ==
    ASSUME NEW d \in Anything
    PROVE  At(d, <<>>) = d
<1> DEFINE none == <<>>
<1>1. none \in Seq(Keys) /\ Len(none) = 0
  OBVIOUS
<1> HIDE DEF none
<1>2. At(d, none) = Walk(d, none)[0] /\ Walk(d, none)[0] = d
  <2> DEFINE v == Walk(d, none)
  <2>1. At(d, none) = v[Len(none)] /\ v[0] = d
    BY ONLY <1>1, AtIs, d \in Anything
  <2> HIDE DEF v
  <2> QED BY ONLY <1>1, <2>1 DEF v
<1> QED BY <1>2 DEF none

\* A path below a key.
LEMMA AtBelow ==
    ASSUME NEW d \in Anything, NEW key \in Keys, NEW path \in Seq(Keys)
    PROVE  /\ <<key>> \o path \in Seq(Keys)
           /\ Len(<<key>> \o path) = Len(path) + 1
           /\ At(d, <<key>> \o path) = At(Child(d, key), path)
<1> DEFINE long == <<key>> \o path
           n == Len(path)
           w == Walk(d, long)
           v == Walk(Child(d, key), path)
           T == {i \in 0..n : w[i + 1] = v[i]}
<1>1. /\ long \in Seq(Keys) /\ n \in Nat /\ Len(long) = n + 1
      /\ long[1] = key /\ \A i \in 1..n : long[i + 1] = path[i]
  OBVIOUS
<1> HIDE DEF long
<1>2. /\ At(d, long) = w[n + 1] /\ w[0] = d
      /\ \A i \in 1..(n + 1) : w[i] = Child(w[i - 1], long[i])
  BY <1>1, AtIs
<1>3. /\ At(Child(d, key), path) = v[n] /\ v[0] = Child(d, key)
      /\ \A i \in 1..n : v[i] = Child(v[i - 1], path[i])
  <2>1. Child(d, key) \in Anything
    BY ChildKinds
  <2> QED BY <2>1, AtIs
<1> HIDE DEF w, v
<1>4. ASSUME NEW i \in 0..n, \A j \in 0..n : j < i => j \in T
      PROVE  w[i + 1] = v[i]
  <2>1. CASE i = 0
    <3>1. 1 \in 1..(n + 1)
      BY <1>1
    <3>2. w[1] = Child(w[1 - 1], long[1])
      BY <1>2, <3>1
    <3> QED BY <1>1, <1>2, <1>3, <2>1, <3>2
  <2>2. CASE i # 0
    <3>1. /\ i + 1 \in 1..(n + 1) /\ i \in 1..n /\ i - 1 \in 0..n /\ i - 1 < i
          /\ i + 1 - 1 = i /\ i - 1 + 1 = i
      BY <1>1, <2>2
    <3>2. w[i + 1] = Child(w[i], long[i + 1])
      BY <1>2, <3>1
    <3>3. w[i] = v[i - 1]
      BY <1>4, <3>1
    <3> QED BY <1>1, <1>3, <3>1, <3>2, <3>3
  <2> QED BY <2>1, <2>2
<1>5. 0..n \subseteq T
  <2>1. 0..n \subseteq Nat
    OBVIOUS
  <2>2. \A i \in 0..n : (\A j \in 0..n : j < i => j \in T) => i \in T
    BY <1>4
  <2> HIDE DEF T
  <2> QED BY <2>1, <2>2, StrongInduct, ZenonT(30)
<1>6. w[n + 1] = v[n]
  BY <1>1, <1>5
<1> QED BY <1>1, <1>2, <1>3, <1>6 DEF long

\* Where a merge throws, the two hold different types at some path.
Split(x, y, path) ==
    /\ At(x, path) # absent /\ At(y, path) # absent
    /\ At(x, path).type # At(y, path).type

LEMMA MergingSplits ==
    \A n \in Nat : \A x, y \in Values[n] :
        merging[n][<<x, y>>] = type_error =>
            \E path \in Seq(Keys) : Len(path) <= n /\ Split(x, y, path)
<1> DEFINE Found(n, x, y) ==
               \E path \in Seq(Keys) : Len(path) <= n /\ Split(x, y, path)
           T == {n \in Nat : \A x, y \in Values[n] :
                                merging[n][<<x, y>>] = type_error => Found(n, x, y)}
<1>1. ASSUME NEW n \in Nat, NEW x \in Values[n]
      PROVE  /\ x \in Anything /\ x # absent /\ x # type_error
             /\ x \in Results(n)
  <2>1. x \in MayFail(n) /\ x \in Results(n)
    BY DEF MayFail, Slots, Results
  <2> QED BY <2>1, ValueKinds DEF Anything
<1>2. ASSUME NEW n \in Nat, \A m \in Nat : m < n => m \in T,
             NEW x \in Values[n], NEW y \in Values[n],
             merging[n][<<x, y>>] = type_error
      PROVE  Found(n, x, y)
  <2>0. /\ x \in Anything /\ x # absent /\ x # type_error /\ x \in Results(n)
        /\ y \in Anything /\ y # absent /\ y # type_error /\ y \in Results(n)
    BY <1>1
  <2>1. CASE x.type # y.type
    <3> DEFINE none == <<>>
    <3>1. none \in Seq(Keys) /\ Len(none) <= n
      OBVIOUS
    <3>2. At(x, none) = x /\ At(y, none) = y
      BY <2>0, AtNothing
    <3> HIDE DEF none
    <3>3. Split(x, y, none)
      BY <2>0, <2>1, <3>2 DEF Split
    <3> QED BY <3>1, <3>3
  <2>2. CASE x.type = y.type
    <3>1. x.type = "table" /\ y.type = "table"
      <4>1. CASE x.type = "array"
        <5>1. merging[n][<<x, y>>] = Array(x.elements \o y.elements)
          BY <2>0, <2>2, <4>1, MergingKinds, ZenonT(30)
        <5> QED BY <1>2, <5>1 DEF Array, type_error
      <4>2. CASE x.type \notin {"array", "table"}
        BY <1>2, <2>0, <2>2, <4>2, MergingKinds
      <4> QED BY <2>2, <4>1, <4>2
    <3>2. /\ n # 0 /\ n - 1 \in Nat /\ n - 1 < n
          /\ x.entries \in [Keys -> Slots(n - 1)]
          /\ y.entries \in [Keys -> Slots(n - 1)]
      BY <3>1, ValueKinds
    <3> DEFINE s == [k \in Keys |-> Slot(n - 1, x.entries[k], y.entries[k])]
    <3>3. PICK k \in Keys : s[k] = type_error
      <4>1. Table(s) # type_error
        BY DEF Table, type_error
      <4>2. (\A k \in Keys : s[k] # type_error) => merging[n][<<x, y>>] = Table(s)
        BY <3>1, <3>2, TablesMerge
      <4> HIDE DEF s
      <4> QED BY <1>2, <4>1, <4>2
    <3> DEFINE u == x.entries[k]
               v == y.entries[k]
    <3>4. u \in Slots(n - 1) /\ v \in Slots(n - 1) /\ Slot(n - 1, u, v) = type_error
      BY <3>2, <3>3
    <3>5. u = Child(x, k) /\ v = Child(y, k)
      BY <3>1 DEF Child
    <3> HIDE DEF u, v
    <3>6. /\ u \in Values[n - 1] /\ v \in Values[n - 1]
          /\ merging[n - 1][<<u, v>>] = type_error
      <4>1. u \in MayFail(n - 1) /\ v \in MayFail(n - 1)
        BY <3>4 DEF MayFail
      <4>2. type_error \notin Slots(n - 1)
        BY <3>2, ValueKinds DEF Slots, absent, type_error
      <4>3. u # absent
        <5>1. Slot(n - 1, absent, v) = v
          BY <3>2, <4>1, SlotKinds
        <5> QED BY <3>4, <4>2, <5>1
      <4>4. v # absent
        <5>1. Slot(n - 1, u, absent) = u
          BY <3>2, <4>1, SlotKinds
        <5> QED BY <3>4, <4>2, <5>1
      <4>5. Slot(n - 1, u, v) = merging[n - 1][<<u, v>>]
        BY <3>2, <4>1, <4>3, <4>4, SlotKinds
      <4> QED BY <3>4, <4>3, <4>4, <4>5 DEF Slots
    <3>7. PICK path \in Seq(Keys) : Len(path) <= n - 1 /\ Split(u, v, path)
      <4>1. n - 1 \in T
        BY <1>2, <3>2
      <4> QED BY <3>6, <4>1
    <3> DEFINE long == <<k>> \o path
    <3>8. /\ long \in Seq(Keys) /\ Len(long) = Len(path) + 1
          /\ At(x, long) = At(u, path) /\ At(y, long) = At(v, path)
      BY <2>0, <3>5, AtBelow
    <3> HIDE DEF long
    <3>9. Split(x, y, long)
      BY <3>7, <3>8 DEF Split
    <3>10. Len(long) <= n
      BY <3>2, <3>7, <3>8
    <3> QED BY <3>8, <3>9, <3>10
  <2> QED BY <2>1, <2>2
<1>3. ASSUME NEW n \in Nat, \A m \in Nat : m < n => m \in T
      PROVE  n \in T
  <2> HIDE DEF Found
  <2> QED BY <1>2, <1>3
<1>4. Nat \subseteq T
  <2> HIDE DEF T
  <2> QED BY <1>3, StrongInduct
<1> QED BY <1>4

\* A merge that does not throw merges what is at each path.
LEMMA MergingAt ==
    ASSUME NEW n \in Nat, NEW x \in Values[n], NEW y \in Values[n],
           merging[n][<<x, y>>] # type_error, NEW path \in Seq(Keys)
    PROVE  \E m \in Nat : /\ At(x, path) \in Slots(m) /\ At(y, path) \in Slots(m)
                          /\ At(merging[n][<<x, y>>], path)
                                 = Slot(m, At(x, path), At(y, path))
                          /\ At(merging[n][<<x, y>>], path) \in Slots(m)
<1> DEFINE r == merging[n][<<x, y>>]
           a == Walk(x, path)
           b == Walk(y, path)
           c == Walk(r, path)
           Merged(i) == \E m \in Nat : /\ a[i] \in Slots(m) /\ b[i] \in Slots(m)
                                       /\ c[i] = Slot(m, a[i], b[i])
                                       /\ c[i] \in Slots(m)
           D == 0..Len(path)
           T == {i \in D : Merged(i)}
<1>1. x \in Results(n) /\ y \in Results(n)
  BY DEF Results
<1>2. r \in Values[n]
  BY <1>1, MergingTyped
<1>3. x \in Slots(n) /\ y \in Slots(n) /\ r \in Slots(n)
  BY <1>2 DEF Slots
<1>4. \A u \in Slots(n) : u \in Anything
  BY DEF MayFail, Anything
<1>5. /\ At(x, path) = a[Len(path)] /\ a[0] = x
      /\ \A i \in 1..Len(path) : a[i] = Child(a[i - 1], path[i])
  BY <1>3, <1>4, AtIs
<1>6. /\ At(y, path) = b[Len(path)] /\ b[0] = y
      /\ \A i \in 1..Len(path) : b[i] = Child(b[i - 1], path[i])
  BY <1>3, <1>4, AtIs
<1>7. /\ At(r, path) = c[Len(path)] /\ c[0] = r
      /\ \A i \in 1..Len(path) : c[i] = Child(c[i - 1], path[i])
  <2> HIDE DEF r
  <2> QED BY <1>3, <1>4, AtIs
<1>8. Merged(0)
  <2>1. x # absent /\ y # absent
    BY ValueKinds
  <2>2. r = Slot(n, x, y)
    BY <1>3, <2>1, SlotKinds DEF MayFail
  <2> HIDE DEF r, a, b, c
  <2> QED BY <1>3, <1>5, <1>6, <1>7, <2>2
<1> HIDE DEF r, a, b, c
<1>9. ASSUME NEW m \in Nat, NEW u \in Slots(m), NEW v \in Slots(m),
             Slot(m, u, v) \in Slots(m), NEW k \in Keys
      PROVE  \E l \in Nat : /\ Child(u, k) \in Slots(l) /\ Child(v, k) \in Slots(l)
                            /\ Child(Slot(m, u, v), k)
                                   = Slot(l, Child(u, k), Child(v, k))
                            /\ Child(Slot(m, u, v), k) \in Slots(l)
  <2>1. /\ u \in MayFail(m) /\ v \in MayFail(m) /\ absent \in MayFail(m)
        /\ absent \in Slots(m)
    BY DEF MayFail, Slots
  <2>2. absent.type # "table" /\ type_error.type # "table"
    BY DEF absent, type_error
  <2>3. \A w : w.type # "table" => Child(w, k) = absent
    BY DEF Child
  <2>4. \A w \in Slots(m) : w.type = "table" =>
            /\ w \in Values[m] /\ m # 0 /\ m - 1 \in Nat
            /\ Child(w, k) = w.entries[k] /\ Child(w, k) \in Slots(m - 1)
    <3> SUFFICES ASSUME NEW w \in Slots(m), w.type = "table"
                 PROVE  /\ w \in Values[m] /\ m # 0 /\ m - 1 \in Nat
                        /\ Child(w, k) = w.entries[k]
                        /\ Child(w, k) \in Slots(m - 1)
      OBVIOUS
    <3>1. w \in Values[m]
      BY <2>2 DEF Slots
    <3> QED BY <3>1, ValueKinds DEF Child
  <2>5. \A l \in Nat : \A w \in Slots(l) :
            Slot(l, absent, w) = w /\ Slot(l, w, absent) = w
    BY SlotKinds DEF MayFail
  <2>6. \A l \in Nat : absent \in Slots(l)
    BY DEF Slots
  <2>7. CASE u = absent
    <3>1. Slot(m, u, v) = v /\ Child(u, k) = absent
      BY <2>2, <2>3, <2>5, <2>7
    <3>2. CASE v.type = "table"
      BY <2>4, <2>5, <2>6, <3>1, <3>2
    <3>3. CASE v.type # "table"
      BY <2>3, <2>5, <2>6, <3>1, <3>3
    <3> QED BY <3>2, <3>3
  <2>8. CASE v = absent
    <3>1. Slot(m, u, v) = u /\ Child(v, k) = absent
      BY <2>2, <2>3, <2>5, <2>8
    <3>2. CASE u.type = "table"
      BY <2>4, <2>5, <2>6, <3>1, <3>2
    <3>3. CASE u.type # "table"
      BY <2>3, <2>5, <2>6, <3>1, <3>3
    <3> QED BY <3>2, <3>3
  <2>9. CASE u # absent /\ v # absent
    <3> DEFINE w == Slot(m, u, v)
    <3>1. /\ u \in Results(m) /\ v \in Results(m) /\ w = merging[m][<<u, v>>]
      BY <2>1, <2>9, SlotKinds
    <3>2. w # type_error
      <4>1. type_error \notin Slots(m)
        BY ValueKinds DEF Slots, absent, type_error
      <4> QED BY <1>9, <4>1
    <3>3. w.type = u.type /\ w.type = v.type
      BY <3>1, <3>2, MergingTyped
    <3>4. CASE u.type = "table"
      <4>1. /\ u \in Values[m] /\ v \in Values[m] /\ m # 0 /\ m - 1 \in Nat
            /\ Child(u, k) = u.entries[k] /\ Child(v, k) = v.entries[k]
            /\ Child(w, k) = w.entries[k]
            /\ Child(u, k) \in Slots(m - 1) /\ Child(v, k) \in Slots(m - 1)
            /\ Child(w, k) \in Slots(m - 1)
        <5> HIDE DEF w
        <5>1. w \in Slots(m)
          BY <1>9 DEF w
        <5> QED BY <2>4, <3>3, <3>4, <5>1
      <4> DEFINE s == [j \in Keys |-> Slot(m - 1, u.entries[j], v.entries[j])]
      <4>2. w = Table(s)
        <5>1. /\ (\E j \in Keys : s[j] = type_error) =>
                     merging[m][<<u, v>>] = type_error
              /\ (\A j \in Keys : s[j] # type_error) =>
                     merging[m][<<u, v>>] = Table(s)
          BY <3>3, <3>4, <4>1, TablesMerge, ZenonT(30)
        <5> HIDE DEF s, w
        <5> QED BY <3>1, <3>2, <5>1
      <4>3. w.entries[k] = s[k]
        <5> HIDE DEF s, w
        <5> QED BY <4>2 DEF Table
      <4>4. s[k] = Slot(m - 1, Child(u, k), Child(v, k))
        BY <4>1
      <4> QED BY <4>1, <4>3, <4>4
    <3>5. CASE u.type # "table"
      <4>1. /\ Child(u, k) = absent /\ Child(v, k) = absent
            /\ Child(w, k) = absent
        <5> HIDE DEF w
        <5> QED BY <2>3, <3>3, <3>5
      <4>2. Slot(m, absent, absent) = absent
        BY <2>1, <2>5
      <4> QED BY <2>1, <4>1, <4>2
    <3> QED BY <3>4, <3>5
  <2> QED BY <2>7, <2>8, <2>9
<1>10. ASSUME NEW i \in D, \A j \in D : j < i => j \in T
       PROVE  Merged(i)
  <2>1. CASE i = 0
    <3> HIDE DEF Merged
    <3> QED BY <1>8, <2>1
  <2>2. CASE i # 0
    <3>1. i - 1 \in D /\ i - 1 < i /\ i \in 1..Len(path) /\ path[i] \in Keys
      BY <2>2
    <3>2. PICK m \in Nat : /\ a[i - 1] \in Slots(m) /\ b[i - 1] \in Slots(m)
                           /\ c[i - 1] = Slot(m, a[i - 1], b[i - 1])
                           /\ c[i - 1] \in Slots(m)
      BY <1>10, <3>1
    <3>3. /\ a[i] = Child(a[i - 1], path[i]) /\ b[i] = Child(b[i - 1], path[i])
          /\ c[i] = Child(c[i - 1], path[i])
      BY <1>5, <1>6, <1>7, <3>1
    <3>4. PICK l \in Nat :
              /\ Child(a[i - 1], path[i]) \in Slots(l)
              /\ Child(b[i - 1], path[i]) \in Slots(l)
              /\ Child(c[i - 1], path[i])
                     = Slot(l, Child(a[i - 1], path[i]), Child(b[i - 1], path[i]))
              /\ Child(c[i - 1], path[i]) \in Slots(l)
      <4> DEFINE u == a[i - 1]
                 v == b[i - 1]
                 k == path[i]
      <4>1. /\ u \in Slots(m) /\ v \in Slots(m) /\ k \in Keys
            /\ Slot(m, u, v) \in Slots(m) /\ c[i - 1] = Slot(m, u, v)
        BY <3>1, <3>2
      <4> HIDE DEF u, v, k
      <4>2. \E l \in Nat : /\ Child(u, k) \in Slots(l) /\ Child(v, k) \in Slots(l)
                          /\ Child(Slot(m, u, v), k)
                                 = Slot(l, Child(u, k), Child(v, k))
                          /\ Child(Slot(m, u, v), k) \in Slots(l)
        BY ONLY <1>9, <4>1, m \in Nat
      <4> QED BY ONLY <4>1, <4>2 DEF u, v, k
    <3> QED BY <3>3, <3>4
  <2> QED BY <2>1, <2>2
<1>11. D \subseteq T
  <2>1. D \subseteq Nat
    OBVIOUS
  <2>2. \A i \in D : (\A j \in D : j < i => j \in T) => i \in T
    <3> HIDE DEF Merged
    <3> QED BY <1>10
  <2> HIDE DEF T, D
  <2> QED BY <2>1, <2>2, StrongInduct
<1>12. Merged(Len(path))
  <2>1. Len(path) \in D
    OBVIOUS
  <2> HIDE DEF Merged
  <2> QED BY <1>11, <2>1
<1> QED BY <1>5, <1>6, <1>7, <1>12 DEF r

\* The same by the kinds of value.
LEMMA MergedAt ==
    ASSUME NEW x \in Values[Depth], NEW y \in Values[Depth],
           Merging(x, y) # type_error, NEW path \in Seq(Keys)
    PROVE  LET u == At(x, path)
               v == At(y, path)
               r == At(Merging(x, y), path)
           IN  /\ u = absent => r = v
               /\ v = absent => r = u
               /\ u # absent /\ v # absent =>
                      /\ r # absent /\ r.type = u.type /\ r.type = v.type
                      /\ r.type = "array" => r.elements = u.elements \o v.elements
                      /\ r.type \notin {"array", "table"} => r = v
<1> DEFINE u == At(x, path)
           v == At(y, path)
           r == At(Merging(x, y), path)
<1>1. Depth \in Nat
  BY MergingAssumption
<1>2. PICK m \in Nat : /\ u \in Slots(m) /\ v \in Slots(m)
                       /\ r = Slot(m, u, v) /\ r \in Slots(m)
  BY <1>1, MergingAt DEF Merging
<1> HIDE DEF u, v, r
<1>3. u \in MayFail(m) /\ v \in MayFail(m) /\ r # type_error
  BY <1>2, ValueKinds DEF MayFail, Slots, absent, type_error
<1>4. u = absent => r = v
  <2>1. Slot(m, absent, v) = v
    BY <1>3, SlotKinds
  <2> QED BY <1>2, <2>1
<1>5. v = absent => r = u
  <2>1. Slot(m, u, absent) = u
    BY <1>3, SlotKinds
  <2> QED BY <1>2, <2>1
<1>6. ASSUME u # absent, v # absent
      PROVE  /\ r # absent /\ r.type = u.type /\ r.type = v.type
             /\ r.type = "array" => r.elements = u.elements \o v.elements
             /\ r.type \notin {"array", "table"} => r = v
  <2>1. u \in Results(m) /\ v \in Results(m) /\ r = merging[m][<<u, v>>]
    BY <1>2, <1>3, <1>6, SlotKinds
  <2>2. r.type = u.type /\ r.type = v.type
    BY <1>3, <2>1, MergingTyped
  <2>3. r # absent
    BY <1>2, <1>3, <1>6, SlotFacts
  <2>4. CASE r.type = "array"
    <3>0. u.type = "array" /\ v.type = "array"
      BY <2>2, <2>4
    <3>1. r = Array(u.elements \o v.elements)
      BY <2>1, <3>0, MergingKinds
    <3>2. u \in Values[m] /\ v \in Values[m]
      BY <1>2, <1>6 DEF Slots
    <3>3. u.elements \in Seq(Elements) /\ v.elements \in Seq(Elements)
      BY <3>0, <3>2, ValueKinds
    <3>4. r.elements = u.elements \o v.elements
      <4>1. u.elements \o v.elements \in Seq(Elements)
        BY <3>3
      <4> QED BY <3>1, <4>1, ArrayIsValue
    <3> QED BY <2>2, <2>3, <2>4, <3>4
  <2>5. CASE r.type \notin {"array", "table"}
    <3>0. u.type = v.type /\ u.type \notin {"array", "table"}
      BY <2>2, <2>5
    <3>1. r = v
      BY <2>1, <3>0, MergingKinds
    <3> QED BY <2>2, <2>3, <2>5, <3>1
  <2> QED BY <2>2, <2>3, <2>4, <2>5
<1> QED BY <1>4, <1>5, <1>6 DEF u, v, r

-----------------------------------------------------------------------------
(* A configuration is its layers, laid over each other.                      *)

LEMMA PathsAre == \A path : path \in Paths <=>
                      path \in Seq(Keys) /\ Len(path) <= Depth
<1>1. Depth \in Nat
  BY MergingAssumption
<1>2. ASSUME NEW path \in Paths PROVE path \in Seq(Keys) /\ Len(path) <= Depth
  <2>1. PICK m \in 0..Depth : path \in [1..m -> Keys]
    BY DEF Paths, BoundedSeq, SeqOf
  <2>2. m \in Nat /\ m <= Depth
    BY <1>1, <2>1
  <2>3. path \in Seq(Keys) /\ Len(path) = m
    BY <2>1, <2>2
  <2> QED BY <2>2, <2>3
<1>3. ASSUME NEW path \in Seq(Keys), Len(path) <= Depth PROVE path \in Paths
  <2>1. Len(path) \in 0..Depth /\ path \in [1..Len(path) -> Keys]
    BY <1>1, <1>3
  <2> QED BY <2>1 DEF Paths, BoundedSeq, SeqOf
<1> QED BY <1>2, <1>3

Having(l, path) == {i \in 1..Len(l) : At(l[i], path) # absent}

Agreeing(l, path) ==
    \A i, j \in Having(l, path) : At(l[i], path).type = At(l[j], path).type

LastOf(l, path) ==
    CHOOSE i \in Having(l, path) : \A j \in Having(l, path) : j <= i

Gathers(e, l, path) ==
    e = [i \in 0..Len(l) |->
            IF i = 0 THEN <<>>
            ELSE IF i \notin Having(l, path) THEN e[i - 1]
            ELSE e[i - 1] \o At(l[i], path).elements]

Gathered(l, path) == CHOOSE e : Gathers(e, l, path)

Overlays(l, m, path) ==
    LET value == At(m, path)
        last  == LastOf(l, path)
    IN  /\ value # absent <=> Having(l, path) # {}
        /\ Having(l, path) # {} =>
               /\ value.type = At(l[last], path).type
               /\ value.type = "array" =>
                      value.elements = Gathered(l, path)[Len(l)]
               /\ value.type \notin {"array", "table"} =>
                      value = At(l[last], path)

LEMMA LayersOverlayIs ==
    LayersOverlay <=>
        IF \A path \in Paths : Agreeing(layers, path)
        THEN \A path \in Paths : Overlays(layers, merged, path)
        ELSE merged = type_error
<1>1. \A path : AllElements(path) = Gathered(layers, path)[Len(layers)]
  BY DEF AllElements, Gathered, Gathers, With, Having
<1>2. \A path : Agreeing(layers, path) <=>
          \A i, j \in With(path) :
              At(layers[i], path).type = At(layers[j], path).type
  BY DEF Agreeing, With, Having
<1>3. \A path : LastOf(layers, path)
                    = CHOOSE i \in With(path) : \A j \in With(path) : j <= i
  BY DEF LastOf, With, Having
<1>4. \A path : Having(layers, path) = With(path)
  BY DEF With, Having
<1> QED BY <1>1, <1>2, <1>3, <1>4 DEF LayersOverlay, Overlays

\* What the layers hold at a path.
LEMMA LayerAt ==
    ASSUME NEW d \in Documents, NEW path \in Seq(Keys)
    PROVE  /\ d \in Values[Depth] /\ At(d, path) \in Anything
           /\ At(d, path).type = "array" => At(d, path).elements \in Seq(Elements)
<1>1. Depth \in Nat /\ d \in Values[Depth]
  BY MergingAssumption
<1>2. d \in Anything
  BY <1>1 DEF Anything, MayFail, Slots
<1>3. At(d, path) \in Anything
  BY <1>2, AtIs
<1>4. ASSUME At(d, path).type = "array"
      PROVE  At(d, path).elements \in Seq(Elements)
  <2>1. PICK n \in Nat : At(d, path) \in MayFail(n)
    BY <1>3 DEF Anything
  <2>2. At(d, path) \in Values[n]
    BY <1>4, <2>1 DEF MayFail, Slots, absent, type_error
  <2> QED BY <1>4, <2>2, ValueKinds
<1> QED BY <1>1, <1>3, <1>4

LEMMA GatheredIs ==
    ASSUME NEW l \in Seq(Documents), NEW path \in Seq(Keys),
           \A i \in Having(l, path) : At(l[i], path).type = "array"
    PROVE  LET e == Gathered(l, path)
           IN  /\ e[0] = <<>>
               /\ \A i \in 1..Len(l) :
                      e[i] = IF i \notin Having(l, path) THEN e[i - 1]
                             ELSE e[i - 1] \o At(l[i], path).elements
               /\ \A i \in 0..Len(l) : e[i] \in Seq(Elements)
<1> DEFINE n == Len(l)
           D == 0..n
           S == Seq(Elements)
           H == Having(l, path)
           stop == {0}
           base == [i \in D |-> <<>>]
           h == [i \in D |-> IF i = 0 THEN 0 ELSE i - 1]
           step == [p \in D \X S |->
                       IF p[1] \notin H THEN p[2]
                       ELSE p[2] \o At(l[p[1]], path).elements]
<1>1. n \in Nat /\ \A i \in 1..n : l[i] \in Documents
  OBVIOUS
<1>2. \A i \in H : i \in 1..n /\ At(l[i], path).elements \in S
  <2>1. \A i \in H : i \in 1..n /\ At(l[i], path).type = "array"
    BY DEF Having
  <2> HIDE DEF S, H
  <2> QED BY <1>1, <2>1, LayerAt DEF S
<1> HIDE DEF H
<1>3. RecursionOver(D, S, stop, base, h, step)
  <2>1. D \subseteq Nat /\ 0 \in D
    BY <1>1
  <2>2. base \in [D -> S]
    OBVIOUS
  <2>3. h \in [D -> D] /\ \A i \in D \ stop : h[i] < i
    BY <1>1
  <2>4. ASSUME NEW i \in H, NEW x \in S PROVE x \o At(l[i], path).elements \in S
    BY <1>2
  <2>5. step \in [D \X S -> S]
    <3> HIDE DEF S
    <3> QED BY <2>4
  <2> HIDE DEF D, base, h, step, stop, S
  <2> QED BY <2>1, <2>2, <2>3, <2>5 DEF RecursionOver
<1>4. PICK f \in [D -> S] : Computes(f, D, stop, base, h, step)
  BY <1>3, Recursion
<1>5. Gathers(f, l, path)
  <2>1. f = [i \in D |-> f[i]]
    BY <1>4
  <2>2. ASSUME NEW i \in D
        PROVE  f[i] = IF i = 0 THEN <<>>
                      ELSE IF i \notin H THEN f[i - 1]
                      ELSE f[i - 1] \o At(l[i], path).elements
    <3>1. CASE i = 0
      <4>1. f[i] = base[i]
        <5> HIDE DEF step, h, base, D
        <5> QED BY <1>4, <2>2, <3>1 DEF Computes
      <4> QED BY <3>1, <4>1
    <3>2. CASE i # 0
      <4>0. h[i] = i - 1 /\ i - 1 \in D
        BY <1>1, <3>2
      <4>1. f[i] = step[<<i, f[h[i]]>>]
        <5> HIDE DEF step, h, base, D
        <5> QED BY <1>4, <2>2, <3>2 DEF Computes
      <4>2. f[i - 1] \in S
        BY <4>0
      <4> HIDE DEF S
      <4> QED BY <3>2, <4>0, <4>1, <4>2
    <3> QED BY <3>1, <3>2
  <2> QED BY <2>1, <2>2 DEF Gathers, H
<1>6. Gathers(Gathered(l, path), l, path)
  BY <1>5 DEF Gathered
<1> DEFINE e == Gathered(l, path)
<1>7. \A i \in D : e[i] = IF i = 0 THEN <<>>
                          ELSE IF i \notin H THEN e[i - 1]
                          ELSE e[i - 1] \o At(l[i], path).elements
  <2> HIDE DEF e
  <2> QED BY <1>6 DEF Gathers, e, H
<1> HIDE DEF e
<1> DEFINE T == {i \in D : e[i] \in S}
<1>8. ASSUME NEW i \in D, \A j \in D : j < i => j \in T
      PROVE  i \in T
  <2>1. CASE i = 0
    <3>1. e[i] = <<>>
      BY <1>7, <2>1
    <3>2. <<>> \in S
      OBVIOUS
    <3> HIDE DEF S
    <3> QED BY <3>1, <3>2
  <2>2. CASE i # 0
    <3>1. i - 1 \in D /\ i - 1 < i
      BY <1>1, <2>2
    <3>2. e[i - 1] \in S
      BY <1>8, <3>1
    <3>3. CASE i \notin H
      BY <1>7, <2>2, <3>2, <3>3
    <3>4. CASE i \in H
      <4>1. e[i] = e[i - 1] \o At(l[i], path).elements
        BY <1>7, <2>2, <3>4
      <4>2. At(l[i], path).elements \in S
        BY <1>2, <3>4
      <4>3. e[i - 1] \o At(l[i], path).elements \in S
        BY <3>2, <4>2
      <4> HIDE DEF S
      <4> QED BY <4>1, <4>3
    <3> QED BY <3>3, <3>4
  <2> QED BY <2>1, <2>2
<1>9. D \subseteq T
  <2>1. D \subseteq Nat
    BY <1>1
  <2> HIDE DEF D, T
  <2> QED BY <1>8, <2>1, StrongInduct
<1>10. e[0] = <<>>
  BY <1>1, <1>7
<1>11. ASSUME NEW i \in 1..n
       PROVE  e[i] = IF i \notin H THEN e[i - 1]
                     ELSE e[i - 1] \o At(l[i], path).elements
  <2>1. i \in D /\ i # 0
    BY <1>1
  <2> HIDE DEF D
  <2> QED BY <1>7, <2>1
<1> QED BY <1>9, <1>10, <1>11 DEF e, H

\* One more layer.
LEMMA HavingGrows ==
    ASSUME NEW l \in Seq(Documents), NEW a \in Documents, NEW path
    PROVE  LET n == Len(l)
               t == Append(l, a)
           IN  /\ n \in Nat /\ t \in Seq(Documents) /\ Len(t) = n + 1
               /\ t[n + 1] = a /\ \A i \in 1..n : t[i] = l[i]
               /\ Having(l, path) \subseteq 1..n
               /\ At(a, path) = absent => Having(t, path) = Having(l, path)
               /\ At(a, path) # absent =>
                      Having(t, path) = Having(l, path) \cup {n + 1}
<1> DEFINE n == Len(l)
           t == Append(l, a)
<1>1. /\ n \in Nat /\ t \in Seq(Documents) /\ Len(t) = n + 1
      /\ t[n + 1] = a /\ \A i \in 1..n : t[i] = l[i]
  OBVIOUS
<1> HIDE DEF n, t
<1>2. Having(l, path) = {i \in 1..n : At(l[i], path) # absent}
  BY DEF Having, n
<1>3. Having(t, path) = {i \in 1..(n + 1) : At(t[i], path) # absent}
  BY <1>1 DEF Having
<1>4. \A i : i \in 1..(n + 1) <=> i \in 1..n \/ i = n + 1
  BY <1>1
<1>5. \A i : i \in Having(t, path) <=>
                 i \in Having(l, path) \/ (i = n + 1 /\ At(a, path) # absent)
  BY <1>1, <1>2, <1>3, <1>4
<1>6. Having(l, path) \subseteq 1..n
  BY <1>2
<1>7. At(a, path) = absent => Having(t, path) = Having(l, path)
  BY <1>5
<1>8. At(a, path) # absent => Having(t, path) = Having(l, path) \cup {n + 1}
  BY <1>5
<1> QED BY <1>1, <1>6, <1>7, <1>8 DEF n, t

LEMMA GatheredGrows ==
    ASSUME NEW l \in Seq(Documents), NEW a \in Documents, NEW path \in Seq(Keys),
           \A i \in Having(Append(l, a), path) :
               At(Append(l, a)[i], path).type = "array"
    PROVE  LET n == Len(l)
               e == Gathered(l, path)
               f == Gathered(Append(l, a), path)
           IN  /\ At(a, path) = absent => f[n + 1] = e[n]
               /\ At(a, path) # absent => f[n + 1] = e[n] \o At(a, path).elements
               /\ e[n] \in Seq(Elements)
               /\ Having(l, path) = {} => e[n] = <<>>
<1> DEFINE n == Len(l)
           t == Append(l, a)
           e == Gathered(l, path)
           f == Gathered(t, path)
           T == {i \in 0..n : f[i] = e[i]}
           N == {i \in 0..n : Having(l, path) = {} => e[i] = <<>>}
<1>1. /\ n \in Nat /\ t \in Seq(Documents) /\ Len(t) = n + 1
      /\ t[n + 1] = a /\ \A i \in 1..n : t[i] = l[i]
      /\ Having(l, path) \subseteq 1..n
      /\ At(a, path) = absent => Having(t, path) = Having(l, path)
      /\ At(a, path) # absent => Having(t, path) = Having(l, path) \cup {n + 1}
  BY HavingGrows
<1>2. \A i \in Having(t, path) : At(t[i], path).type = "array"
  OBVIOUS
<1> HIDE DEF t
<1>3. \A i \in Having(l, path) : At(l[i], path).type = "array"
  BY <1>1, <1>2
<1>4. /\ e[0] = <<>>
      /\ \A i \in 1..n : e[i] = IF i \notin Having(l, path) THEN e[i - 1]
                                ELSE e[i - 1] \o At(l[i], path).elements
      /\ \A i \in 0..n : e[i] \in Seq(Elements)
  BY <1>3, GatheredIs
<1>5. /\ f[0] = <<>>
      /\ \A i \in 1..(n + 1) :
             f[i] = IF i \notin Having(t, path) THEN f[i - 1]
                    ELSE f[i - 1] \o At(t[i], path).elements
  BY <1>1, <1>2, GatheredIs
<1> HIDE DEF e, f, n
<1>6. \A i \in 1..n : i \in Having(t, path) <=> i \in Having(l, path)
  <2>1. \A i \in 1..n : i # n + 1
    BY <1>1
  <2> QED BY <1>1, <2>1
<1>7. ASSUME NEW i \in 0..n, \A j \in 0..n : j < i => j \in T
      PROVE  f[i] = e[i]
  <2>1. CASE i = 0
    BY <1>4, <1>5, <2>1
  <2>2. CASE i # 0
    <3>1. i \in 1..n /\ i \in 1..(n + 1) /\ i - 1 \in 0..n /\ i - 1 < i
      BY <1>1, <2>2
    <3>2. f[i - 1] = e[i - 1] /\ t[i] = l[i]
      BY <1>1, <1>7, <3>1
    <3>3. f[i] = IF i \notin Having(l, path) THEN e[i - 1]
                 ELSE e[i - 1] \o At(l[i], path).elements
      BY <1>5, <1>6, <3>1, <3>2
    <3> QED BY <1>4, <3>1, <3>3
  <2> QED BY <2>1, <2>2
<1>8. 0..n \subseteq T
  <2>1. 0..n \subseteq Nat
    OBVIOUS
  <2>2. \A i \in 0..n : (\A j \in 0..n : j < i => j \in T) => i \in T
    BY <1>7
  <2> HIDE DEF T
  <2> QED BY <2>1, <2>2, StrongInduct, ZenonT(30)
<1>9. 0..n \subseteq N
  <2>1. 0..n \subseteq Nat
    OBVIOUS
  <2>2. ASSUME NEW i \in 0..n, \A j \in 0..n : j < i => j \in N,
               Having(l, path) = {}
        PROVE  e[i] = <<>>
    <3>1. CASE i = 0
      BY <1>4, <3>1
    <3>2. CASE i # 0
      <4>1. i \in 1..n /\ i - 1 \in 0..n /\ i - 1 < i
        BY <1>1, <3>2
      <4> QED BY <1>4, <2>2, <4>1
    <3> QED BY <3>1, <3>2
  <2>3. \A i \in 0..n : (\A j \in 0..n : j < i => j \in N) => i \in N
    BY <2>2
  <2> HIDE DEF N
  <2> QED BY <2>1, <2>3, StrongInduct, ZenonT(30)
<1>10. n \in 0..n /\ n + 1 \in 1..(n + 1) /\ n + 1 - 1 = n /\ n + 1 \notin 1..n
  BY <1>1
<1>11. f[n] = e[n] /\ e[n] \in Seq(Elements)
  BY <1>4, <1>8, <1>10
<1>12. Having(l, path) = {} => e[n] = <<>>
  BY <1>9, <1>10
<1>13. f[n + 1] = IF n + 1 \notin Having(t, path) THEN f[n]
                  ELSE f[n] \o At(t[n + 1], path).elements
  BY <1>5, <1>10
<1>14. n + 1 \in Having(t, path) <=> At(a, path) # absent
  BY <1>1, <1>10
<1> QED BY <1>1, <1>11, <1>12, <1>13, <1>14 DEF e, f, n, t

LEMMA LastIs ==
    ASSUME NEW l \in Seq(Documents), NEW path, Having(l, path) # {}
    PROVE  /\ LastOf(l, path) \in Having(l, path)
           /\ \A j \in Having(l, path) : j <= LastOf(l, path)
<1> DEFINE n == Len(l)
           H == Having(l, path)
           D == {n - i : i \in H}
<1>1. n \in Nat /\ H \subseteq 1..n
  BY DEF Having
<1> HIDE DEF H, n
<1>2. D \subseteq Nat /\ D # {}
  BY <1>1 DEF H
<1>3. PICK d \in D : \A m \in D : d <= m
  BY <1>2, LeastNumber
<1>4. PICK i \in H : d = n - i
  OBVIOUS
<1>5. ASSUME NEW j \in H PROVE j <= i
  <2>1. i \in Nat /\ j \in Nat
    BY <1>1
  <2>2. n - i <= n - j
    BY <1>3, <1>4
  <2> QED BY <1>1, <2>1, <2>2
<1> QED BY <1>5 DEF LastOf, H

\* Laid on top of what the layers hold, the next file keeps it and adds its own.
LEMMA OverlayGrows ==
    ASSUME NEW l \in Seq(Documents), NEW m \in Values[Depth], NEW a \in Documents,
           Merging(m, a) # type_error, NEW path \in Seq(Keys),
           Agreeing(l, path), Overlays(l, m, path)
    PROVE  /\ Agreeing(Append(l, a), path)
           /\ Overlays(Append(l, a), Merging(m, a), path)
<1> DEFINE n == Len(l)
           t == Append(l, a)
           r == Merging(m, a)
           u == At(m, path)
           v == At(a, path)
           w == At(r, path)
           H == Having(l, path)
           G == Having(t, path)
           last == LastOf(l, path)
           e == Gathered(l, path)
           f == Gathered(t, path)
<1>1. /\ n \in Nat /\ t \in Seq(Documents) /\ Len(t) = n + 1
      /\ t[n + 1] = a /\ \A i \in 1..n : t[i] = l[i]
      /\ H \subseteq 1..n
      /\ v = absent => G = H
      /\ v # absent => G = H \cup {n + 1}
  BY HavingGrows
<1>2. /\ u = absent => w = v
      /\ v = absent => w = u
      /\ u # absent /\ v # absent =>
             /\ w # absent /\ w.type = u.type /\ w.type = v.type
             /\ w.type = "array" => w.elements = u.elements \o v.elements
             /\ w.type \notin {"array", "table"} => w = v
  <2>1. a \in Values[Depth]
    BY LayerAt
  <2> QED BY <2>1, MergedAt
<1>3. /\ u # absent <=> H # {}
      /\ H # {} => /\ u.type = At(l[last], path).type
                   /\ u.type = "array" => u.elements = e[n]
                   /\ u.type \notin {"array", "table"} => u = At(l[last], path)
  BY DEF Overlays
<1>4. H # {} => last \in H
  BY LastIs
<1>5. \A i, j \in H : At(l[i], path).type = At(l[j], path).type
  BY DEF Agreeing
<1>6. (\A i \in G : At(t[i], path).type = "array") =>
          /\ v = absent => f[n + 1] = e[n]
          /\ v # absent => f[n + 1] = e[n] \o v.elements
          /\ H = {} => e[n] = <<>>
  <2> SUFFICES ASSUME \A i \in G : At(t[i], path).type = "array"
               PROVE  /\ v = absent => f[n + 1] = e[n]
                      /\ v # absent => f[n + 1] = e[n] \o v.elements
                      /\ H = {} => e[n] = <<>>
    OBVIOUS
  <2> QED BY GatheredGrows
<1>7. v.type = "array" => v.elements \in Seq(Elements)
  BY LayerAt
<1>8. v # absent => LastOf(t, path) = n + 1
  <2> SUFFICES ASSUME v # absent PROVE LastOf(t, path) = n + 1
    OBVIOUS
  <2>1. G # {} /\ n + 1 \in G
    BY <1>1
  <2>2. LastOf(t, path) \in G /\ n + 1 <= LastOf(t, path)
    <3> HIDE DEF t, n
    <3> QED BY <1>1, <2>1, LastIs
  <2>3. \A i \in G : i \in 1..n \/ i = n + 1
    BY <1>1
  <2> HIDE DEF G, t, H, n
  <2>4. LastOf(t, path) \in 1..n \/ LastOf(t, path) = n + 1
    BY <2>2, <2>3
  <2> QED BY <1>1, <2>2, <2>4
<1>9. v = absent => LastOf(t, path) = last
  BY <1>1 DEF LastOf
<1>10. /\ \A i \in H : t[i] = l[i] /\ i # n + 1
       /\ t[n + 1] = a
  <2>1. \A i \in 1..n : i # n + 1
    BY <1>1
  <2> QED BY <1>1, <2>1
<1>11. Overlays(t, r, path) <=>
           /\ w # absent <=> G # {}
           /\ G # {} =>
                  /\ w.type = At(t[LastOf(t, path)], path).type
                  /\ w.type = "array" => w.elements = f[n + 1]
                  /\ w.type \notin {"array", "table"} =>
                         w = At(t[LastOf(t, path)], path)
  BY <1>1 DEF Overlays
<1>12. Agreeing(t, path) <=>
           \A i, j \in G : At(t[i], path).type = At(t[j], path).type
  BY DEF Agreeing
<1> HIDE DEF n, t, r, u, v, w, H, G, last, e, f
<1>13. CASE v = absent
  <2>1. /\ G = H /\ w = u /\ LastOf(t, path) = last
        /\ \A i \in H : t[i] = l[i]
    BY <1>1, <1>2, <1>9, <1>10, <1>13
  <2>2. Agreeing(t, path)
    BY <1>5, <1>12, <2>1
  <2>3. H # {} => t[last] = l[last]
    BY <1>4, <2>1
  <2>4. H # {} /\ w.type = "array" => w.elements = f[n + 1]
    <3> SUFFICES ASSUME H # {}, w.type = "array" PROVE w.elements = f[n + 1]
      OBVIOUS
    <3>1. \A i \in G : At(t[i], path).type = "array"
      BY <1>3, <1>4, <1>5, <2>1
    <3> QED BY <1>3, <1>6, <1>13, <2>1, <3>1
  <2> QED BY <1>3, <1>11, <2>1, <2>2, <2>3, <2>4 DEF r, t
<1>14. CASE v # absent /\ H = {}
  <2>1. G = {n + 1} /\ w = v /\ LastOf(t, path) = n + 1 /\ At(t[n + 1], path) = v
    BY <1>1, <1>2, <1>3, <1>8, <1>14 DEF v
  <2>2. Agreeing(t, path)
    BY <1>12, <2>1
  <2>3. w.type = "array" => w.elements = f[n + 1]
    <3> SUFFICES ASSUME w.type = "array" PROVE w.elements = f[n + 1]
      OBVIOUS
    <3>1. f[n + 1] = <<>> \o v.elements
      BY <1>6, <1>14, <2>1
    <3>2. v.elements \in Seq(Elements)
      BY <1>7, <2>1
    <3>3. <<>> \o v.elements = v.elements
      BY <3>2
    <3> QED BY <2>1, <3>1, <3>3
  <2> QED BY <1>11, <1>14, <2>1, <2>2, <2>3 DEF r, t
<1>15. CASE v # absent /\ H # {}
  <2>1. /\ G = H \cup {n + 1} /\ LastOf(t, path) = n + 1
        /\ At(t[n + 1], path) = v
        /\ u # absent /\ w # absent /\ w.type = u.type /\ w.type = v.type
        /\ w.type = "array" => w.elements = u.elements \o v.elements
        /\ w.type \notin {"array", "table"} => w = v
    BY <1>1, <1>2, <1>3, <1>8, <1>15 DEF v
  <2>2. \A i \in G : At(t[i], path).type = v.type
    BY <1>3, <1>4, <1>5, <1>10, <1>15, <2>1
  <2>3. Agreeing(t, path)
    BY <1>12, <2>2
  <2>4. w.type = "array" => w.elements = f[n + 1]
    BY <1>3, <1>6, <1>15, <2>1, <2>2
  <2> QED BY <1>11, <2>1, <2>3, <2>4 DEF r, t
<1> QED BY <1>13, <1>14, <1>15

\* A merge that throws has met two layers that disagree.
LEMMA OverlaySplits ==
    ASSUME NEW l \in Seq(Documents), NEW m \in Values[Depth], NEW a \in Documents,
           Merging(m, a) = type_error,
           \A path \in Paths : Agreeing(l, path) /\ Overlays(l, m, path)
    PROVE  \E path \in Paths : ~Agreeing(Append(l, a), path)
<1> DEFINE n == Len(l)
           t == Append(l, a)
<1>1. Depth \in Nat /\ a \in Values[Depth]
  BY MergingAssumption
<1>2. PICK path \in Seq(Keys) : Len(path) <= Depth /\ Split(m, a, path)
  BY <1>1, MergingSplits DEF Merging
<1>3. path \in Paths
  BY <1>2, PathsAre
<1> DEFINE H == Having(l, path)
           G == Having(t, path)
           last == LastOf(l, path)
<1>4. /\ At(a, path) # absent /\ H # {}
      /\ At(m, path).type = At(l[last], path).type
      /\ At(m, path).type # At(a, path).type
  BY <1>2, <1>3 DEF Split, Overlays
<1>5. /\ last \in H /\ H \subseteq 1..n /\ G = H \cup {n + 1}
      /\ t[n + 1] = a /\ \A i \in 1..n : t[i] = l[i]
  BY <1>4, LastIs, HavingGrows
<1> HIDE DEF t, H, G, last, n
<1>6. At(t[last], path).type # At(t[n + 1], path).type
  BY <1>4, <1>5
<1>7. last \in G /\ n + 1 \in G
  BY <1>5
<1>8. ~Agreeing(t, path)
  BY <1>6, <1>7 DEF Agreeing, G
<1> QED BY <1>3, <1>8 DEF t

\* The first file is laid over nothing.
LEMMA OverlayStarts ==
    ASSUME NEW d \in Documents, NEW path \in Seq(Keys)
    PROVE  Agreeing(<<d>>, path) /\ Overlays(<<d>>, d, path)
<1> DEFINE l == <<d>>
           H == Having(l, path)
           u == At(d, path)
           e == Gathered(l, path)
<1>1. l \in Seq(Documents) /\ Len(l) = 1 /\ l[1] = d /\ 1..Len(l) = {1}
  OBVIOUS
<1> HIDE DEF l
<1>2. /\ u = absent => H = {}
      /\ u # absent => H = {1}
  BY <1>1 DEF Having
<1>3. Agreeing(l, path)
  BY <1>2 DEF Agreeing
<1>4. H # {} => LastOf(l, path) = 1
  BY <1>1, <1>2, LastIs
<1>5. H # {} /\ u.type = "array" => u.elements = e[1]
  <2> SUFFICES ASSUME H # {}, u.type = "array" PROVE u.elements = e[1]
    OBVIOUS
  <2>1. \A i \in H : At(l[i], path).type = "array"
    BY <1>1, <1>2
  <2>2. 1 \in H
    BY <1>2
  <2>3. e[0] = <<>> /\ e[1] = e[1 - 1] \o At(l[1], path).elements
    <3>1. 1 \in 1..Len(l)
      BY <1>1
    <3> QED BY <1>1, <2>1, <2>2, <3>1, GatheredIs
  <2>4. u.elements \in Seq(Elements)
    BY LayerAt
  <2>5. e[1] = <<>> \o u.elements
    <3>1. 1 - 1 = 0 /\ At(l[1], path) = u
      BY <1>1
    <3> HIDE DEF u, e
    <3> QED BY <2>3, <3>1
  <2>6. <<>> \o u.elements = u.elements
    BY <2>4
  <2> QED BY <2>5, <2>6
<1>6. Overlays(l, d, path)
  <2> HIDE DEF u, H, e
  <2> QED BY <1>1, <1>2, <1>4, <1>5 DEF Overlays, u, H, e
<1> QED BY <1>3, <1>6 DEF l

\* Path by path: a merge of any number of files, nested to any depth, fails
\* exactly when two of them hold different types at one path, and otherwise
\* holds at each path what they hold there: the last scalar, all elements.
THEOREM MergeOverlays == MergeSpec => []LayersOverlay
<1> DEFINE Inv == LayersTyped /\ LayersOverlay
<1>1. MergeInit => Inv
  <2> SUFFICES ASSUME MergeInit PROVE Inv
    OBVIOUS
  <2>1. PICK d \in Documents : layers = <<d>> /\ merged = d
    BY DEF MergeInit
  <2>2. \A path \in Paths : Agreeing(layers, path) /\ Overlays(layers, merged, path)
    BY <2>1, PathsAre, OverlayStarts
  <2> QED BY <2>2, MergeInitTyped, LayersOverlayIs
<1>2. Inv /\ [MergeNext]_mergeVars => Inv'
  <2> SUFFICES ASSUME Inv, [MergeNext]_mergeVars PROVE Inv'
    OBVIOUS
  <2>0. LayersTyped'
    BY MergeTyped
  <2>1. LayersOverlay' <=>
            IF \A path \in Paths : Agreeing(layers', path)
            THEN \A path \in Paths : Overlays(layers', merged', path)
            ELSE merged' = type_error
    <3>1. \A path : AllElements(path)' = Gathered(layers', path)[Len(layers')]
      BY DEF AllElements, Gathered, Gathers, With, Having
    <3>2. \A path : Having(layers', path) = With(path)'
      BY DEF With, Having
    <3>3. \A path : LastOf(layers', path)
                        = CHOOSE i \in With(path)' : \A j \in With(path)' : j <= i
      BY DEF LastOf, With, Having
    <3>4. \A path : Agreeing(layers', path) <=>
              \A i, j \in With(path)' :
                  At(layers'[i], path).type = At(layers'[j], path).type
      BY DEF Agreeing, With, Having
    <3>5. ASSUME NEW path
          PROVE  Overlays(layers', merged', path) <=>
                     LET value == At(merged', path)
                         last  == CHOOSE i \in With(path)' :
                                      \A j \in With(path)' : j <= i
                     IN  /\ value # absent <=> With(path)' # {}
                         /\ With(path)' # {} =>
                                /\ value.type = At(layers'[last], path).type
                                /\ value.type = "array" =>
                                       value.elements = AllElements(path)'
                                /\ value.type \notin {"array", "table"} =>
                                       value = At(layers'[last], path)
      <4>1. /\ Having(layers', path) = With(path)'
            /\ Gathered(layers', path)[Len(layers')] = AllElements(path)'
            /\ LastOf(layers', path)
                   = CHOOSE i \in With(path)' : \A j \in With(path)' : j <= i
        BY <3>1, <3>2, <3>3
      <4> QED BY ONLY <4>1 DEF Overlays
    <3> QED BY ONLY <3>4, <3>5 DEF LayersOverlay
  <2>2. CASE UNCHANGED mergeVars
    <3>1. layers' = layers /\ merged' = merged
      BY <2>2 DEF mergeVars
    <3>2. LayersOverlay'
      BY <2>1, <3>1, LayersOverlayIs
    <3> QED BY <2>0, <3>2
  <2>3. ASSUME NEW addition \in Documents, Merge(addition)
        PROVE  LayersOverlay'
    <3>1. /\ layers' = Append(layers, addition)
          /\ merged' = Merging(merged, addition)
          /\ layers \in Seq(Documents)
          /\ merged \in Values[Depth]
      BY <2>3 DEF Merge, LayersTyped, Results
    <3>2. \A path \in Paths :
              Agreeing(layers, path) /\ Overlays(layers, merged, path)
      BY <2>3, LayersOverlayIs DEF Merge
    <3>3. CASE merged' # type_error
      <4>1. \A path \in Paths :
                Agreeing(layers', path) /\ Overlays(layers', merged', path)
        BY <3>1, <3>2, <3>3, PathsAre, OverlayGrows
      <4> QED BY <2>1, <4>1
    <3>4. CASE merged' = type_error
      <4>1. \E path \in Paths : ~Agreeing(layers', path)
        BY <3>1, <3>2, <3>4, OverlaySplits
      <4> QED BY <2>1, <3>4, <4>1
    <3> QED BY <3>3, <3>4
  <2> QED BY <2>0, <2>2, <2>3 DEF MergeNext
<1> QED BY <1>1, <1>2, PTL DEF MergeSpec
=============================================================================
