------------------------ MODULE RevisionCommandProofs ------------------------
(***************************************************************************)
(* What holds of the commands of qrafter-migrations and of the files they  *)
(* share, for any number of commands, comments, runs and seconds.          *)
(***************************************************************************)
EXTENDS RevisionCommand, TLAPS, SequenceTheorems

\* Appending an element adds it to the set.
LEMMA AppendToSet ==
  ASSUME NEW S, NEW s \in Seq(S), NEW e \in S
  PROVE  ToSet(Append(s, e)) = ToSet(s) \cup {e}
<1> DEFINE t == Append(s, e)
<1>1. /\ t \in Seq(S) /\ Len(t) = Len(s) + 1 /\ Len(s) \in Nat
      /\ \A i \in 1 .. Len(s) : t[i] = s[i]
      /\ t[Len(s) + 1] = e
  BY AppendProperties
<1>2. DOMAIN t = 1 .. Len(s) + 1 /\ DOMAIN s = 1 .. Len(s)
  BY <1>1
<1> HIDE DEF t
<1>3. ToSet(t) = ToSet(s) \cup {e}
  BY <1>1, <1>2 DEF ToSet
<1> QED
  BY <1>3 DEF t

-----------------------------------------------------------------------------
(* Type correctness.                                                       *)

\* A child that has not taken a name, or has ended, works with nothing.
LEMMA NoJobType == NoJob \in [version : Times, comment : Comments, registry : Seq(Times)]
<1>1. (CHOOSE c \in Comments : TRUE) \in Comments /\ 0 \in Times
  BY CommandAssumption DEF Times
<1>2. <<>> \in Seq(Times)
  OBVIOUS
<1> QED
  BY <1>1, <1>2 DEF NoJob

\* Before the first command.
LEMMA InitType == Init => TypeOK
<1> SUFFICES ASSUME Init PROVE TypeOK
  OBVIOUS
<1>1. 0 \in Times /\ 0 \in 0 .. MaxRuns
  BY CommandAssumption DEF Times
<1>2. <<>> \in Seq(Times)
  OBVIOUS
<1>4. job \in [Commands -> [version : Times, comment : Comments, registry : Seq(Times)]]
  BY NoJobType, Zenon DEF Init
<1>5. PackageOK
  BY <1>1, <1>2, <1>4 DEF Init, PackageOK, ChildPlaces
<1>6. DirectoriesOK
  BY <1>1 DEF Init, DirectoriesOK, Places
<1>7. overlapped \in BOOLEAN /\ crashed \in BOOLEAN
  BY Zenon DEF Init
<1> QED
  BY <1>5, <1>6, <1>7 DEF TypeOK

\* Steps that make and remove directories.
LEMMA DirectoriesType ==
  ASSUME TypeOK, NEW c \in Commands, Directories(c)
  PROVE  TypeOK'
<1> USE DEF DirectoriesOK
<1>1. UNCHANGED <<now, package, run, child, job, runs, history>> /\ DirectoriesOK
  BY DEF Directories, TypeOK
<1>2. run[c] \in 0 .. runs /\ (pc[c] # "idle" => run[c] \in 1 .. runs)
  BY <1>1
<1>3. ASSUME NEW p \in Places, GoTo(c, p), pc[c] # "idle"
      PROVE  /\ pc' \in [Commands -> Places]
             /\ \A d \in Commands : pc'[d] # "idle" => run'[d] # 0
  BY <1>1, <1>2, <1>3 DEF GoTo
<1>4. ASSUME DirectoriesOK' PROVE TypeOK'
  BY <1>1, <1>4 DEF TypeOK, PackageOK, package, history
<1>5. Root # Tmp
  BY DEF Root, Tmp
<1>6. CASE StatRoot(c)
  BY <1>1, <1>3, <1>4, <1>6 DEF StatRoot, shared, Places
<1>7. CASE MakeRoot(c)
  BY <1>1, <1>3, <1>4, <1>7 DEF MakeRoot, Places
<1>8. CASE MakeTmp(c)
  BY <1>1, <1>3, <1>4, <1>8 DEF MakeTmp, Places
<1>9. CASE MakeTemp(c)
  BY <1>1, <1>2, <1>3, <1>4, <1>9 DEF MakeTemp, Places
<1>10. CASE RemoveTemp(c)
  BY <1>1, <1>3, <1>4, <1>10 DEF RemoveTemp, Places
<1>11. CASE RemoveTmp(c)
  BY <1>1, <1>3, <1>4, <1>5, <1>11 DEF RemoveTmp, Places
<1>12. CASE RemoveRoot(c)
  BY <1>1, <1>3, <1>4, <1>5, <1>12 DEF RemoveRoot, Places
<1> QED
  BY <1>6, <1>7, <1>8, <1>9, <1>10, <1>11, <1>12 DEF Directories

\* Steps of a child.
LEMMA ChildType ==
  ASSUME TypeOK, NEW c \in Commands, MakeMigration(c)
  PROVE  TypeOK'
<1> DEFINE Job == [version : Times, comment : Comments, registry : Seq(Times)]
<1>1. UNCHANGED <<now, shared, pc, run, runs, history>> /\ PackageOK
  BY DEF MakeMigration, TypeOK
<1>2. ASSUME PackageOK' PROVE TypeOK'
  BY <1>1, <1>2 DEF TypeOK, DirectoriesOK, shared, history
<1>3. NoJob \in Job
  BY NoJobType
<1>4. ASSUME NEW p \in ChildPlaces, ChildGoes(c, p) PROVE child' \in [Commands -> ChildPlaces]
  BY <1>1, <1>4 DEF ChildGoes, PackageOK
<1>5. ASSUME NEW p \in ChildPlaces, ChildEnds(c, p)
      PROVE  child' \in [Commands -> ChildPlaces] /\ job' \in [Commands -> Job]
  BY <1>1, <1>3, <1>4, <1>5 DEF ChildEnds, PackageOK
<1>6. Name(c) \in [version : Times, comment : Comments]
  BY <1>1 DEF Name, PackageOK
<1>7. CASE TakeName(c)
  <2>1. PICK t \in Comments :
          job' = [job EXCEPT ![c] = [NoJob EXCEPT !.version = now, !.comment = t]]
    BY <1>7 DEF TakeName
  <2>2. [NoJob EXCEPT !.version = now, !.comment = t] \in Job
    BY <1>1, <1>3 DEF PackageOK
  <2>3. job' \in [Commands -> Job]
    BY <1>1, <2>1, <2>2 DEF PackageOK
  <2> QED
    BY <1>1, <1>2, <1>4, <1>7, <2>3 DEF TakeName, PackageOK, package, ChildPlaces
<1>8. CASE ReadSchemas(c)
  BY <1>1, <1>2, <1>4, <1>5, <1>8 DEF ReadSchemas, PackageOK, package, ChildPlaces
<1>9. CASE CreateMigration(c)
  <2>1. CASE ChildEnds(c, "err") /\ UNCHANGED files
    BY <1>1, <1>2, <1>5, <1>9, <2>1 DEF CreateMigration, PackageOK, ChildPlaces
  <2>2. CASE files' = WithFile(Name(c)) /\ ChildGoes(c, "write") /\ UNCHANGED job
    <3>1. /\ DOMAIN files' = DOMAIN files \cup {Name(c)}
          /\ files' \in [DOMAIN files' -> BOOLEAN]
      BY <2>2 DEF WithFile
    <3> QED
      BY <1>1, <1>2, <1>4, <1>6, <1>9, <2>2, <3>1 DEF CreateMigration, PackageOK, ChildPlaces
  <2> QED
    BY <1>9, <2>1, <2>2 DEF CreateMigration
<1>10. CASE WriteMigration(c)
  BY <1>1, <1>2, <1>4, <1>10 DEF WriteMigration, PackageOK, ChildPlaces
<1>11. CASE ReadConfig(c)
  <2>1. CASE job' = [job EXCEPT ![c].registry = config.registry] /\ ChildGoes(c, "truncate")
    <3>1. [job[c] EXCEPT !.registry = config.registry] \in Job
      BY <1>1 DEF PackageOK
    <3>2. job' = [job EXCEPT ![c] = [job[c] EXCEPT !.registry = config.registry]]
      BY <2>1
    <3>3. job' \in [Commands -> Job]
      BY <1>1, <3>1, <3>2 DEF PackageOK
    <3> QED
      BY <1>1, <1>2, <1>4, <1>11, <2>1, <3>3 DEF ReadConfig, PackageOK, package, ChildPlaces
  <2>2. CASE ChildEnds(c, "err")
    BY <1>1, <1>2, <1>5, <1>11, <2>2 DEF ReadConfig, PackageOK, package, ChildPlaces
  <2> QED
    BY <1>11, <2>1, <2>2 DEF ReadConfig
<1>12. CASE TruncateConfig(c)
  BY <1>1, <1>2, <1>4, <1>12 DEF TruncateConfig, PackageOK, ChildPlaces
<1>13. CASE RewriteConfig(c)
  <2>1. job[c].registry \in Seq(Times) /\ job[c].version \in Times
    BY <1>1 DEF PackageOK
  <2>2. WithEntry(job[c].registry, job[c].version) \in Seq(Times)
    BY <2>1, AppendProperties DEF WithEntry
  <2>3. config' \in [whole : BOOLEAN, registry : Seq(Times)]
    BY <1>13, <2>2 DEF RewriteConfig
  <2> QED
    BY <1>1, <1>2, <1>5, <1>13, <2>1, <2>3 DEF RewriteConfig, PackageOK, ChildPlaces
<1> QED
  BY <1>7, <1>8, <1>9, <1>10, <1>11, <1>12, <1>13 DEF MakeMigration

\* Every other step.
LEMMA NextType == TypeOK /\ [Next]_vars => TypeOK'
<1> SUFFICES ASSUME TypeOK, [Next]_vars PROVE TypeOK'
  OBVIOUS
<1>1. DirectoriesOK /\ PackageOK /\ overlapped \in BOOLEAN /\ crashed \in BOOLEAN
  BY DEF TypeOK
<1>2. ASSUME DirectoriesOK', PackageOK', UNCHANGED history PROVE TypeOK'
  BY <1>1, <1>2 DEF TypeOK, history
<1>3. ASSUME UNCHANGED <<now, package, child, job>> PROVE PackageOK'
  BY <1>1, <1>3 DEF PackageOK, package
<1>4. ASSUME NEW c \in Commands, Start(c) PROVE TypeOK'
  <2>1. DirectoriesOK'
    <3>1. runs + 1 \in 0 .. MaxRuns /\ 1 .. runs \subseteq 1 .. runs + 1
      BY <1>1, <1>4, CommandAssumption DEF Start, DirectoriesOK
    <3> QED
      BY <1>1, <1>4, <3>1 DEF Start, GoTo, DirectoriesOK, Places, shared
  <2> QED
    BY <1>2, <1>3, <1>4, <2>1 DEF Start
<1>5. ASSUME NEW c \in Commands, Build(c) PROVE TypeOK'
  <2>1. DirectoriesOK'
    BY <1>1, <1>5 DEF Build, GoTo, DirectoriesOK, Places, shared
  <2>2. PackageOK'
    BY <1>1, <1>5 DEF Build, PackageOK, ChildPlaces, package
  <2>3. overlapped' \in BOOLEAN /\ crashed' \in BOOLEAN
    BY <1>1, <1>5, Zenon DEF Build
  <2> QED
    BY <2>1, <2>2, <2>3 DEF TypeOK
<1>6. ASSUME NEW c \in Commands, Wait(c) PROVE TypeOK'
  BY <1>1, <1>2, <1>6
     DEF Wait, GoTo, DirectoriesOK, PackageOK, Places, ChildPlaces, shared, package
<1>7. ASSUME NEW c \in Commands, Timeout(c) PROVE TypeOK'
  BY <1>1, <1>2, <1>3, <1>7 DEF Timeout, GoTo, DirectoriesOK, Places, shared
<1>8. ASSUME NEW c \in Commands, Reap(c) PROVE TypeOK'
  BY <1>1, <1>2, <1>8 DEF Reap, DirectoriesOK, PackageOK, ChildPlaces, shared, package
<1>9. CASE Tick
  BY <1>1, <1>2, <1>9, CommandAssumption
     DEF Tick, DirectoriesOK, PackageOK, Times, shared, package
<1>10. ASSUME NEW c \in Commands, Crash(c) PROVE TypeOK'
  <2>1. DirectoriesOK'
    BY <1>1, <1>10 DEF Crash, GoTo, DirectoriesOK, Places, shared
  <2>2. PackageOK'
    <3>1. CASE UNCHANGED <<child, job>>
      BY <1>3, <1>10, <3>1 DEF Crash
    <3>2. CASE ChildEnds(c, "none")
      BY <1>1, <1>10, <3>2, NoJobType
         DEF Crash, ChildEnds, ChildGoes, PackageOK, ChildPlaces, package
    <3> QED
      BY <1>10, <3>1, <3>2 DEF Crash
  <2>3. overlapped' \in BOOLEAN /\ crashed' \in BOOLEAN
    BY <1>1, <1>10, Zenon DEF Crash
  <2> QED
    BY <2>1, <2>2, <2>3 DEF TypeOK
<1>11. CASE Done \/ UNCHANGED vars
  BY <1>1, <1>2, <1>11 DEF Done, vars, DirectoriesOK, PackageOK, shared, package, history
<1> QED
  BY <1>4, <1>5, <1>6, <1>7, <1>8, <1>9, <1>10, <1>11, DirectoriesType, ChildType
     DEF Next, Command

\* Every variable has its type, and the directories are a tree, whatever the
\* commands do to each other.
THEOREM TypeCorrect == Spec => []TypeOK
BY InitType, NextType, PTL DEF Spec

-----------------------------------------------------------------------------
(* The registry and the migration files.                                   *)

\* Nothing that is written becomes unwritten.
LEMMA WrittenStays ==
  ASSUME TypeOK, [Next]_vars, NEW v, Written(v)
  PROVE  Written(v)'
<1>1. files \in [DOMAIN files -> BOOLEAN]
  BY DEF TypeOK, PackageOK
<1>2. PICK f \in DOMAIN files : f.version = v /\ files[f]
  BY DEF Written
<1>3. ASSUME UNCHANGED files PROVE Written(v)'
  BY <1>3 DEF Written
<1>4. ASSUME NEW c \in Commands, CreateMigration(c) PROVE Written(v)'
  <2>1. UNCHANGED files \/ files' = WithFile(Name(c))
    BY <1>4 DEF CreateMigration
  <2>2. ASSUME files' = WithFile(Name(c)) PROVE f \in DOMAIN files' /\ files'[f]
    BY <1>2, <2>2 DEF WithFile
  <2> QED
    BY <1>2, <1>3, <2>1, <2>2 DEF Written
<1>5. ASSUME NEW c \in Commands, WriteMigration(c) PROVE Written(v)'
  <2>1. f \in DOMAIN files' /\ files'[f]
    BY <1>1, <1>2, <1>5 DEF WriteMigration
  <2> QED
    BY <1>2, <2>1 DEF Written
<1>6. ASSUME NEW c \in Commands, MakeMigration(c) PROVE Written(v)'
  BY <1>3, <1>4, <1>5, <1>6
     DEF MakeMigration, TakeName, ReadSchemas, ReadConfig, TruncateConfig, RewriteConfig,
         package
<1> QED
  BY <1>3, <1>6
     DEF Next, Command, Start, Directories, Build, Wait, Timeout, Reap, Tick, Crash, Done,
         vars, package

\* What a child is about to register is written.
ChildWritten(c) ==
  /\ child[c] = "write" => Name(c) \in DOMAIN files
  /\ child[c] \in {"read", "truncate", "rewrite"} => Written(job[c].version)
  /\ child[c] \in {"truncate", "rewrite"} =>
       \A v \in ToSet(job[c].registry) : Written(v)

\* The steps of a child that does not act leave it so.
LEMMA ChildWrittenKept ==
  ASSUME TypeOK, [Next]_vars, NEW c \in Commands, ChildWritten(c), UNCHANGED <<child[c], job[c]>>
  PROVE  ChildWritten(c)'
<1>1. ASSUME NEW f \in DOMAIN files PROVE f \in DOMAIN files'
  <2>1. \A d \in Commands : CreateMigration(d) => f \in DOMAIN files'
    BY <1>1 DEF CreateMigration, WithFile
  <2>2. \A d \in Commands : WriteMigration(d) => f \in DOMAIN files'
    BY <1>1 DEF WriteMigration, TypeOK, PackageOK
  <2> QED
    BY <1>1, <2>1, <2>2
       DEF Next, Command, MakeMigration, TakeName, ReadSchemas, ReadConfig, TruncateConfig,
           RewriteConfig, Start, Directories, Build, Wait, Timeout, Reap, Tick, Crash, Done,
           vars, package
<1> QED
  BY <1>1, WrittenStays DEF ChildWritten, Name

\* A child that acts.
LEMMA MigrationWritten ==
  ASSUME TypeOK, [Next]_vars, RegisteredIsWritten, NEW c \in Commands, ChildWritten(c),
         MakeMigration(c)
  PROVE  ChildWritten(c)' /\ RegisteredIsWritten'
<1>0. PackageOK
  BY DEF TypeOK
<1>1. /\ \A v \in ToSet(config.registry) : Written(v)
      /\ RegisteredIsWritten' <=> \A v \in ToSet(config'.registry) : Written(v)'
  BY DEF RegisteredIsWritten, Written
<1>2. ASSUME UNCHANGED config PROVE RegisteredIsWritten'
  BY <1>1, <1>2, WrittenStays
<1>3. ASSUME NEW p \in {"none", "name", "diff", "create", "ok", "err"}, child'[c] = p
      PROVE  ChildWritten(c)'
  BY <1>3 DEF ChildWritten
<1>4. ASSUME NEW p, ChildGoes(c, p) \/ ChildEnds(c, p) PROVE child'[c] = p
  BY <1>0, <1>4 DEF ChildGoes, ChildEnds, PackageOK
<1>5. CASE TakeName(c) \/ ReadSchemas(c)
  BY <1>2, <1>3, <1>4, <1>5 DEF TakeName, ReadSchemas, package
<1>6. CASE CreateMigration(c)
  <2>1. CASE ChildEnds(c, "err")
    BY <1>2, <1>3, <1>4, <1>6, <2>1 DEF CreateMigration
  <2>2. CASE files' = WithFile(Name(c)) /\ ChildGoes(c, "write") /\ UNCHANGED job
    <3>1. Name(c)' = Name(c) /\ Name(c) \in DOMAIN files' /\ child'[c] = "write"
      BY <1>4, <2>2 DEF WithFile, Name
    <3> QED
      BY <1>2, <1>6, <3>1 DEF ChildWritten, CreateMigration
  <2> QED
    BY <1>6, <2>1, <2>2 DEF CreateMigration
<1>7. CASE WriteMigration(c)
  <2>1. /\ Name(c) \in DOMAIN files /\ files' = [files EXCEPT ![Name(c)] = TRUE]
        /\ child'[c] = "read" /\ job' = job
    BY <1>4, <1>7 DEF WriteMigration, ChildWritten
  <2>2. Name(c) \in DOMAIN files' /\ files'[Name(c)] /\ Name(c).version = job'[c].version
    BY <1>0, <2>1 DEF PackageOK, Name
  <2>3. Written(job[c].version)'
    BY <2>2 DEF Written
  <2> QED
    BY <1>2, <1>7, <2>1, <2>3 DEF ChildWritten, WriteMigration
<1>8. CASE ReadConfig(c)
  <2>1. CASE ChildEnds(c, "err")
    BY <1>2, <1>3, <1>4, <1>8, <2>1 DEF ReadConfig, package
  <2>2. CASE job' = [job EXCEPT ![c].registry = config.registry] /\ ChildGoes(c, "truncate")
    <3>1. /\ child'[c] = "truncate" /\ job'[c].version = job[c].version
          /\ job'[c].registry = config.registry /\ child[c] = "read"
      BY <1>0, <1>4, <1>8, <2>2 DEF PackageOK, ReadConfig
    <3>2. Written(job[c].version) /\ \A v \in ToSet(job'[c].registry) : Written(v)
      BY <1>1, <3>1 DEF ChildWritten
    <3> QED
      BY <1>2, <1>8, <3>1, <3>2, WrittenStays DEF ChildWritten, ReadConfig, package
  <2> QED
    BY <1>8, <2>1, <2>2 DEF ReadConfig
<1>9. CASE TruncateConfig(c)
  <2>1. /\ child[c] = "truncate" /\ child'[c] = "rewrite" /\ job' = job
        /\ config'.registry = <<>>
    BY <1>4, <1>9 DEF TruncateConfig
  <2>2. Written(job[c].version) /\ \A v \in ToSet(job[c].registry) : Written(v)
    BY <2>1 DEF ChildWritten
  <2>3. ChildWritten(c)'
    BY <2>1, <2>2, WrittenStays DEF ChildWritten
  <2>4. ToSet(config'.registry) = {}
    BY <2>1 DEF ToSet
  <2> QED
    BY <1>1, <2>3, <2>4
<1>10. CASE RewriteConfig(c)
  <2>1. /\ child[c] = "rewrite" /\ child'[c] = "ok"
        /\ config'.registry = Append(job[c].registry, job[c].version)
    BY <1>4, <1>10 DEF RewriteConfig, WithEntry
  <2>2. job[c].registry \in Seq(Times) /\ job[c].version \in Times
    BY <1>0 DEF PackageOK
  <2>3. ToSet(config'.registry) = ToSet(job[c].registry) \cup {job[c].version}
    BY <2>1, <2>2, AppendToSet
  <2>4. \A v \in ToSet(config'.registry) : Written(v)
    BY <2>1, <2>3 DEF ChildWritten
  <2> QED
    BY <1>1, <1>3, <2>1, <2>4, WrittenStays
<1> QED
  BY <1>5, <1>6, <1>7, <1>8, <1>9, <1>10 DEF MakeMigration

\* The invariant is inductive.
LEMMA NextWritten == TypeOK /\ WrittenInv /\ [Next]_vars => WrittenInv'
<1> SUFFICES ASSUME TypeOK, WrittenInv, [Next]_vars PROVE WrittenInv'
  OBVIOUS
<1>1. RegisteredIsWritten /\ \A c \in Commands : ChildWritten(c)
  BY DEF WrittenInv, ChildWritten
<1>2. ASSUME RegisteredIsWritten', \A c \in Commands : ChildWritten(c)' PROVE WrittenInv'
  BY <1>2 DEF WrittenInv, ChildWritten
<1>3. ASSUME UNCHANGED config PROVE RegisteredIsWritten'
  BY <1>1, <1>3, WrittenStays DEF RegisteredIsWritten, Written
<1>4. CASE UNCHANGED <<config, child, job>>
  BY <1>1, <1>2, <1>3, <1>4, ChildWrittenKept
<1>5. ASSUME NEW c \in Commands, MakeMigration(c) PROVE WrittenInv'
  <2>1. ChildWritten(c)' /\ RegisteredIsWritten'
    BY <1>1, <1>5, MigrationWritten
  <2>2. ASSUME NEW d \in Commands, d # c PROVE UNCHANGED <<child[d], job[d]>>
    BY <1>5, <2>2
       DEF MakeMigration, TakeName, ReadSchemas, CreateMigration, WriteMigration, ReadConfig,
           TruncateConfig, RewriteConfig, ChildGoes, ChildEnds, TypeOK, PackageOK
  <2> QED
    BY <1>1, <1>2, <2>1, <2>2, ChildWrittenKept
<1>6. ASSUME NEW c \in Commands, Build(c) \/ Wait(c) \/ Reap(c) \/ Crash(c) PROVE WrittenInv'
  <2>1. child'[c] \in {"none", "name", "ok"} \/ UNCHANGED <<child[c], job[c]>>
    BY <1>6 DEF Build, Wait, Reap, Crash, ChildEnds, ChildGoes, TypeOK, PackageOK
  <2>2. ASSUME NEW d \in Commands, d # c PROVE UNCHANGED <<child[d], job[d]>>
    BY <1>6, <2>2 DEF Build, Wait, Reap, Crash, ChildEnds, ChildGoes, TypeOK, PackageOK
  <2>3. ChildWritten(c)'
    BY <1>1, <2>1, ChildWrittenKept DEF ChildWritten
  <2>4. UNCHANGED config
    BY <1>6 DEF Build, Wait, Reap, Crash, package
  <2> QED
    BY <1>1, <1>2, <1>3, <2>2, <2>3, <2>4, ChildWrittenKept
<1> QED
  BY <1>4, <1>5, <1>6
     DEF Next, Command, Start, Directories, Timeout, Tick, Done, vars, package

\* Nothing is registered before the first command.
LEMMA InitWritten == Init => WrittenInv
BY DEF Init, WrittenInv, RegisteredIsWritten, ToSet

\* Whatever commands run at the same time, and wherever one of them or its
\* child dies, a version in the registry has a migration file that is whole.
THEOREM Registered == Spec => []RegisteredIsWritten
<1>1. TypeOK /\ WrittenInv /\ [Next]_vars => TypeOK' /\ WrittenInv'
  BY NextType, NextWritten
<1>2. WrittenInv => RegisteredIsWritten
  BY DEF WrittenInv
<1> QED
  BY InitType, InitWritten, <1>1, <1>2, PTL DEF Spec

-----------------------------------------------------------------------------
(* The temporary directories.                                              *)

\* A step leaves alone where the commands are that do not take it.
LEMMA OthersStay ==
  ASSUME TypeOK, NEW c \in Commands, NEW d \in Commands, d # c,
         Start(c) \/ Command(c) \/ Reap(c) \/ MakeMigration(c) \/ Crash(c)
  PROVE  pc'[d] = pc[d] /\ run'[d] = run[d]
BY DEF Start, Command, Directories, StatRoot, MakeRoot, MakeTmp, MakeTemp, RemoveTemp,
       RemoveTmp, RemoveRoot, Build, Wait, Timeout, Reap, MakeMigration, Crash, GoTo,
       TypeOK, DirectoriesOK

\* Only the directory steps change the directories.
LEMMA SharedMoves ==
  ASSUME NEW c \in Commands, Start(c) \/ Command(c) \/ Reap(c) \/ MakeMigration(c) \/ Crash(c),
         ~Directories(c)
  PROVE  UNCHANGED shared
BY DEF Start, Command, Build, Wait, Timeout, Reap, MakeMigration, Crash

\* The number of a run stays nobody else's.
LEMMA NextOwnRun == TypeOK /\ OwnRun /\ [Next]_vars => OwnRun'
<1> SUFFICES ASSUME TypeOK, OwnRun, [Next]_vars PROVE OwnRun'
  OBVIOUS
<1>1. runs \in Nat /\ run \in [Commands -> 0 .. runs]
  BY CommandAssumption DEF TypeOK, DirectoriesOK
<1>2. CASE UNCHANGED run
  BY <1>2 DEF OwnRun
<1>3. ASSUME NEW c \in Commands, Start(c) PROVE OwnRun'
  <2>1. run' = [run EXCEPT ![c] = runs + 1] /\ runs + 1 # 0
    BY <1>1, <1>3 DEF Start
  <2>2. \A d \in Commands : run[d] # runs + 1
    BY <1>1
  <2>3. \A d \in Commands : run'[d] = IF d = c THEN runs + 1 ELSE run[d]
    BY <1>1, <2>1
  <2> QED
    BY <2>2, <2>3, Zenon DEF OwnRun
<1> QED
  BY <1>2, <1>3
     DEF Next, Command, Directories, Build, Wait, Timeout, Reap, MakeMigration, Crash, Tick,
         Done, vars

\* The invariant is inductive: a command makes the directory of its own run and
\* removes no other.
LEMMA NextTemp == TypeOK /\ TempInv /\ [Next]_vars => TempInv'
<1> SUFFICES ASSUME TypeOK, TempInv, [Next]_vars PROVE TempInv'
  OBVIOUS
<1>1. OwnRun /\ OwnRun'
  BY NextOwnRun DEF TempInv
<1>2. \A d \in Commands : HasTemp(d) => run[d] \in temps
  BY DEF TempInv
<1>3. DirectoriesOK
  BY DEF TypeOK
<1>4. ASSUME \A d \in Commands : HasTemp(d)' => run'[d] \in temps' PROVE TempInv'
  BY <1>1, <1>4 DEF TempInv
<1>5. CASE UNCHANGED <<pc, run, temps>>
  BY <1>2, <1>4, <1>5 DEF HasTemp
<1>6. ASSUME NEW c \in Commands,
             Start(c) \/ Command(c) \/ Reap(c) \/ MakeMigration(c) \/ Crash(c)
      PROVE  TempInv'
  <2>1. \A d \in Commands : d # c => (HasTemp(d)' <=> HasTemp(d)) /\ run'[d] = run[d]
    BY <1>6, OthersStay DEF HasTemp
  <2>2. CASE ~Directories(c)
    <3>1. temps' = temps
      BY <1>6, <2>2, SharedMoves DEF shared
    <3>2. HasTemp(c)' => HasTemp(c) /\ run'[c] = run[c]
      BY <1>3, <1>6, <2>2
         DEF Start, Command, Build, Wait, Timeout, Reap, MakeMigration, Crash, GoTo, HasTemp,
             DirectoriesOK
    <3> QED
      BY <1>2, <1>4, <2>1, <3>1, <3>2
  <2>3. CASE Directories(c)
    <3>1. run' = run
      BY <2>3 DEF Directories
    <3>2. CASE MakeTemp(c)
      <4>1. temps \subseteq temps' /\ (HasTemp(c)' => run[c] \in temps')
        BY <1>3, <3>2 DEF MakeTemp, GoTo, HasTemp, DirectoriesOK
      <4> QED
        BY <1>2, <1>4, <2>1, <3>1, <4>1
    <3>3. CASE RemoveTemp(c)
      <4>1. ~HasTemp(c)' /\ temps' = temps \ {run[c]} /\ run[c] # 0
        BY <1>3, <3>3 DEF RemoveTemp, GoTo, HasTemp, DirectoriesOK
      <4>2. \A d \in Commands : d # c => run[d] # run[c]
        BY <1>1, <4>1 DEF OwnRun
      <4> QED
        BY <1>2, <1>4, <2>1, <3>1, <4>1, <4>2
    <3>4. CASE ~MakeTemp(c) /\ ~RemoveTemp(c)
      <4>1. temps' = temps /\ ~HasTemp(c)'
        BY <1>3, <2>3, <3>4
           DEF Directories, StatRoot, MakeRoot, MakeTmp, RemoveTmp, RemoveRoot, GoTo, HasTemp,
               shared, DirectoriesOK
      <4> QED
        BY <1>2, <1>4, <2>1, <3>1, <4>1
    <3> QED
      BY <3>2, <3>3, <3>4
  <2> QED
    BY <2>2, <2>3
<1> QED
  BY <1>5, <1>6 DEF Next, Tick, Done, vars, shared

\* No command has a run before the first.
LEMMA InitTemp == Init => TempInv
BY DEF Init, TempInv, OwnRun, HasTemp

\* However the commands' cleanups fall together, a command that builds, or
\* waits for what it has built, has the directory that it does so in.
THEOREM KeepsDirectory == Spec => []BuildKeepsItsDirectory
<1>1. TypeOK /\ TempInv /\ [Next]_vars => TypeOK' /\ TempInv'
  BY NextType, NextTemp
<1>2. TypeOK /\ TempInv => BuildKeepsItsDirectory
  BY DEF TypeOK, DirectoriesOK, TempInv, HasTemp, BuildKeepsItsDirectory, Root, Tmp
<1> QED
  BY InitType, InitTemp, <1>1, <1>2, PTL DEF Spec

-----------------------------------------------------------------------------
(* Cleaning up.                                                            *)

\* The two that take part in the cleanup stay the ones they are in every step
\* that touches no directory and in which none dies.
LEMMA RolesKept ==
  ASSUME TypeOK, NEW c \in Commands,
         Start(c) \/ Build(c) \/ Wait(c) \/ Timeout(c) \/ Reap(c) \/ MakeMigration(c),
         NEW d \in Commands
  PROVE  /\ HasTemp(d)' <=> HasTemp(d)
         /\ HasTemp(d) => run'[d] = run[d]
         /\ RemovesTmp(d)' <=> RemovesTmp(d)
         /\ RemovesRoot(d)' <=> RemovesRoot(d)
BY DEF Start, Build, Wait, Timeout, Reap, MakeMigration, GoTo, HasTemp, RemovesTmp,
       RemovesRoot, TypeOK, DirectoriesOK

\* A step on the directories: the last that could remove one does.
LEMMA DirectoriesCleanup ==
  ASSUME TypeOK, CleanupInv, NEW c \in Commands, Directories(c)
  PROVE  CleanupInv'
<1> SUFFICES ASSUME ~crashed
             PROVE  /\ \A t \in temps' : \E d \in Commands : HasTemp(d)' /\ run'[d] = t
                    /\ Tmp \in dirs' => \E d \in Commands : RemovesTmp(d)'
                    /\ Root \in dirs' => \E d \in Commands : RemovesRoot(d)'
  BY DEF CleanupInv, Directories, history
<1>1. /\ \A t \in temps : \E d \in Commands : HasTemp(d) /\ run[d] = t
      /\ Tmp \in dirs => \E d \in Commands : RemovesTmp(d)
      /\ Root \in dirs => \E d \in Commands : RemovesRoot(d)
  BY DEF CleanupInv
<1>2. pc \in [Commands -> Places] /\ run' = run
  BY DEF TypeOK, DirectoriesOK, Directories
<1>3. ASSUME NEW d \in Commands, d # c
      PROVE  /\ HasTemp(d)' <=> HasTemp(d)
             /\ RemovesTmp(d)' <=> RemovesTmp(d)
             /\ RemovesRoot(d)' <=> RemovesRoot(d)
  BY <1>3, OthersStay DEF Command, HasTemp, RemovesTmp, RemovesRoot
<1>4. Root # Tmp
  BY DEF Root, Tmp
<1>5. CASE StatRoot(c)
  <2>1. UNCHANGED shared /\ ~HasTemp(c) /\ ~RemovesTmp(c) /\ ~RemovesRoot(c)
    BY <1>5 DEF StatRoot, HasTemp, RemovesTmp, RemovesRoot
  <2> QED
    BY <1>1, <1>2, <1>3, <2>1 DEF shared
<1>6. CASE MakeRoot(c)
  <2>1. /\ ~HasTemp(c) /\ ~RemovesTmp(c) /\ RemovesRoot(c)'
        /\ temps' = temps /\ dirs' = dirs \cup {Root}
    BY <1>2, <1>6 DEF MakeRoot, GoTo, HasTemp, RemovesTmp, RemovesRoot
  <2> QED
    BY <1>1, <1>2, <1>3, <1>4, <2>1
<1>7. CASE MakeTmp(c)
  <2>1. ~HasTemp(c) /\ ~RemovesTmp(c) /\ temps' = temps
    BY <1>7 DEF MakeTmp, HasTemp, RemovesTmp
  <2>2. CASE Root \in dirs /\ GoTo(c, "mktemp")
    <3>1. RemovesTmp(c)' /\ RemovesRoot(c)'
      BY <1>2, <2>2 DEF GoTo, RemovesTmp, RemovesRoot
    <3> QED
      BY <1>1, <1>2, <1>3, <2>1, <3>1
  <2>3. CASE Root \notin dirs /\ UNCHANGED dirs
    BY <1>1, <1>2, <1>3, <2>1, <2>3
  <2> QED
    BY <1>7, <2>2, <2>3 DEF MakeTmp
<1>8. CASE MakeTemp(c)
  <2>1. ~HasTemp(c) /\ RemovesTmp(c)' /\ RemovesRoot(c)' /\ dirs' = dirs
    BY <1>2, <1>8 DEF MakeTemp, GoTo, HasTemp, RemovesTmp, RemovesRoot
  <2>2. temps' = temps \/ (temps' = temps \cup {run[c]} /\ HasTemp(c)')
    BY <1>2, <1>8 DEF MakeTemp, GoTo, HasTemp
  <2> QED
    BY <1>1, <1>2, <1>3, <2>1, <2>2
<1>9. CASE RemoveTemp(c)
  <2>1. RemovesTmp(c)' /\ RemovesRoot(c)' /\ dirs' = dirs /\ temps' = temps \ {run[c]}
    BY <1>2, <1>9 DEF RemoveTemp, GoTo, RemovesTmp, RemovesRoot
  <2> QED
    BY <1>1, <1>2, <1>3, <2>1
<1>10. CASE RemoveTmp(c)
  <2>1. /\ ~HasTemp(c) /\ RemovesRoot(c)' /\ temps' = temps
        /\ dirs' = IF temps = {} THEN dirs \ {Tmp} ELSE dirs
    BY <1>2, <1>10 DEF RemoveTmp, GoTo, HasTemp, RemovesRoot
  <2>2. ASSUME Tmp \in dirs' PROVE \E d \in Commands : RemovesTmp(d)'
    <3>1. PICK t \in temps : TRUE
      BY <2>1, <2>2
    <3>2. PICK d \in Commands : HasTemp(d) /\ run[d] = t
      BY <1>1
    <3> QED
      BY <1>3, <2>1, <3>2 DEF RemovesTmp
  <2> QED
    BY <1>1, <1>2, <1>3, <2>1, <2>2
<1>11. CASE RemoveRoot(c)
  <2>1. /\ ~HasTemp(c) /\ ~RemovesTmp(c) /\ temps' = temps
        /\ dirs' = IF Tmp \in dirs THEN dirs ELSE dirs \ {Root}
    BY <1>2, <1>11 DEF RemoveRoot, GoTo, HasTemp, RemovesTmp
  <2>2. ASSUME Tmp \in dirs' PROVE \E d \in Commands : RemovesTmp(d)'
    BY <1>1, <1>3, <2>1, <2>2
  <2>3. ASSUME Root \in dirs' PROVE \E d \in Commands : RemovesRoot(d)'
    <3>1. Tmp \in dirs'
      BY <2>1, <2>3
    <3> QED
      BY <2>2, <3>1 DEF RemovesRoot
  <2> QED
    BY <1>1, <1>2, <1>3, <2>1, <2>2, <2>3
<1> QED
  BY <1>5, <1>6, <1>7, <1>8, <1>9, <1>10, <1>11 DEF Directories

\* The invariant is inductive.
LEMMA NextCleanup == TypeOK /\ CleanupInv /\ [Next]_vars => CleanupInv'
<1> SUFFICES ASSUME TypeOK, CleanupInv, [Next]_vars PROVE CleanupInv'
  OBVIOUS
<1>1. CASE UNCHANGED <<pc, run, shared, crashed>>
  BY <1>1 DEF CleanupInv, HasTemp, RemovesTmp, RemovesRoot, shared
<1>2. ASSUME NEW c \in Commands, Directories(c) PROVE CleanupInv'
  BY <1>2, DirectoriesCleanup
<1>3. ASSUME NEW c \in Commands,
             Start(c) \/ Build(c) \/ Wait(c) \/ Timeout(c) \/ Reap(c) \/ MakeMigration(c)
      PROVE  CleanupInv'
  <2>1. UNCHANGED <<shared, crashed>>
    BY <1>3 DEF Start, Build, Wait, Timeout, Reap, MakeMigration, history
  <2> QED
    BY <1>3, <2>1, RolesKept DEF CleanupInv, shared
<1>4. ASSUME NEW c \in Commands, Crash(c) PROVE CleanupInv'
  BY <1>4 DEF Crash, CleanupInv
<1> QED
  BY <1>1, <1>2, <1>3, <1>4 DEF Next, Command, Tick, Done, vars, shared, history

\* There are no directories before the first command.
LEMMA InitCleanup == Init => CleanupInv
BY DEF Init, CleanupInv

\* However the commands' cleanups fall together, and whatever their builds and
\* their children come to, no directory is left when all have ended.
THEOREM NothingLeft == Spec => []NothingLeftBehind
<1>1. TypeOK /\ CleanupInv /\ [Next]_vars => TypeOK' /\ CleanupInv'
  BY NextType, NextCleanup
<1>2. ASSUME TypeOK, CleanupInv PROVE NothingLeftBehind
  <2> SUFFICES ASSUME ~crashed, \A c \in Commands : pc[c] = "idle"
               PROVE  dirs = {} /\ temps = {}
    BY DEF NothingLeftBehind
  <2>1. \A c \in Commands : ~HasTemp(c) /\ ~RemovesTmp(c) /\ ~RemovesRoot(c)
    BY DEF HasTemp, RemovesTmp, RemovesRoot
  <2>2. temps = {} /\ Root \notin dirs
    BY <1>2, <2>1 DEF CleanupInv
  <2> QED
    BY <1>2, <2>2 DEF TypeOK, DirectoriesOK
<1> QED
  BY InitType, InitCleanup, <1>1, <1>2, PTL DEF Spec

-----------------------------------------------------------------------------
(* The registry and the reports.                                           *)

\* A child that does not run when a step begins does so after it only when the
\* step has started it, and then the command has seen who else was running.
LEMMA NextAlone == TypeOK /\ AloneInv /\ [Next]_vars => AloneInv'
<1> SUFFICES ASSUME TypeOK, AloneInv, [Next]_vars, ~overlapped'
             PROVE  \A c, d \in Running' : c = d
  BY DEF AloneInv
<1>1. child \in [Commands -> ChildPlaces]
  BY DEF TypeOK, PackageOK
<1>2. ~overlapped
  BY DEF Next, Command, Start, Directories, Build, Wait, Timeout, Reap, MakeMigration, Tick,
         Crash, Done, vars, history
<1>3. \A c, d \in Running : c = d
  BY <1>2 DEF AloneInv
<1>4. CASE UNCHANGED child
  BY <1>3, <1>4 DEF Running
<1>5. ASSUME NEW c \in Commands, MakeMigration(c) PROVE \A d, e \in Running' : d = e
  <2>1. c \in Running
    BY <1>5
       DEF MakeMigration, TakeName, ReadSchemas, CreateMigration, WriteMigration, ReadConfig,
           TruncateConfig, RewriteConfig, Running
  <2>2. \A d \in Commands : d # c => child'[d] = child[d]
    BY <1>1, <1>5
       DEF MakeMigration, TakeName, ReadSchemas, CreateMigration, WriteMigration, ReadConfig,
           TruncateConfig, RewriteConfig, ChildGoes, ChildEnds
  <2> QED
    BY <1>3, <2>1, <2>2 DEF Running
<1>6. ASSUME NEW c \in Commands, Wait(c) \/ Reap(c) \/ Crash(c)
      PROVE  \A d, e \in Running' : d = e
  <2>1. \A d \in Commands : child'[d] \in {child[d], "none"}
    BY <1>1, <1>6 DEF Wait, Reap, Crash, ChildEnds, ChildGoes
  <2> QED
    BY <1>3, <2>1 DEF Running
<1>7. ASSUME NEW c \in Commands, Build(c) PROVE \A d, e \in Running' : d = e
  <2>1. CASE Compiles
    <3>1. Running = {}
      BY <1>7, <2>1 DEF Build
    <3>2. \A d \in Commands : d # c => child'[d] = child[d]
      BY <1>1, <1>7 DEF Build
    <3> QED
      BY <3>1, <3>2 DEF Running
  <2>2. CASE ~Compiles
    BY <1>4, <1>7, <2>2 DEF Build
  <2> QED
    BY <2>1, <2>2
<1> QED
  BY <1>4, <1>5, <1>6, <1>7 DEF Next, Command, Start, Directories, Timeout, Tick, Done, vars

\* A file that is there stays, so twins, once there, are there for good.
LEMMA FilesStay ==
  ASSUME TypeOK, [Next]_vars
  PROVE  DOMAIN files \subseteq DOMAIN files' /\ (NoTwins' => NoTwins)
<1>1. \A c \in Commands : CreateMigration(c) => DOMAIN files \subseteq DOMAIN files'
  BY DEF CreateMigration, WithFile
<1>2. \A c \in Commands : WriteMigration(c) => DOMAIN files \subseteq DOMAIN files'
  BY DEF WriteMigration, TypeOK, PackageOK
<1>3. DOMAIN files \subseteq DOMAIN files'
  BY <1>1, <1>2
     DEF Next, Command, MakeMigration, TakeName, ReadSchemas, ReadConfig, TruncateConfig,
         RewriteConfig, Start, Directories, Build, Wait, Timeout, Reap, Tick, Crash, Done,
         vars, package
<1> QED
  BY <1>3 DEF NoTwins

\* A later version at the end of a registry makes it one of that version, too.
LEMMA AppendLatest ==
  ASSUME NEW reg \in Seq(Times), NEW v \in Times, NEW V, Lists(reg, V), \A w \in V : w < v
  PROVE  Lists(Append(reg, v), V \cup {v})
<1>1. /\ Len(Append(reg, v)) = Len(reg) + 1 /\ Len(reg) \in Nat
      /\ \A i \in 1 .. Len(reg) : Append(reg, v)[i] = reg[i]
      /\ Append(reg, v)[Len(reg) + 1] = v
      /\ DOMAIN Append(reg, v) = 1 .. Len(reg) + 1 /\ DOMAIN reg = 1 .. Len(reg)
  BY AppendProperties
<1>2. ToSet(Append(reg, v)) = V \cup {v}
  BY AppendToSet DEF Lists
<1>3. \A i \in 1 .. Len(reg) : reg[i] < v
  BY <1>1 DEF Lists, ToSet
<1>4. ASSUME NEW i \in 1 .. Len(reg) + 1, NEW j \in 1 .. Len(reg) + 1, i < j
      PROVE  Append(reg, v)[i] < Append(reg, v)[j]
  <2>1. i \in 1 .. Len(reg)
    BY <1>1, <1>4
  <2>2. CASE j = Len(reg) + 1
    BY <1>1, <1>3, <2>1, <2>2
  <2>3. CASE j \in 1 .. Len(reg)
    BY <1>1, <1>4, <2>1, <2>3 DEF Lists
  <2> QED
    BY <1>1, <2>2, <2>3
<1> QED
  BY <1>1, <1>2, <1>4 DEF Lists

\* A step of a child, the only one that runs.
LEMMA MigrationReports ==
  ASSUME TypeOK, WrittenInv, ReportsInv, AloneInv, [Next]_vars,
         NEW c \in Commands, MakeMigration(c)
  PROVE  ReportsInv'
<1> SUFFICES ASSUME ~overlapped, ~crashed
             PROVE  /\ \A v \in reported' : v <= now' /\ \E f \in DOMAIN files' : f.version = v
                    /\ \A d \in Commands : InOrder(d)'
                    /\ config'.whole \/ \E d \in Commands : child'[d] = "rewrite"
                    /\ config'.whole /\ NoTwins' => Lists(config.registry, reported)'
  BY DEF ReportsInv, MakeMigration, history
<1>0. PackageOK /\ now' = now
  BY DEF TypeOK, MakeMigration
<1>1. /\ \A v \in reported : v <= now /\ \E f \in DOMAIN files : f.version = v
      /\ \A d \in Commands : InOrder(d)
      /\ config.whole \/ \E d \in Commands : child[d] = "rewrite"
      /\ config.whole /\ NoTwins => Lists(config.registry, reported)
  BY DEF ReportsInv
<1>2. DOMAIN files \subseteq DOMAIN files' /\ (NoTwins' => NoTwins)
  BY FilesStay
<1>3. c \in Running
  BY DEF MakeMigration, TakeName, ReadSchemas, CreateMigration, WriteMigration, ReadConfig,
         TruncateConfig, RewriteConfig, Running
<1>4. ASSUME NEW d \in Commands, d # c
      PROVE  child[d] \in {"none", "ok", "err"} /\ UNCHANGED <<child[d], job[d]>>
  BY <1>0, <1>3, <1>4
     DEF MakeMigration, TakeName, ReadSchemas, CreateMigration, WriteMigration, ReadConfig,
         TruncateConfig, RewriteConfig, ChildGoes, ChildEnds, PackageOK, AloneInv, Running
<1>5. \A d \in Commands : d # c => InOrder(d)'
  BY <1>0, <1>1, <1>4 DEF InOrder
<1>6. ASSUME NEW p, ChildGoes(c, p) \/ ChildEnds(c, p) PROVE child'[c] = p
  BY <1>0, <1>6 DEF ChildGoes, ChildEnds, PackageOK
<1>7. ASSUME NEW p \in {"none", "ok", "err"}, ChildEnds(c, p) PROVE InOrder(c)'
  <2>1. job'[c].version = 0 /\ 0 <= now
    BY <1>0, <1>7 DEF ChildEnds, NoJob, PackageOK, Times
  <2> QED
    BY <1>0, <1>6, <1>7, <2>1 DEF InOrder
<1>8. ASSUME UNCHANGED <<reported, config>>, child[c] # "rewrite", InOrder(c)'
      PROVE  /\ \A v \in reported' : v <= now' /\ \E f \in DOMAIN files' : f.version = v
             /\ \A d \in Commands : InOrder(d)'
             /\ config'.whole \/ \E d \in Commands : child'[d] = "rewrite"
             /\ config'.whole /\ NoTwins' => Lists(config.registry, reported)'
  <2>1. config.whole
    BY <1>1, <1>4, <1>8
  <2>2. NoTwins' => Lists(config.registry, reported)'
    BY <1>1, <1>2, <1>8, <2>1 DEF Lists
  <2> QED
    BY <1>0, <1>1, <1>2, <1>5, <1>8, <2>1, <2>2
<1>9. CASE TakeName(c)
  <2>1. /\ child'[c] = "diff" /\ job'[c].version = now /\ UNCHANGED package
        /\ child[c] = "name"
    BY <1>0, <1>6, <1>9 DEF TakeName, NoJob, PackageOK
  <2>2. now <= now
    BY <1>0 DEF PackageOK, Times
  <2>3. InOrder(c)'
    BY <1>0, <1>1, <2>1, <2>2 DEF InOrder, package
  <2> QED
    BY <1>8, <2>1, <2>3 DEF package
<1>10. CASE ReadSchemas(c)
  <2>1. CASE ChildEnds(c, "err")
    BY <1>7, <1>8, <1>10, <2>1 DEF ReadSchemas, package
  <2>2. CASE ChildGoes(c, "create") /\ UNCHANGED job
    <3>1. InOrder(c)'
      BY <1>0, <1>1, <1>6, <1>10, <2>2 DEF InOrder, ReadSchemas, package
    <3> QED
      BY <1>8, <1>10, <3>1 DEF ReadSchemas, package
  <2> QED
    BY <1>10, <2>1, <2>2 DEF ReadSchemas
<1>11. CASE CreateMigration(c)
  <2>1. CASE ChildEnds(c, "err")
    BY <1>7, <1>8, <1>11, <2>1 DEF CreateMigration
  <2>2. CASE /\ Name(c) \notin DOMAIN files /\ files' = WithFile(Name(c))
             /\ ChildGoes(c, "write") /\ UNCHANGED job
    <3>1. /\ child[c] = "create" /\ child'[c] = "write" /\ UNCHANGED <<config, reported>>
          /\ Name(c) \in DOMAIN files' /\ Name(c).version = job[c].version
      BY <1>6, <1>11, <2>2 DEF CreateMigration, WithFile, Name
    <3>2. ASSUME NEW v \in reported, NoTwins' PROVE v < job[c].version
      <4>1. PICK f \in DOMAIN files : f.version = v
        BY <1>1
      <4>2. f.version # Name(c).version
        BY <1>2, <2>2, <3>1, <3>2, <4>1 DEF NoTwins
      <4>3. v <= job[c].version
        BY <1>1, <3>1 DEF InOrder
      <4>4. v \in Times /\ job[c].version \in Times
        BY <1>0 DEF PackageOK
      <4> QED
        BY <3>1, <4>1, <4>2, <4>3, <4>4 DEF Times
    <3>3. InOrder(c)'
      BY <1>0, <1>1, <2>2, <3>1, <3>2 DEF InOrder
    <3> QED
      BY <1>8, <3>1, <3>3
  <2> QED
    BY <1>11, <2>1, <2>2 DEF CreateMigration
<1>12. CASE WriteMigration(c)
  <2>1. child[c] = "write" /\ child'[c] = "read" /\ UNCHANGED <<config, reported, job>>
    BY <1>6, <1>12 DEF WriteMigration
  <2>2. InOrder(c)'
    BY <1>0, <1>1, <1>2, <2>1 DEF InOrder
  <2> QED
    BY <1>8, <2>1, <2>2
<1>13. CASE ReadConfig(c)
  <2>1. CASE ChildEnds(c, "err")
    BY <1>7, <1>8, <1>13, <2>1 DEF ReadConfig, package
  <2>2. CASE /\ config.whole /\ job' = [job EXCEPT ![c].registry = config.registry]
             /\ ChildGoes(c, "truncate")
    <3>1. /\ child[c] = "read" /\ child'[c] = "truncate" /\ UNCHANGED <<files, config, reported>>
          /\ job'[c].version = job[c].version /\ job'[c].registry = config.registry
      BY <1>0, <1>6, <1>13, <2>2 DEF ReadConfig, PackageOK, package
    <3>2. InOrder(c)'
      BY <1>0, <1>1, <1>2, <2>2, <3>1 DEF InOrder
    <3> QED
      BY <1>8, <3>1, <3>2
  <2> QED
    BY <1>13, <2>1, <2>2 DEF ReadConfig
<1>14. CASE TruncateConfig(c)
  <2>1. /\ child[c] = "truncate" /\ child'[c] = "rewrite" /\ UNCHANGED <<files, reported, job>>
        /\ ~config'.whole
    BY <1>6, <1>14 DEF TruncateConfig
  <2>2. InOrder(c)'
    BY <1>0, <1>1, <1>2, <2>1 DEF InOrder
  <2> QED
    BY <1>0, <1>1, <1>5, <2>1, <2>2
<1>15. CASE RewriteConfig(c)
  <2>1. /\ child[c] = "rewrite" /\ ChildEnds(c, "ok") /\ files' = files
        /\ config'.whole /\ config'.registry = Append(job[c].registry, job[c].version)
        /\ reported' = reported \cup {job[c].version}
    BY <1>15 DEF RewriteConfig, WithEntry
  <2>2. job[c].registry \in Seq(Times) /\ job[c].version \in Times
    BY <1>0 DEF PackageOK
  <2>3. job[c].version <= now /\ \E f \in DOMAIN files : f.version = job[c].version
    BY <1>1, <2>1 DEF InOrder, WrittenInv, Written
  <2>4. ASSUME NoTwins' PROVE Lists(config.registry, reported)'
    <3>1. Lists(job[c].registry, reported) /\ \A v \in reported : v < job[c].version
      BY <1>1, <1>2, <2>1, <2>4 DEF InOrder
    <3>2. Lists(Append(job[c].registry, job[c].version), reported \cup {job[c].version})
      BY <2>1, <2>2, <3>1, AppendLatest
    <3> QED
      BY <2>1, <3>2
  <2> QED
    BY <1>0, <1>1, <1>5, <1>7, <2>1, <2>3, <2>4
<1> QED
  BY <1>9, <1>10, <1>11, <1>12, <1>13, <1>14, <1>15 DEF MakeMigration

\* Other steps touch neither the files nor the versions that children hold.
LEMMA NextReports ==
  TypeOK /\ WrittenInv /\ AloneInv /\ ReportsInv /\ [Next]_vars => ReportsInv'
<1> SUFFICES ASSUME TypeOK, WrittenInv, AloneInv, ReportsInv, [Next]_vars,
                    \A c \in Commands : ~MakeMigration(c)
             PROVE  ReportsInv'
  BY MigrationReports
<1>1. PackageOK
  BY DEF TypeOK
<1>2. CASE crashed'
  BY <1>2 DEF ReportsInv
<1>3. CASE ~crashed'
  <2>1. \A c \in Commands : ~Crash(c)
    BY <1>3 DEF Crash
  <2>2. UNCHANGED package /\ now' \in {now, now + 1}
    BY <1>1, <2>1
       DEF Next, Command, Start, Directories, Build, Wait, Timeout, Reap, Tick, Done, vars
  <2>3. crashed' = crashed
    BY <2>1
       DEF Next, Command, Start, Directories, Build, Wait, Timeout, Reap, Tick, Done, vars,
           history
  <2>4. overlapped' = overlapped \/ overlapped' = (overlapped \/ Running # {})
    BY <2>1
       DEF Next, Command, Start, Directories, Build, Wait, Timeout, Reap, Tick, Done, vars,
           history
  <2>5. /\ job' = job
        /\ \A c \in Commands :
             \/ child'[c] = child[c]
             \/ (config.whole \/ child[c] # "rewrite") /\ child'[c] \in {"none", "name", "ok"}
    BY <1>1, <2>1
       DEF Next, Command, Start, Directories, Build, Wait, Timeout, Reap, Tick, Done, vars,
           PackageOK, Compiles
  <2>6. NoTwins' = NoTwins
    BY <2>2 DEF NoTwins, package
  <2>7. \A t \in Times : t <= now => t <= now'
    BY <1>1, <2>2, CommandAssumption DEF PackageOK, Times
  <2>8. ASSUME NEW c \in Commands, InOrder(c) PROVE InOrder(c)'
    <3>1. job[c].version <= now'
      BY <1>1, <2>7, <2>8 DEF InOrder, PackageOK
    <3> QED
      BY <2>2, <2>5, <2>6, <2>8, <3>1 DEF InOrder, package
  <2>9. ASSUME ~overlapped' PROVE ~overlapped
    BY <2>4, <2>9
  <2>10. reported \subseteq Times
    BY <1>1 DEF PackageOK
  <2> SUFFICES ASSUME ~overlapped'
               PROVE  /\ \A v \in reported' : v <= now' /\ \E f \in DOMAIN files' : f.version = v
                      /\ \A c \in Commands : InOrder(c)'
                      /\ config'.whole \/ \E c \in Commands : child'[c] = "rewrite"
                      /\ config'.whole /\ NoTwins' => Lists(config.registry, reported)'
    BY DEF ReportsInv
  <2>11. /\ \A v \in reported : v <= now /\ \E f \in DOMAIN files : f.version = v
         /\ \A c \in Commands : InOrder(c)
         /\ config.whole \/ \E c \in Commands : child[c] = "rewrite"
         /\ config.whole /\ NoTwins => Lists(config.registry, reported)
    BY <1>3, <2>3, <2>9 DEF ReportsInv
  <2> QED
    BY <2>2, <2>5, <2>6, <2>7, <2>8, <2>10, <2>11 DEF package
<1> QED
  BY <1>2, <1>3

\* Before the first command.
LEMMA InitReports == Init => AloneInv /\ ReportsInv
<1> SUFFICES ASSUME Init PROVE AloneInv /\ ReportsInv
  OBVIOUS
<1>1. AloneInv
  BY DEF Init, AloneInv, Running
<1>2. Lists(<<>>, {})
  BY DEF Lists, ToSet
<1>3. ReportsInv
  BY <1>2 DEF Init, ReportsInv, InOrder, NoJob
<1> QED
  BY <1>1, <1>3

\* Revisions that are run one after the other, and are not killed, are all in
\* the registry, each once and in the order of their versions.
THEOREM HoldsReports == Spec => []RegistryIsTheReports
<1>1. TypeOK /\ WrittenInv /\ AloneInv /\ ReportsInv /\ [Next]_vars
        => TypeOK' /\ WrittenInv' /\ AloneInv' /\ ReportsInv'
  BY NextType, NextWritten, NextAlone, NextReports
<1>2. ReportsInv => RegistryIsTheReports
  BY DEF ReportsInv, RegistryIsTheReports, Running
<1> QED
  BY InitType, InitWritten, InitReports, <1>1, <1>2, PTL DEF Spec
=============================================================================
