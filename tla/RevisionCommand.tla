--------------------------- MODULE RevisionCommand ---------------------------
(***************************************************************************)
(* The commands of qrafter-migrations and the files they share.            *)
(*                                                                         *)
(* A command (revision_runner.go) writes a small program into a temporary  *)
(* directory below .qrafter/tmp, has "go run" compile it together with the *)
(* project's migrations package and waits for it until a timeout.  Killing *)
(* "go run" does not kill the program it runs: the child, which may outlive*)
(* its command.  The child of "revision" calls MakeMigration: it writes a  *)
(* migration file, named by the second and a comment, and rewrites         *)
(* qrafter_config.go with the new version added to the registry.  The      *)
(* child of "up" and "down" touches no files (see MigrationApply).         *)
(***************************************************************************)
EXTENDS Integers, FiniteSets, Sequences, SequencesExt, TLC

CONSTANTS
  Commands,  \* processes
  Comments,  \* comments that revisions are given
  MaxTime,   \* bound: seconds that pass
  MaxRuns    \* bound: commands run in a behaviour

ASSUME CommandAssumption ==
  /\ Comments # {}
  /\ MaxTime \in Nat
  /\ MaxRuns \in Nat

VARIABLES
  now,        \* the clock, in seconds
  dirs,       \* .qrafter and .qrafter/tmp as far as they exist
  temps,      \* temporary directories, by the number of the run
  files,      \* migration files: [version, comment] -> is it written in full?
  config,     \* qrafter_config.go: [whole, registry]
  pc,         \* where a command is
  run,        \* the number of its run
  child,      \* where the program that it started is, "none" when there is none
  job,        \* what that program works with: [version, comment, registry]
  runs,       \* commands run so far
  reported,   \* versions that a child has reported as created
  overlapped, \* two children have run at the same time
  crashed     \* a command or a child has died

shared  == <<dirs, temps>>
package == <<files, config, reported>>
history == <<overlapped, crashed>>
vars == <<now, shared, package, pc, run, child, job, runs, history>>

Root == ".qrafter"
Tmp  == ".qrafter/tmp"

NoJob == [version |-> 0, comment |-> CHOOSE c \in Comments : TRUE, registry |-> <<>>]

Init ==
  /\ now = 0
  /\ dirs = {} /\ temps = {}
  /\ files = <<>>
  /\ config = [whole |-> TRUE, registry |-> <<>>]
  /\ pc = [c \in Commands |-> "idle"]
  /\ run = [c \in Commands |-> 0]
  /\ child = [c \in Commands |-> "none"]
  /\ job = [c \in Commands |-> NoJob]
  /\ runs = 0
  /\ reported = {}
  /\ overlapped = FALSE /\ crashed = FALSE

-----------------------------------------------------------------------------
(* runTemporaryMigrationBuild                                              *)

GoTo(c, place) == pc' = [pc EXCEPT ![c] = place]

\* Bound: a command is not run again while its child is left over.
Start(c) ==
  /\ pc[c] = "idle" /\ child[c] = "none"
  /\ runs < MaxRuns
  /\ GoTo(c, "stat")
  /\ runs' = runs + 1
  /\ run' = [run EXCEPT ![c] = runs + 1]
  /\ UNCHANGED <<now, shared, package, child, job, history>>

\* os.MkdirAll: is there .qrafter/tmp?  If not, make .qrafter, then tmp.
StatRoot(c) ==
  /\ pc[c] = "stat"
  /\ GoTo(c, IF Tmp \in dirs THEN "mktemp" ELSE "mkroot")
  /\ UNCHANGED shared

MakeRoot(c) ==
  /\ pc[c] = "mkroot"
  /\ dirs' = dirs \cup {Root}
  /\ GoTo(c, "mktmp")
  /\ UNCHANGED temps

MakeTmp(c) ==
  /\ pc[c] = "mktmp"
  /\ \/ /\ Root \in dirs
        /\ dirs' = dirs \cup {Tmp}
        /\ GoTo(c, "mktemp")
     \/ /\ Root \notin dirs
        /\ GoTo(c, "idle")
        /\ UNCHANGED dirs
  /\ UNCHANGED temps

\* os.MkdirTemp and main.go in it; from here on the deferred calls clean up.
MakeTemp(c) ==
  /\ pc[c] = "mktemp"
  /\ \/ Tmp \in dirs /\ temps' = temps \cup {run[c]} /\ GoTo(c, "build")
     \/ Tmp \notin dirs /\ GoTo(c, "rmroot") /\ UNCHANGED temps
  /\ UNCHANGED dirs

RemoveTemp(c) ==
  /\ pc[c] = "rmtemp"
  /\ temps' = temps \ {run[c]}
  /\ GoTo(c, "rmroot")
  /\ UNCHANGED dirs

\* Mutants of RemoveTmp: with everything in it, and not at all.
RemoveTmpAll(c) ==
  /\ pc[c] = "rmroot"
  /\ dirs' = dirs \ {Tmp}
  /\ temps' = {}
  /\ GoTo(c, "rmdir")

RemoveTmpNever(c) ==
  /\ pc[c] = "rmroot"
  /\ GoTo(c, "rmdir")
  /\ UNCHANGED shared

\* os.Remove removes a directory only when it is empty.
RemoveTmp(c) ==
  /\ pc[c] = "rmroot"
  /\ dirs' = IF temps = {} THEN dirs \ {Tmp} ELSE dirs
  /\ GoTo(c, "rmdir")
  /\ UNCHANGED temps

\* Mutant of RemoveRoot: whatever is in it.
RemoveRootAlways(c) ==
  /\ pc[c] = "rmdir"
  /\ dirs' = dirs \ {Root}
  /\ GoTo(c, "idle")
  /\ UNCHANGED temps

RemoveRoot(c) ==
  /\ pc[c] = "rmdir"
  /\ dirs' = IF Tmp \in dirs THEN dirs ELSE dirs \ {Root}
  /\ GoTo(c, "idle")
  /\ UNCHANGED temps

Directories(c) ==
  /\ \/ StatRoot(c) \/ MakeRoot(c) \/ MakeTmp(c) \/ MakeTemp(c)
     \/ RemoveTemp(c) \/ RemoveTmp(c) \/ RemoveRoot(c)
  /\ UNCHANGED <<now, package, run, child, job, runs, history>>

-----------------------------------------------------------------------------
(* go run                                                                  *)

\* The functions Up<version> that the package has, and those it registers.
FileVersions == {f.version : f \in DOMAIN files}

\* No two migration files fell into the same second.
NoTwins == \A f, g \in DOMAIN files : f.version = g.version => f = g

\* The compiler accepts the package: nothing half written, no function twice,
\* none missing.
Compiles ==
  /\ config.whole
  /\ \A f \in DOMAIN files : files[f]
  /\ NoTwins
  /\ ToSet(config.registry) \subseteq FileVersions

Running == {c \in Commands : child[c] \notin {"none", "ok", "err"}}

Build(c) ==
  /\ pc[c] = "build"
  /\ \/ /\ Compiles
        /\ GoTo(c, "wait")
        /\ \E first \in {"name", "ok"} : child' = [child EXCEPT ![c] = first]
        /\ overlapped' = (overlapped \/ Running # {})
     \/ ~Compiles /\ GoTo(c, "rmtemp") /\ UNCHANGED <<child, overlapped>>
  /\ UNCHANGED <<now, shared, package, run, job, runs, crashed>>

\* The child has ended; its status is the command's.
Wait(c) ==
  /\ pc[c] = "wait"
  /\ child[c] \in {"ok", "err"}
  /\ GoTo(c, "rmtemp")
  /\ child' = [child EXCEPT ![c] = "none"]
  /\ UNCHANGED <<now, shared, package, run, job, runs, history>>

\* exec.CommandContext kills go run, and the child goes on without it.
Timeout(c) ==
  /\ pc[c] \in {"build", "wait"}
  /\ GoTo(c, "rmtemp")
  /\ UNCHANGED <<now, shared, package, run, child, job, runs, history>>

\* A child whose command has given up is nobody's when it ends.
Reap(c) ==
  /\ pc[c] = "idle"
  /\ child[c] \in {"ok", "err"}
  /\ child' = [child EXCEPT ![c] = "none"]
  /\ UNCHANGED <<now, shared, package, pc, run, job, runs, history>>

-----------------------------------------------------------------------------
(* MakeMigration, in the child                                             *)

Name(c) == [version |-> job[c].version, comment |-> job[c].comment]

ChildGoes(c, place) == child' = [child EXCEPT ![c] = place]
ChildEnds(c, how) == ChildGoes(c, how) /\ job' = [job EXCEPT ![c] = NoJob]

\* migrationFileName
TakeName(c) ==
  /\ child[c] = "name"
  /\ \E t \in Comments : job' = [job EXCEPT ![c] = [NoJob EXCEPT !.version = now, !.comment = t]]
  /\ ChildGoes(c, "diff")
  /\ UNCHANGED package

\* getSchemaDiff, which the database may fail
ReadSchemas(c) ==
  /\ child[c] = "diff"
  /\ \/ ChildGoes(c, "create") /\ UNCHANGED job
     \/ ChildEnds(c, "err")
  /\ UNCHANGED package

\* The package with an empty file of this name, which it did not have.
WithFile(name) == [f \in DOMAIN files \cup {name} |-> f \in DOMAIN files /\ files[f]]

\* Mutant of CreateMigration: a file of that name will do.
CreateMigrationUnlessThere(c) ==
  /\ child[c] = "create"
  /\ \/ Name(c) \in DOMAIN files /\ ChildGoes(c, "read") /\ UNCHANGED files
     \/ /\ Name(c) \notin DOMAIN files
        /\ files' = WithFile(Name(c))
        /\ ChildGoes(c, "write")
  /\ UNCHANGED <<config, reported, job>>

\* createFile: O_EXCL, then the contents
CreateMigration(c) ==
  /\ child[c] = "create"
  /\ \/ Name(c) \in DOMAIN files /\ ChildEnds(c, "err") /\ UNCHANGED files
     \/ /\ Name(c) \notin DOMAIN files
        /\ files' = WithFile(Name(c))
        /\ ChildGoes(c, "write")
        /\ UNCHANGED job
  /\ UNCHANGED <<config, reported>>

WriteMigration(c) ==
  /\ child[c] = "write"
  /\ files' = [files EXCEPT ![Name(c)] = TRUE]
  /\ ChildGoes(c, "read")
  /\ UNCHANGED <<config, reported, job>>

\* appendMigrationToRegistry: read the file, find the registry in it, ...
ReadConfig(c) ==
  /\ child[c] = "read"
  /\ \/ /\ config.whole
        /\ job' = [job EXCEPT ![c].registry = config.registry]
        /\ ChildGoes(c, "truncate")
     \/ ~config.whole /\ ChildEnds(c, "err")
  /\ UNCHANGED package

\* ... and os.WriteFile: truncate, then write
TruncateConfig(c) ==
  /\ child[c] = "truncate"
  /\ config' = [whole |-> FALSE, registry |-> <<>>]
  /\ ChildGoes(c, "rewrite")
  /\ UNCHANGED <<files, reported, job>>

\* Mutant of WithEntry: the new entry comes first.
WithEntryFirst(registry, version) == <<version>> \o registry

WithEntry(registry, version) == Append(registry, version)

RewriteConfig(c) ==
  /\ child[c] = "rewrite"
  /\ config' = [whole |-> TRUE, registry |-> WithEntry(job[c].registry, job[c].version)]
  /\ reported' = reported \cup {job[c].version}
  /\ ChildEnds(c, "ok")
  /\ UNCHANGED files

MakeMigration(c) ==
  /\ \/ TakeName(c) \/ ReadSchemas(c) \/ CreateMigration(c) \/ WriteMigration(c)
     \/ ReadConfig(c) \/ TruncateConfig(c) \/ RewriteConfig(c)
  /\ UNCHANGED <<now, shared, pc, run, runs, history>>

-----------------------------------------------------------------------------
Tick ==
  /\ now < MaxTime
  /\ now' = now + 1
  /\ UNCHANGED <<shared, package, pc, run, child, job, runs, history>>

\* The command dies without the deferred calls, alone or with its child.
Crash(c) ==
  /\ pc[c] # "idle" \/ child[c] # "none"
  /\ GoTo(c, "idle")
  /\ ChildEnds(c, "none") \/ UNCHANGED <<child, job>>
  /\ crashed' = TRUE
  /\ UNCHANGED <<now, shared, package, run, runs, overlapped>>

Done ==
  /\ runs = MaxRuns
  /\ \A c \in Commands : pc[c] = "idle" /\ child[c] = "none"
  /\ UNCHANGED vars

Command(c) == Directories(c) \/ Build(c) \/ Wait(c) \/ Timeout(c)

Next ==
  \/ \E c \in Commands : Start(c) \/ Command(c) \/ Reap(c) \/ MakeMigration(c) \/ Crash(c)
  \/ Tick
  \/ Done

Spec == Init /\ [][Next]_vars

-----------------------------------------------------------------------------
(* Properties.                                                             *)

\* Where a command and its child may be.
Places == {"idle", "stat", "mkroot", "mktmp", "mktemp", "build", "wait", "rmtemp",
           "rmroot", "rmdir"}
ChildPlaces == {"none", "name", "diff", "create", "write", "read", "truncate", "rewrite",
                "ok", "err"}
Times == 0 .. MaxTime

\* The directories are a tree, and every run has its number.
DirectoriesOK ==
  /\ dirs \in {{}, {Root}, {Root, Tmp}}
  /\ temps # {} => Tmp \in dirs
  /\ temps \subseteq 1 .. runs
  /\ pc \in [Commands -> Places]
  /\ run \in [Commands -> 0 .. runs]
  /\ \A c \in Commands : pc[c] # "idle" => run[c] # 0
  /\ runs \in 0 .. MaxRuns

PackageOK ==
  /\ now \in Times
  /\ DOMAIN files \subseteq [version : Times, comment : Comments]
  /\ files \in [DOMAIN files -> BOOLEAN]
  /\ config \in [whole : BOOLEAN, registry : Seq(Times)]
  /\ child \in [Commands -> ChildPlaces]
  /\ job \in [Commands -> [version : Times, comment : Comments, registry : Seq(Times)]]
  /\ reported \subseteq Times

\* Every variable has its type.
TypeOK == DirectoriesOK /\ PackageOK /\ overlapped \in BOOLEAN /\ crashed \in BOOLEAN

\* What the registry names, the package has: whatever runs at the same time,
\* goes on after a timeout or dies, "up" never meets a registered migration
\* whose file is missing or half written.
RegisteredIsWritten ==
  \A v \in ToSet(config.registry) :
    \E f \in DOMAIN files : f.version = v /\ files[f]

\* No command loses the directory it builds in to the cleanup of another.
BuildKeepsItsDirectory ==
  \A c \in Commands : pc[c] \in {"build", "wait", "rmtemp"} =>
    run[c] \in temps /\ dirs = {Root, Tmp}

\* Commands that end, however they end, leave no directory behind.
NothingLeftBehind ==
  ~crashed /\ (\A c \in Commands : pc[c] = "idle") => dirs = {} /\ temps = {}

\* A registry of these versions, each once and in order.
Lists(registry, versions) ==
  /\ ToSet(registry) = versions
  /\ \A i, j \in DOMAIN registry : i < j => registry[i] < registry[j]

\* As long as no two children have run at the same time and none has died, the
\* registry holds what revisions have reported, each once and in the order of
\* the versions, provided that no two of them fell into the same second.
RegistryIsTheReports ==
  ~overlapped /\ ~crashed /\ Running = {} /\ NoTwins
    => config.whole /\ Lists(config.registry, reported)
-----------------------------------------------------------------------------
(* The inductive invariants, each to be read together with TypeOK.         *)

\* Behind RegisteredIsWritten: what a child is about to write to the registry
\* is written, too.
Written(v) == \E f \in DOMAIN files : f.version = v /\ files[f]

WrittenInv ==
  /\ RegisteredIsWritten
  /\ \A c \in Commands :
       /\ child[c] = "write" => Name(c) \in DOMAIN files
       /\ child[c] \in {"read", "truncate", "rewrite"} => Written(job[c].version)
       /\ child[c] \in {"truncate", "rewrite"} =>
            \A v \in ToSet(job[c].registry) : Written(v)

\* Behind BuildKeepsItsDirectory: each run has a directory of its own.
HasTemp(c) == pc[c] \in {"build", "wait", "rmtemp"}

OwnRun == \A c, d \in Commands : run[c] = run[d] /\ run[c] # 0 => c = d

TempInv ==
  /\ OwnRun
  /\ \A c \in Commands : HasTemp(c) => run[c] \in temps

\* Behind NothingLeftBehind: as long as none has died, for each directory that
\* is there a command is there that removes it or meets one that does.
RemovesTmp(c)  == HasTemp(c) \/ pc[c] \in {"mktemp", "rmroot"}
RemovesRoot(c) == RemovesTmp(c) \/ pc[c] \in {"mktmp", "rmdir"}

CleanupInv ==
  ~crashed =>
    /\ \A t \in temps : \E c \in Commands : HasTemp(c) /\ run[c] = t
    /\ Tmp \in dirs => \E c \in Commands : RemovesTmp(c)
    /\ Root \in dirs => \E c \in Commands : RemovesRoot(c)

\* Behind RegistryIsTheReports: one child runs at a time; the version it has
\* taken is not before any that is reported, and after them all once it has its
\* file, and the registry it has read is that of the reports until it has
\* reported its own.
AloneInv == ~overlapped => \A c, d \in Running : c = d

InOrder(c) ==
  /\ job[c].version <= now
  /\ child[c] \in {"diff", "create"} => \A v \in reported : v <= job[c].version
  /\ child[c] \in {"write", "read", "truncate", "rewrite"} /\ NoTwins =>
       \A v \in reported : v < job[c].version
  /\ child[c] \in {"truncate", "rewrite"} /\ NoTwins => Lists(job[c].registry, reported)

ReportsInv ==
  ~overlapped /\ ~crashed =>
    /\ \A v \in reported : v <= now /\ \E f \in DOMAIN files : f.version = v
    /\ \A c \in Commands : InOrder(c)
    /\ config.whole \/ \E c \in Commands : child[c] = "rewrite"
    /\ config.whole /\ NoTwins => Lists(config.registry, reported)
=============================================================================
