-------------------------------- MODULE Driver --------------------------------
(***************************************************************************)
(* The driver, src/main.c: one build after another compiles a source to the *)
(* same output path, through a temporary file that is renamed into place.   *)
(*                                                                         *)
(* A step is one system call, with every result it can have, so a build may *)
(* be interrupted between any two of them.  The output of a build is a      *)
(* sequence of chunks, the contents of one stdio buffer each; chunk i of    *)
(* build b is <<b, i>>.  Two processes that build to the same path share    *)
(* the name of the temporary file and, through it, the file.                *)
(***************************************************************************)
EXTENDS Integers, Sequences

CONSTANTS
  Procs,       \* the processes that build to this output path
  Chunks,      \* the length of one build's output, in buffers
  MaxBuilds,   \* bound: the number of builds
  Windows,     \* rename() refuses to replace a file
  None         \* no file

ASSUME DriverAssumption ==
  /\ Chunks \in Nat \ {0}
  /\ MaxBuilds \in Nat
  /\ Windows \in BOOLEAN
  /\ None \notin Nat

VARIABLES
  dir,      \* the directory: the file at the output path and at path.mycc-tmp
  data,     \* the contents of the files, which are numbered by their creator
  proc,     \* what each process is doing
  builds,   \* the number of builds begun so far
  lost      \* history: the chunks of each build that a failed write() dropped

vars == <<dir, data, proc, builds, lost>>

Files == 1..MaxBuilds
Names == {"out", "tmp"}

(* The states of main() with an -o option, named after the call it is about   *)
(* to make; status is how the process's last build ended.                    *)
Working == {"front", "gen", "close", "rename", "remove", "retry", "clean"}
Proc == [at: Working \cup {"idle"}, build: 0..MaxBuilds, file: Files \cup {None},
         made: 0..Chunks, offset: 0..Chunks, failed: BOOLEAN,
         status: {"none", "ok", "error", "killed"}]

At(p, at) == proc[p].at = at
Goto(p, at) == proc' = [proc EXCEPT ![p].at = at]
Exit(p, status) ==
  proc' = [proc EXCEPT ![p].at = "idle", ![p].status = status]

(***************************************************************************)
(* Writing to a file.                                                      *)
(***************************************************************************)
Hole == <<0, 0>>

(* The contents c with chunk x put at an offset, which may be past the end     *)
(* when another process truncated the file.                                  *)
Put(c, offset, x) ==
  [i \in 1..(IF offset < Len(c) THEN Len(c) ELSE offset + 1) |->
     IF i = offset + 1 THEN x ELSE IF i <= Len(c) THEN c[i] ELSE Hole]

(* One write() of the next chunk.  When it fails, stdio drops the buffer, sets *)
(* the error indicator that nobody reads, and goes on at the same offset; the *)
(* next write may well succeed.                                              *)
WriteChunk(p, at) ==
  LET q == proc[p]
  IN  \/ /\ data' = [data EXCEPT ![q.file] = Put(@, q.offset, <<q.build, q.made + 1>>)]
         /\ proc' = [proc EXCEPT ![p].made = @ + 1, ![p].offset = @ + 1, ![p].at = at]
         /\ UNCHANGED lost
      \/ /\ proc' = [proc EXCEPT ![p].made = @ + 1, ![p].at = at, ![p].failed = (at = "close")]
         /\ lost' = [lost EXCEPT ![q.build] = @ \cup {q.made + 1}]
         /\ UNCHANGED data

(***************************************************************************)
(* One build.                                                              *)
(***************************************************************************)
Begin(p) ==
  /\ At(p, "idle")
  /\ builds < MaxBuilds
  /\ builds' = builds + 1
  /\ proc' = [proc EXCEPT ![p] =
       [at |-> "front", build |-> builds + 1, file |-> None, made |-> 0,
        offset |-> 0, failed |-> FALSE, status |-> "none"]]
  /\ UNCHANGED <<dir, data, lost>>

(* The source cannot be read, or parsing or semantic analysis reports an error:*)
(* no file was touched yet.                                                  *)
FrontEndFails(p) ==
  /\ At(p, "front")
  /\ Exit(p, "error")
  /\ UNCHANGED <<dir, data, builds, lost>>

(* Mutant: the output path itself is opened, as before BUG-017. *)
OpenTmp_InPlace(p) ==
  /\ At(p, "front")
  /\ LET file == IF dir["out"] = None THEN proc[p].build ELSE dir["out"]
     IN  /\ dir' = [dir EXCEPT !["out"] = file]
         /\ data' = [data EXCEPT ![file] = <<>>]
         /\ proc' = [proc EXCEPT ![p].at = "gen", ![p].file = file]
  /\ UNCHANGED <<builds, lost>>

(* Mutant: the temporary file is opened for appending. *)
OpenTmp_Append(p) ==
  /\ At(p, "front")
  /\ LET file == IF dir["tmp"] = None THEN proc[p].build ELSE dir["tmp"]
     IN  /\ dir' = [dir EXCEPT !["tmp"] = file]
         /\ proc' = [proc EXCEPT ![p].at = "gen", ![p].file = file, ![p].offset = Len(data[file])]
  /\ UNCHANGED <<data, builds, lost>>

(* fopen(tmp_path, "w") truncates the file that is there, or makes one. *)
OpenTmp(p) ==
  /\ At(p, "front")
  /\ LET file == IF dir["tmp"] = None THEN proc[p].build ELSE dir["tmp"]
     IN  /\ dir' = [dir EXCEPT !["tmp"] = file]
         /\ data' = [data EXCEPT ![file] = <<>>]
         /\ proc' = [proc EXCEPT ![p].at = "gen", ![p].file = file]
  /\ UNCHANGED <<builds, lost>>

OpenTmpFails(p) ==
  /\ At(p, "front")
  /\ Exit(p, "error")
  /\ UNCHANGED <<dir, data, builds, lost>>

(* codegen_generate() fills a buffer. *)
Generate(p) ==
  /\ At(p, "gen")
  /\ proc[p].made + 1 < Chunks
  /\ WriteChunk(p, "gen")
  /\ UNCHANGED <<dir, builds>>

(* Mutant: the error path only closes the file. *)
GenerateFails_KeepsTmp(p) ==
  /\ At(p, "gen")
  /\ Exit(p, "error")
  /\ UNCHANGED <<dir, data, builds, lost>>

(* codegen_generate() reported an error: fclose() may still write a buffer. *)
GenerateFails(p) ==
  /\ At(p, "gen")
  /\ \/ WriteChunk(p, "clean")
     \/ Goto(p, "clean") /\ UNCHANGED <<data, lost>>
  /\ UNCHANGED <<dir, builds>>

(* fflush(): the last buffer is written, and the result is looked at. *)
Flush(p) ==
  /\ At(p, "gen")
  /\ proc[p].made + 1 = Chunks
  /\ WriteChunk(p, "close")
  /\ UNCHANGED <<dir, builds>>

(* Mutant: the results of fflush() and fclose() are ignored. *)
Close_Unchecked(p) ==
  /\ At(p, "close")
  /\ Goto(p, "rename")
  /\ UNCHANGED <<dir, data, builds, lost>>

Close(p) ==
  /\ At(p, "close")
  /\ \E ok \in BOOLEAN :
       LET failed == proc[p].failed \/ ~ok
       IN  proc' = [proc EXCEPT ![p].failed = failed,
                                ![p].at = IF failed THEN "clean" ELSE "rename"]
  /\ UNCHANGED <<dir, data, builds, lost>>

CanRename == dir["tmp"] /= None /\ ~(Windows /\ dir["out"] /= None)
Renamed == [out |-> dir["tmp"], tmp |-> None]

(* rename() puts the file in place; whatever it fails for, the old output is   *)
(* taken to be in the way and a second attempt follows its removal.          *)
Rename(p) ==
  /\ At(p, "rename")
  /\ \/ CanRename /\ dir' = Renamed /\ Exit(p, "ok")
     \/ Goto(p, "remove") /\ UNCHANGED dir
  /\ UNCHANGED <<data, builds, lost>>

Remove(p) ==
  /\ At(p, "remove")
  /\ dir' \in {dir, [dir EXCEPT !["out"] = None]}
  /\ Goto(p, "retry")
  /\ UNCHANGED <<data, builds, lost>>

(* Mutant: the second attempt is made until it works. *)
Retry_Forever(p) ==
  /\ At(p, "retry")
  /\ \/ CanRename /\ dir' = Renamed /\ Exit(p, "ok")
     \/ Goto(p, "remove") /\ UNCHANGED dir
  /\ UNCHANGED <<data, builds, lost>>

Retry(p) ==
  /\ At(p, "retry")
  /\ \/ CanRename /\ dir' = Renamed /\ Exit(p, "ok")
     \/ Goto(p, "clean") /\ UNCHANGED dir
  /\ UNCHANGED <<data, builds, lost>>

(* remove(tmp_path), then exit status 1. *)
Clean(p) ==
  /\ At(p, "clean")
  /\ dir' = [dir EXCEPT !["tmp"] = None]
  /\ Exit(p, "error")
  /\ UNCHANGED <<data, builds, lost>>

(* Out of memory (util.c 106-174), a trap in the compiler, or a kill: nothing   *)
(* is cleaned up.                                                            *)
Dies(p) ==
  /\ proc[p].at \in Working
  /\ Exit(p, "killed")
  /\ UNCHANGED <<dir, data, builds, lost>>

(* A call that returns; the process goes on. *)
Step(p) ==
  \/ FrontEndFails(p) \/ OpenTmp(p) \/ OpenTmpFails(p)
  \/ Generate(p) \/ GenerateFails(p) \/ Flush(p) \/ Close(p)
  \/ Rename(p) \/ Remove(p) \/ Retry(p) \/ Clean(p)

Init ==
  /\ dir = [n \in Names |-> None]
  /\ data = [f \in Files |-> <<>>]
  /\ proc = [p \in Procs |->
       [at |-> "idle", build |-> 0, file |-> None, made |-> 0, offset |-> 0,
        failed |-> FALSE, status |-> "none"]]
  /\ builds = 0
  /\ lost = [b \in Files |-> {}]

Next == \E p \in Procs : Begin(p) \/ Step(p) \/ Dies(p)

(* System calls return: a build that was begun goes on. *)
Spec == Init /\ [][Next]_vars /\ \A p \in Procs : WF_vars(Step(p))

(***************************************************************************)
(* Properties.                                                             *)
(***************************************************************************)
Output == IF dir["out"] = None THEN <<>> ELSE data[dir["out"]]

TypeOK ==
  /\ dir \in [Names -> Files \cup {None}]
  /\ data \in [Files -> Seq((0..MaxBuilds) \X (0..Chunks))]
  /\ proc \in [Procs -> Proc]
  /\ builds \in 0..MaxBuilds
  /\ lost \in [Files -> SUBSET (1..Chunks)]

(* The contents c are the first k chunks of build b in their order, each once, *)
(* but for the missing ones.                                                 *)
Holds(c, b, k, missing) ==
  /\ \A i, j \in DOMAIN c : i < j => c[i][2] < c[j][2]
  /\ {c[i] : i \in DOMAIN c} = {<<b, i>> : i \in (1..k) \ missing}

(* What main() takes for the whole output of build b, when write() has lost     *)
(* the chunks in missing.  It looks at the last write only (main.c 265-268),    *)
(* so a chunk that an earlier one lost is missing from the output, and nobody  *)
(* is told: that, and nothing else, may be wrong with it.                      *)
Built(c, b, missing) == Chunks \notin missing /\ Holds(c, b, Chunks, missing)

(* The output path never holds a file that is not what one build wrote from    *)
(* its first chunk to its last, wherever a build was interrupted and whatever  *)
(* an interrupted one left in the temporary file (main.c 231-234;             *)
(* docs/report.md:624 "atomic, also fixes a race if two builds share a path"). *)
OutputWhole == dir["out"] /= None => \E b \in 1..builds : Built(Output, b, lost[b])

(* Exit status 0 means that the output is that of this build, and that its     *)
(* last write succeeded (main.c 265 "catch a full disk").                     *)
SuccessMeansBuilt ==
  \A p \in Procs : At(p, "idle") /\ proc[p].status = "ok" =>
    dir["out"] /= None /\ Built(Output, proc[p].build, lost[proc[p].build])

(* A build that opened the temporary file and ended by itself removed it or   *)
(* renamed it; only one that died leaves it, for the next build to truncate   *)
(* (docs/report.md:627 "Every exit path removes the temp file").             *)
TmpRemoved ==
  \A p \in Procs :
    /\ At(p, "idle")
    /\ proc[p].status \in {"ok", "error"}
    /\ proc[p].file /= None
    => dir["tmp"] = None

(* Only rename() and the removal before its second attempt change what is at  *)
(* the output path: a build that fails earlier leaves the previous one there. *)
Renaming == \E p \in Procs : proc[p].at \in {"rename", "remove", "retry"}
OutputKept == Output' = Output \/ Renaming
OnlyRenamed == [][OutputKept]_vars

(* Every build ends. *)
BuildsEnd == \A p \in Procs : proc[p].at \in Working ~> At(p, "idle")
===============================================================================
