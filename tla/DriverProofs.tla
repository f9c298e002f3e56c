----------------------------- MODULE DriverProofs -----------------------------
(***************************************************************************)
(* Driver, proved for every output length, number of builds and platform,   *)
(* when one process at a time builds to the path.  Any write may fail, and    *)
(* the next one succeed.                                                     *)
(***************************************************************************)
EXTENDS Driver, TLAPS

(***************************************************************************)
(* The inductive invariant: a relation between the directory d, the         *)
(* contents c, the state q of the process, the number n of builds begun and *)
(* the chunks l that their writes lost.                                     *)
(***************************************************************************)
Contents == Seq((0..MaxBuilds) \X (0..Chunks))

(* The temporary file is this build's, from its opening to its end. *)
Opened == {"gen", "close", "rename", "remove", "retry", "clean"}

Typed(d, c, q, n, l) ==
  /\ d \in [Names -> Files \cup {None}]
  /\ c \in [Files -> Contents]
  /\ q \in Proc
  /\ n \in 0..MaxBuilds
  /\ l \in [Files -> SUBSET (1..Chunks)]

(* The two names are never the same file, and a build has a number that is   *)
(* no file's until it opens its own.                                         *)
Apart(d, q, n) ==
  /\ d["tmp"] /= None => d["tmp"] /= d["out"] /\ d["tmp"] <= n
  /\ d["out"] /= None => d["out"] <= n
  /\ q.at \in Working => q.build = n /\ n > 0
  /\ q.at = "front" => d["tmp"] /= n /\ d["out"] /= n

(* A build that has not begun has lost nothing. *)
Untouched(n, l) == \A b \in Files : b > n => l[b] = {}

(* What the build's file holds: all that was made so far and not lost. *)
Progress(d, c, q, l) ==
  /\ q.at = "front" => /\ q.file = None /\ l[q.build] = {}
                       /\ q.made = 0 /\ q.offset = 0
  /\ q.at \in Opened => q.file /= None /\ d["tmp"] = q.file
  /\ q.at = "gen" => /\ q.made < Chunks /\ l[q.build] \subseteq 1..q.made
                     /\ q.offset = Len(c[q.file]) /\ q.offset <= q.made
                     /\ Holds(c[q.file], q.build, q.made, l[q.build])
  /\ q.at = "close" /\ ~q.failed => Built(c[q.file], q.build, l[q.build])
  /\ q.at \in {"rename", "remove", "retry"} => Built(c[q.file], q.build, l[q.build])

(* What OutputWhole, SuccessMeansBuilt and TmpRemoved say; and the output is   *)
(* of an earlier build than the one at work, whose losses do not touch it.     *)
Promise(d, c, q, n, l) ==
  /\ d["out"] /= None =>
       \E b \in 1..n : Built(c[d["out"]], b, l[b]) /\ (q.at \in Working => b /= n)
  /\ q.at = "idle" /\ q.status = "ok" =>
       d["out"] /= None /\ Built(c[d["out"]], q.build, l[q.build])
  /\ q.at = "idle" /\ q.status \in {"ok", "error"} /\ q.file /= None => d["tmp"] = None

Good(d, c, q, n, l) ==
  /\ Typed(d, c, q, n, l) /\ Apart(d, q, n) /\ Untouched(n, l)
  /\ Progress(d, c, q, l) /\ Promise(d, c, q, n, l)

IInv ==
  /\ proc \in [Procs -> Proc]
  /\ \A p \in Procs : Good(dir, data, proc[p], builds, lost)

(***************************************************************************)
(* Lemmas about contents.                                                  *)
(***************************************************************************)

(* Put() keeps the type of the contents. *)
LEMMA PutType ==
  ASSUME NEW S, Hole \in S, NEW c \in Seq(S), NEW k \in Nat, NEW x \in S
  PROVE  Put(c, k, x) \in Seq(S)
<1> DEFINE n == IF k < Len(c) THEN Len(c) ELSE k + 1
<1>1. n \in Nat  OBVIOUS
<1>2. \A i \in 1..n : (IF i = k + 1 THEN x ELSE IF i <= Len(c) THEN c[i] ELSE Hole) \in S
  <2> TAKE i \in 1..n
  <2> HIDE DEF n
  <2>1. i \in Nat /\ i >= 1  BY <1>1
  <2>2. i <= Len(c) => c[i] \in S  BY <2>1
  <2> QED BY <2>2
<1>3. Put(c, k, x) = [i \in 1..n |-> IF i = k + 1 THEN x ELSE IF i <= Len(c) THEN c[i] ELSE Hole]
  BY DEF Put
<1> HIDE DEF n
<1> QED BY <1>1, <1>2, <1>3

(* A chunk put behind the k first ones that were not lost. *)
LEMMA HoldsNext ==
  ASSUME NEW S, NEW c \in Seq(S), NEW b, NEW k \in Nat, NEW m \in SUBSET (1..k), Holds(c, b, k, m)
  PROVE  Holds(Put(c, Len(c), <<b, k + 1>>), b, k + 1, m)
<1> DEFINE n == Len(c)
           d == Put(c, n, <<b, k + 1>>)
<1>1. n \in Nat /\ DOMAIN c = 1..n  OBVIOUS
<1>2. d = [i \in 1..(n + 1) |-> IF i = n + 1 THEN <<b, k + 1>> ELSE IF i <= n THEN c[i] ELSE Hole]
  BY <1>1 DEF Put
<1> HIDE DEF n, d
<1>3. /\ DOMAIN d = 1..(n + 1) /\ d[n + 1] = <<b, k + 1>>
      /\ \A i \in 1..n : d[i] = c[i] /\ i \in 1..(n + 1)
      /\ \A i \in 1..(n + 1) : i \in 1..n \/ i = n + 1
  BY <1>1, <1>2
<1>4. \A i \in 1..n : \E e \in (1..k) \ m : c[i] = <<b, e>>
  BY <1>1 DEF Holds
<1>5. \A e \in (1..k) \ m : \E i \in 1..n : c[i] = <<b, e>>
  BY <1>1 DEF Holds
<1>6. ASSUME NEW i \in 1..(n + 1), NEW j \in 1..(n + 1), i < j
      PROVE  d[i][2] < d[j][2]
  <2>1. i \in 1..n  BY <1>1, <1>3, <1>6
  <2>2. CASE j \in 1..n
    BY <1>1, <1>3, <1>6, <2>1, <2>2 DEF Holds
  <2>3. CASE j = n + 1
    <3>1. PICK e \in (1..k) \ m : c[i] = <<b, e>>  BY <1>4, <2>1
    <3>2. d[i][2] = e /\ d[j][2] = k + 1  BY <1>3, <2>1, <2>3, <3>1
    <3> QED BY <3>1, <3>2
  <2> QED BY <1>3, <2>2, <2>3
<1>7. {d[i] : i \in DOMAIN d} = {<<b, e>> : e \in (1..(k + 1)) \ m}
  <2>1. ASSUME NEW i \in DOMAIN d PROVE \E e \in (1..(k + 1)) \ m : d[i] = <<b, e>>
    <3>1. CASE i \in 1..n  BY <1>3, <1>4, <3>1
    <3>2. CASE i = n + 1
      <4>1. k + 1 \in (1..(k + 1)) \ m  OBVIOUS
      <4> QED BY <1>3, <3>2, <4>1
    <3> QED BY <1>3, <2>1, <3>1, <3>2
  <2>2. ASSUME NEW e \in (1..(k + 1)) \ m PROVE \E i \in DOMAIN d : d[i] = <<b, e>>
    <3>1. CASE e \in 1..k  BY <1>3, <1>5, <3>1
    <3>2. CASE e = k + 1
      <4>1. n + 1 \in DOMAIN d  BY <1>1, <1>3
      <4> QED BY <1>3, <3>2, <4>1
    <3> QED BY <3>1, <3>2
  <2> QED BY <2>1, <2>2
<1> QED BY <1>3, <1>6, <1>7 DEF Holds, d, n

(* A chunk that is lost changes nothing. *)
LEMMA HoldsLost ==
  ASSUME NEW c, NEW b, NEW k \in Nat, NEW m, Holds(c, b, k, m)
  PROVE  Holds(c, b, k + 1, m \cup {k + 1})
<1>1. (1..(k + 1)) \ (m \cup {k + 1}) = (1..k) \ m  OBVIOUS
<1> QED BY <1>1 DEF Holds

LEMMA Longer ==
  ASSUME NEW k \in Nat, NEW m \in SUBSET (1..k)
  PROVE  m \subseteq 1..(k + 1) /\ m \cup {k + 1} \subseteq 1..(k + 1)
<1>1. \A e \in 1..k : e \in 1..(k + 1)  OBVIOUS
<1>2. k + 1 \in 1..(k + 1)  OBVIOUS
<1> QED BY <1>1, <1>2

(* An empty file has nothing of a build. *)
LEMMA HoldsNothing ==
  ASSUME NEW b, NEW m
  PROVE  Holds(<<>>, b, 0, m)
<1>1. (1..0) \ m = {} /\ DOMAIN <<>> = {}  OBVIOUS
<1> QED BY <1>1 DEF Holds

(* The process that takes a step is the only one: what is to be shown is that *)
(* its new state r is good with the new files.                               *)
LEMMA OneProcess ==
  ASSUME NEW p, Procs = {p}, NEW r \in Proc, proc \in [{p} -> Proc],
         proc' = [proc EXCEPT ![p] = r], Good(dir', data', r, builds', lost')
  PROVE  IInv'
<1>1. proc' \in [{p} -> Proc] /\ proc'[p] = r  OBVIOUS
<1> QED BY <1>1 DEF IInv

(* A step that only moves the process on, and ends it when at is "idle". *)
LEMMA SimpleSteps ==
  ASSUME NEW p, Procs = {p}, IInv,
         FrontEndFails(p) \/ OpenTmpFails(p) \/ Clean(p) \/ Dies(p)
  PROVE  IInv'
<1> DEFINE q == proc[p]
<1>1. /\ proc \in [{p} -> Proc] /\ q \in Proc
      /\ Typed(dir, data, q, builds, lost) /\ Apart(dir, q, builds) /\ Untouched(builds, lost)
      /\ Progress(dir, data, q, lost) /\ Promise(dir, data, q, builds, lost)
  BY DEF IInv, Good
<1>2. PICK s \in {"error", "killed"} : Exit(p, s) /\ (s = "error" => q.at = "front" \/ Clean(p))
  BY DEF FrontEndFails, OpenTmpFails, Clean, Dies, At
<1> DEFINE r == [q EXCEPT !.at = "idle", !.status = s]
<1>3. proc' = [proc EXCEPT ![p] = r]  BY <1>1, <1>2 DEF Exit
<1>4. /\ r \in Proc /\ r.at = "idle" /\ r.status = s /\ r.build = q.build
      /\ r.file = q.file
  BY <1>1 DEF Proc, Working
<1>5. /\ builds' = builds /\ data' = data /\ lost' = lost
      /\ dir' = dir \/ (dir' = [dir EXCEPT !["tmp"] = None] /\ Clean(p))
  BY DEF FrontEndFails, OpenTmpFails, Clean, Dies
<1>6. dir' \in [Names -> Files \cup {None}] /\ dir'["out"] = dir["out"]
      /\ (dir'["tmp"] = None \/ dir'["tmp"] = dir["tmp"])
      /\ (Clean(p) => dir'["tmp"] = None)
  BY <1>1, <1>5 DEF Typed, Names, Clean
<1> HIDE DEF r
<1>7. Typed(dir', data', r, builds', lost')  BY <1>1, <1>4, <1>5, <1>6 DEF Typed
<1>8. Apart(dir', r, builds')  BY <1>1, <1>4, <1>5, <1>6 DEF Apart, Working
<1>9. Progress(dir', data', r, lost')  BY <1>4 DEF Progress, Opened
<1>10. Promise(dir', data', r, builds', lost')
  <2>1. q.at = "front" => q.file = None  BY <1>1 DEF Progress
  <2>2. r.at \notin Working  BY <1>4 DEF Working
  <2> QED BY <1>1, <1>2, <1>4, <1>5, <1>6, <2>1, <2>2 DEF Promise
<1>11. Untouched(builds', lost')  BY <1>1, <1>5
<1> QED BY <1>1, <1>3, <1>4, <1>7, <1>8, <1>9, <1>10, <1>11, OneProcess DEF Good

(* A new build starts with a number no file has. *)
LEMMA BeginKeeps ==
  ASSUME NEW p, Procs = {p}, IInv, Begin(p)
  PROVE  IInv'
<1> DEFINE q == proc[p]
           r == [at |-> "front", build |-> builds + 1, file |-> None, made |-> 0,
                 offset |-> 0, failed |-> FALSE, status |-> "none"]
<1>1. /\ proc \in [{p} -> Proc]
      /\ Typed(dir, data, q, builds, lost) /\ Apart(dir, q, builds) /\ Untouched(builds, lost)
      /\ Progress(dir, data, q, lost) /\ Promise(dir, data, q, builds, lost)
  BY DEF IInv, Good
<1>2. /\ proc' = [proc EXCEPT ![p] = r] /\ dir' = dir /\ data' = data /\ lost' = lost
      /\ builds' = builds + 1 /\ builds < MaxBuilds
  BY DEF Begin
<1>3. builds \in 0..MaxBuilds /\ builds' \in 0..MaxBuilds /\ MaxBuilds \in Nat
  BY <1>1, <1>2, DriverAssumption DEF Typed
<1>4. /\ r \in Proc /\ r.at = "front" /\ r.build = builds' /\ r.file = None
      /\ r.made = 0 /\ r.offset = 0
  BY <1>2, <1>3, DriverAssumption DEF Proc, Working
<1> HIDE DEF r
<1>5. Typed(dir', data', r, builds', lost')  BY <1>1, <1>2, <1>3, <1>4 DEF Typed
<1>6. /\ dir["tmp"] /= None => dir["tmp"] \in Nat /\ dir["tmp"] <= builds
      /\ dir["out"] /= None => dir["out"] \in Nat /\ dir["out"] <= builds
  BY <1>1 DEF Typed, Apart, Names, Files
<1>7. Apart(dir', r, builds')
  <2>1. None /= builds'  BY <1>3, DriverAssumption
  <2>2. dir["tmp"] /= builds' /\ dir["out"] /= builds'  BY <1>2, <1>3, <1>6, <2>1
  <2> QED BY <1>1, <1>2, <1>3, <1>4, <1>6, <2>2 DEF Apart
<1>8. Progress(dir', data', r, lost')
  <2>1. lost[builds'] = {}  BY <1>1, <1>2, <1>3 DEF Untouched, Files
  <2> QED BY <1>2, <1>4, <2>1 DEF Progress, Opened
<1>9. Promise(dir', data', r, builds', lost')
  <2>1. \A b \in 1..builds : b \in 1..builds' /\ b /= builds'  BY <1>2, <1>3
  <2> QED BY <1>1, <1>2, <1>4, <2>1 DEF Promise
<1>10. Untouched(builds', lost')  BY <1>1, <1>2, <1>3 DEF Untouched, Files
<1> QED BY <1>1, <1>2, <1>4, <1>5, <1>7, <1>8, <1>9, <1>10, OneProcess DEF Good

(* The temporary file is emptied; the output is another file. *)
LEMMA OpenTmpKeeps ==
  ASSUME NEW p, Procs = {p}, IInv, OpenTmp(p)
  PROVE  IInv'
<1> DEFINE q == proc[p]
           file == IF dir["tmp"] = None THEN q.build ELSE dir["tmp"]
           r == [q EXCEPT !.at = "gen", !.file = file]
<1>1. /\ proc \in [{p} -> Proc] /\ q \in Proc /\ q.at = "front"
      /\ Typed(dir, data, q, builds, lost) /\ Apart(dir, q, builds) /\ Untouched(builds, lost)
      /\ Progress(dir, data, q, lost) /\ Promise(dir, data, q, builds, lost)
  BY DEF IInv, Good, OpenTmp, At
<1>2. q.build = builds /\ builds \in 1..MaxBuilds /\ MaxBuilds \in Nat /\ q.build /= None
  BY <1>1, DriverAssumption DEF Typed, Apart, Working
<1>3. file \in Files /\ file <= builds /\ file /= None /\ file /= dir["out"]
  BY <1>1, <1>2, DriverAssumption DEF Typed, Apart, Files, Names
<1> HIDE DEF file
<1>4. /\ dir' = [dir EXCEPT !["tmp"] = file] /\ data' = [data EXCEPT ![file] = <<>>]
      /\ proc' = [proc EXCEPT ![p] = r] /\ builds' = builds /\ lost' = lost
  BY <1>1 DEF OpenTmp, file
<1>5. /\ r \in Proc /\ r.at = "gen" /\ r.build = q.build /\ r.file = file
      /\ r.made = q.made /\ r.offset = q.offset
  BY <1>1, <1>3 DEF Proc, Working
<1> HIDE DEF r
<1>6. /\ dir' \in [Names -> Files \cup {None}]
      /\ dir'["tmp"] = file /\ dir'["out"] = dir["out"]
  BY <1>1, <1>3, <1>4 DEF Typed, Names
<1>7. /\ data' \in [Files -> Contents] /\ data'[file] = <<>>
      /\ \A f \in Files : f /= file => data'[f] = data[f]
  BY <1>1, <1>3, <1>4 DEF Typed, Contents
<1>8. Typed(dir', data', r, builds', lost')  BY <1>1, <1>4, <1>5, <1>6, <1>7 DEF Typed
<1>9. Apart(dir', r, builds')
  BY <1>1, <1>2, <1>3, <1>4, <1>5, <1>6 DEF Apart, Working
<1>10. Progress(dir', data', r, lost')
  <2>1. q.made = 0 /\ q.offset = 0 /\ 0 < Chunks /\ lost'[q.build] = {}
    BY <1>1, <1>4, DriverAssumption DEF Progress
  <2>2. Holds(<<>>, q.build, 0, lost'[q.build])  BY HoldsNothing
  <2>3. Len(<<>>) = 0  OBVIOUS
  <2> QED BY <1>3, <1>5, <1>6, <1>7, <2>1, <2>2, <2>3 DEF Progress, Opened
<1>11. Promise(dir', data', r, builds', lost')
  <2>1. dir["out"] /= None => dir["out"] \in Files /\ data'[dir["out"]] = data[dir["out"]]
    BY <1>1, <1>3, <1>7 DEF Typed, Names
  <2>2. q.at \in Working /\ r.at /= "idle"  BY <1>1, <1>5 DEF Working
  <2> QED BY <1>1, <1>4, <1>5, <1>6, <2>1, <2>2 DEF Promise
<1>12. Untouched(builds', lost')  BY <1>1, <1>4
<1> QED BY <1>1, <1>4, <1>5, <1>8, <1>9, <1>10, <1>11, <1>12, OneProcess DEF Good

(* One more buffer is written, or lost: the file holds all that was made and  *)
(* not lost so far.                                                          *)
LEMMA WriteKeeps ==
  ASSUME NEW p, Procs = {p}, IInv, NEW at \in {"gen", "close", "clean"},
         At(p, "gen"), WriteChunk(p, at), UNCHANGED <<dir, builds>>,
         at = "gen" => proc[p].made + 1 < Chunks,
         at = "close" => proc[p].made + 1 = Chunks
  PROVE  IInv'
<1> DEFINE q == proc[p]
           file == q.file
<1>1. /\ proc \in [{p} -> Proc] /\ q \in Proc /\ q.at = "gen"
      /\ Typed(dir, data, q, builds, lost) /\ Apart(dir, q, builds) /\ Untouched(builds, lost)
      /\ Progress(dir, data, q, lost) /\ Promise(dir, data, q, builds, lost)
  BY DEF IInv, Good, At
<1>2. /\ file \in Files /\ dir["tmp"] = file /\ dir["out"] /= file
      /\ q.build \in Files /\ q.build = builds /\ q.made \in 0..Chunks /\ q.made < Chunks
      /\ q.offset \in 0..Chunks /\ Chunks \in Nat /\ MaxBuilds \in Nat
      /\ builds \in 0..MaxBuilds
  BY <1>1, DriverAssumption DEF Typed, Apart, Progress, Opened, Working, Proc, Files
<1>3. dir' = dir /\ builds' = builds /\ file /= None
  BY <1>2, DriverAssumption DEF Files
<1> DEFINE k == q.made
           m == lost[q.build]
<1>4. /\ k \in Nat /\ k + 1 \in 1..Chunks /\ m \in SUBSET (1..k) /\ data[file] \in Contents
      /\ q.offset = Len(data[file]) /\ q.offset <= k /\ Holds(data[file], q.build, k, m)
  BY <1>1, <1>2 DEF Progress, Typed
<1>5. dir["out"] /= None => dir["out"] \in Files  BY <1>1 DEF Typed, Names
<1>6. q.at \in Working  BY <1>1 DEF Working
<1>7. ASSUME data' = [data EXCEPT ![file] = Put(data[file], q.offset, <<q.build, k + 1>>)],
             proc' = [proc EXCEPT ![p].made = @ + 1, ![p].offset = @ + 1, ![p].at = at],
             lost' = lost
      PROVE  IInv'
  <2> DEFINE r == [q EXCEPT !.made = k + 1, !.offset = q.offset + 1, !.at = at]
             c == Put(data[file], q.offset, <<q.build, k + 1>>)
  <2>1. /\ proc' = [proc EXCEPT ![p] = r] /\ r \in Proc /\ r.at = at
        /\ r.build = q.build /\ r.file = file /\ r.made = k + 1
        /\ r.offset = q.offset + 1
    <3>1. k + 1 \in 0..Chunks /\ q.offset + 1 \in 0..Chunks  BY <1>2, <1>4
    <3>2. proc' = [proc EXCEPT ![p] = r]  BY <1>1, <1>7
    <3> QED BY <1>1, <3>1, <3>2 DEF Proc, Working
  <2> HIDE DEF r
  <2>2. Holds(c, q.build, k + 1, m)  BY <1>4, HoldsNext DEF Contents
  <2>3. c \in Contents /\ Len(c) = q.offset + 1
    <3>1. <<q.build, k + 1>> \in (0..MaxBuilds) \X (0..Chunks)
      BY <1>2, <1>4 DEF Files
    <3>2. Hole \in (0..MaxBuilds) \X (0..Chunks)  BY <1>2 DEF Hole
    <3>3. c \in Contents
      <4> DEFINE S == (0..MaxBuilds) \X (0..Chunks)
      <4>1. Hole \in S /\ <<q.build, k + 1>> \in S /\ q.offset \in Nat  BY <1>2, <3>1, <3>2
      <4>2. data[file] \in Seq(S)  BY <1>4 DEF Contents
      <4>3. Contents = Seq(S)  BY DEF Contents
      <4> HIDE DEF S
      <4>4. c \in Seq(S)  BY <4>1, <4>2, PutType
      <4> QED BY <4>3, <4>4
    <3>4. Len(c) = q.offset + 1
      <4> DEFINE f(i) == IF i = q.offset + 1 THEN <<q.build, k + 1>>
                         ELSE IF i <= Len(data[file]) THEN data[file][i] ELSE Hole
      <4>1. c = [i \in 1..(q.offset + 1) |-> f(i)]  BY <1>2, <1>4 DEF Put
      <4>2. q.offset + 1 \in Nat  BY <1>2
      <4> HIDE DEF c, f
      <4> QED BY <4>1, <4>2
    <3> QED BY <3>3, <3>4
  <2>4. data'[file] = c /\ \A f \in Files : f /= file => data'[f] = data[f]
    BY <1>1, <1>2, <1>7 DEF Typed
  <2>5. data' \in [Files -> Contents]
    <3> HIDE DEF c
    <3>1. data' = [data EXCEPT ![file] = c]  BY <1>7 DEF c
    <3> QED BY <1>1, <1>2, <2>3, <3>1 DEF Typed
  <2> HIDE DEF c
  <2>6. Typed(dir', data', r, builds', lost')  BY <1>1, <1>3, <1>7, <2>1, <2>5 DEF Typed
  <2>7. Apart(dir', r, builds')  BY <1>1, <1>3, <2>1 DEF Apart, Working
  <2>8. Untouched(builds', lost')  BY <1>1, <1>3, <1>7
  <2>9. Progress(dir', data', r, lost')
    <3>1. at = "close" => Built(c, q.build, m)
      BY <1>4, <2>2 DEF Built
    <3>2. m \subseteq 1..(k + 1)  BY <1>4, Longer
    <3>3. q.offset + 1 <= k + 1  BY <1>2, <1>4
    <3>4. /\ r.at \notin {"front", "rename", "remove", "retry"}
          /\ r.at = "gen" => k + 1 < Chunks
      BY <2>1
    <3> QED BY <1>2, <1>3, <1>7, <2>1, <2>2, <2>3, <2>4, <3>1, <3>2, <3>3, <3>4 DEF Progress, Opened
  <2>10. Promise(dir', data', r, builds', lost')
    <3>1. dir["out"] /= None => data'[dir["out"]] = data[dir["out"]]
      BY <1>2, <1>5, <2>4
    <3>2. r.at /= "idle"  BY <2>1
    <3> QED BY <1>1, <1>3, <1>6, <1>7, <2>1, <3>1, <3>2 DEF Promise
  <2> QED BY <1>1, <2>1, <2>6, <2>7, <2>8, <2>9, <2>10, OneProcess DEF Good
<1>8. ASSUME data' = data,
             proc' = [proc EXCEPT ![p].made = @ + 1, ![p].at = at, ![p].failed = (at = "close")],
             lost' = [lost EXCEPT ![q.build] = @ \cup {k + 1}]
      PROVE  IInv'
  <2> DEFINE r == [q EXCEPT !.made = k + 1, !.at = at, !.failed = (at = "close")]
  <2>1. /\ proc' = [proc EXCEPT ![p] = r] /\ r \in Proc /\ r.at = at
        /\ r.build = q.build /\ r.file = file /\ r.made = k + 1 /\ r.offset = q.offset
        /\ r.failed = (at = "close")
    <3>1. k + 1 \in 0..Chunks  BY <1>2
    <3>2. proc' = [proc EXCEPT ![p] = r]  BY <1>1, <1>8
    <3> QED BY <1>1, <3>1, <3>2 DEF Proc, Working
  <2> HIDE DEF r
  <2>2. /\ lost' \in [Files -> SUBSET (1..Chunks)] /\ lost'[q.build] = m \cup {k + 1}
        /\ \A b \in Files : b /= q.build => lost'[b] = lost[b]
    BY <1>1, <1>2, <1>4, <1>8 DEF Typed
  <2>3. Typed(dir', data', r, builds', lost')  BY <1>1, <1>3, <1>8, <2>1, <2>2 DEF Typed
  <2>4. Apart(dir', r, builds')  BY <1>1, <1>3, <2>1 DEF Apart, Working
  <2>5. Untouched(builds', lost')
    BY <1>1, <1>2, <1>3, <2>2 DEF Untouched, Files
  <2>6. Progress(dir', data', r, lost')
    <3>1. Holds(data[file], q.build, k + 1, m \cup {k + 1})  BY <1>4, HoldsLost
    <3>2. m \cup {k + 1} \subseteq 1..(k + 1)  BY <1>4, Longer
    <3>3. q.offset <= k + 1  BY <1>2, <1>4
    <3>4. /\ r.at \notin {"front", "rename", "remove", "retry"}
          /\ r.at = "gen" => k + 1 < Chunks
          /\ r.at = "close" => r.failed
      BY <2>1
    <3> QED BY <1>2, <1>3, <1>4, <1>8, <2>1, <2>2, <3>1, <3>2, <3>3, <3>4 DEF Progress, Opened
  <2>7. Promise(dir', data', r, builds', lost')
    <3>1. \A b \in 1..builds : b /= builds => lost'[b] = lost[b]
      BY <1>2, <2>2 DEF Files
    <3>2. r.at /= "idle"  BY <2>1
    <3> QED BY <1>1, <1>3, <1>6, <1>8, <2>1, <3>1, <3>2 DEF Promise
  <2> QED BY <1>1, <2>1, <2>3, <2>4, <2>5, <2>6, <2>7, OneProcess DEF Good
<1> QED BY <1>7, <1>8 DEF WriteChunk

(* After the last write the process moves on, to the rename if all went well,  *)
(* or to the removal of its file.                                            *)
LEMMA MoveKeeps ==
  ASSUME NEW p, Procs = {p}, IInv, UNCHANGED <<dir, data, builds, lost>>,
         NEW at \in Opened \ {"gen"}, NEW failed \in BOOLEAN,
         proc' = [proc EXCEPT ![p].failed = failed, ![p].at = at],
         proc[p].at \in Opened,
         at \in {"rename", "remove", "retry"} =>
           proc[p].at \in {"rename", "remove", "retry"} \/ (proc[p].at = "close" /\ ~proc[p].failed),
         at /= "close"
  PROVE  IInv'
<1> DEFINE q == proc[p]
           r == [q EXCEPT !.failed = failed, !.at = at]
<1>1. /\ proc \in [{p} -> Proc] /\ q \in Proc
      /\ Typed(dir, data, q, builds, lost) /\ Apart(dir, q, builds) /\ Untouched(builds, lost)
      /\ Progress(dir, data, q, lost) /\ Promise(dir, data, q, builds, lost)
  BY DEF IInv, Good
<1>2. dir' = dir /\ data' = data /\ builds' = builds /\ lost' = lost  OBVIOUS
<1>3. /\ proc' = [proc EXCEPT ![p] = r] /\ r \in Proc /\ r.at = at
      /\ r.build = q.build /\ r.file = q.file
  BY <1>1 DEF Proc, Working, Opened
<1> HIDE DEF r
<1>4. Typed(dir', data', r, builds', lost')  BY <1>1, <1>2, <1>3 DEF Typed
<1>5. Apart(dir', r, builds')  BY <1>1, <1>2, <1>3 DEF Apart, Working, Opened
<1>6. Progress(dir', data', r, lost')  BY <1>1, <1>2, <1>3 DEF Progress, Opened
<1>7. Promise(dir', data', r, builds', lost')
  <2>1. q.at \in Working /\ r.at /= "idle"  BY <1>3 DEF Working, Opened
  <2> QED BY <1>1, <1>2, <1>3, <2>1 DEF Promise
<1>8. Untouched(builds', lost')  BY <1>1, <1>2
<1> QED BY <1>1, <1>3, <1>4, <1>5, <1>6, <1>7, <1>8, OneProcess DEF Good

(* The rename puts the whole output in place and takes the temporary away. *)
LEMMA RenameKeeps ==
  ASSUME NEW p, Procs = {p}, IInv, proc[p].at \in {"rename", "retry"}, CanRename,
         dir' = Renamed, Exit(p, "ok"), UNCHANGED <<data, builds, lost>>
  PROVE  IInv'
<1> DEFINE q == proc[p]
           r == [q EXCEPT !.at = "idle", !.status = "ok"]
<1>1. /\ proc \in [{p} -> Proc] /\ q \in Proc
      /\ Typed(dir, data, q, builds, lost) /\ Apart(dir, q, builds) /\ Untouched(builds, lost)
      /\ Progress(dir, data, q, lost) /\ Promise(dir, data, q, builds, lost)
  BY DEF IInv, Good
<1>2. /\ proc' = [proc EXCEPT ![p] = r] /\ r \in Proc /\ r.at = "idle" /\ r.status = "ok"
      /\ r.build = q.build /\ r.file = q.file
  BY <1>1 DEF Exit, Proc, Working
<1> HIDE DEF r
<1>3. /\ dir' \in [Names -> Files \cup {None}]
      /\ dir'["out"] = dir["tmp"] /\ dir'["tmp"] = None
      /\ dir["tmp"] /= None /\ dir["tmp"] = q.file /\ dir["tmp"] <= builds
  BY <1>1 DEF Typed, Progress, Apart, Opened, Renamed, Names, CanRename
<1>4. /\ data' = data /\ builds' = builds /\ lost' = lost
      /\ Built(data[q.file], q.build, lost[q.build])
  BY <1>1 DEF Progress
<1>5. Typed(dir', data', r, builds', lost')  BY <1>1, <1>2, <1>3, <1>4 DEF Typed
<1>6. Apart(dir', r, builds')  BY <1>2, <1>3, <1>4 DEF Apart, Working
<1>7. Progress(dir', data', r, lost')  BY <1>2 DEF Progress, Opened
<1>8. Promise(dir', data', r, builds', lost')
  <2>1. q.build \in 1..builds
    BY <1>1, DriverAssumption DEF Apart, Typed, Working
  <2>2. r.at \notin Working  BY <1>2 DEF Working
  <2> QED BY <1>2, <1>3, <1>4, <2>1, <2>2 DEF Promise
<1>9. Untouched(builds', lost')  BY <1>1, <1>4
<1> QED BY <1>1, <1>2, <1>5, <1>6, <1>7, <1>8, <1>9, OneProcess DEF Good

(* The old output goes, so that the second rename has no one in its way. *)
LEMMA RemoveKeeps ==
  ASSUME NEW p, Procs = {p}, IInv, Remove(p)
  PROVE  IInv'
<1> DEFINE q == proc[p]
           r == [q EXCEPT !.at = "retry"]
<1>1. /\ proc \in [{p} -> Proc] /\ q \in Proc /\ q.at = "remove"
      /\ Typed(dir, data, q, builds, lost) /\ Apart(dir, q, builds) /\ Untouched(builds, lost)
      /\ Progress(dir, data, q, lost) /\ Promise(dir, data, q, builds, lost)
  BY DEF IInv, Good, Remove, At
<1>2. /\ proc' = [proc EXCEPT ![p] = r] /\ r \in Proc /\ r.at = "retry"
      /\ r.build = q.build /\ r.file = q.file
  BY <1>1 DEF Remove, Goto, Proc, Working
<1> HIDE DEF r
<1>3. /\ dir' \in [Names -> Files \cup {None}] /\ dir'["tmp"] = dir["tmp"]
      /\ (dir'["out"] = dir["out"] \/ dir'["out"] = None)
      /\ data' = data /\ builds' = builds /\ lost' = lost
  BY <1>1 DEF Remove, Typed, Names
<1>4. Typed(dir', data', r, builds', lost')  BY <1>1, <1>2, <1>3 DEF Typed
<1>5. Apart(dir', r, builds')  BY <1>1, <1>2, <1>3 DEF Apart, Working
<1>6. Progress(dir', data', r, lost')  BY <1>1, <1>2, <1>3 DEF Progress, Opened
<1>7. Promise(dir', data', r, builds', lost')
  <2>1. q.at \in Working  BY <1>1 DEF Working
  <2> QED BY <1>1, <1>2, <1>3, <2>1 DEF Promise
<1>8. Untouched(builds', lost')  BY <1>1, <1>3
<1> QED BY <1>1, <1>2, <1>4, <1>5, <1>6, <1>7, <1>8, OneProcess DEF Good

(***************************************************************************)
(* The theorems.                                                           *)
(***************************************************************************)
LEMMA InitGood ==
  ASSUME NEW p, Procs = {p}, Init
  PROVE  IInv
<1> DEFINE q == [at |-> "idle", build |-> 0, file |-> None, made |-> 0, offset |-> 0,
                 failed |-> FALSE, status |-> "none"]
<1>1. /\ proc = [x \in {p} |-> q] /\ builds = 0
      /\ dir = [n \in Names |-> None] /\ data = [f \in Files |-> <<>>]
      /\ lost = [b \in Files |-> {}]
  BY DEF Init
<1>2. 0 \in 0..MaxBuilds /\ 0 \in 0..Chunks  BY DriverAssumption
<1>3. q \in Proc /\ q.at = "idle" /\ q.status = "none"  BY <1>2 DEF Proc, Working
<1> HIDE DEF q
<1>4. proc \in [{p} -> Proc] /\ proc[p] = q  BY <1>1, <1>3
<1>5. /\ dir \in [Names -> Files \cup {None}] /\ dir["tmp"] = None /\ dir["out"] = None
      /\ data \in [Files -> Contents]
  BY <1>1 DEF Names, Contents
<1>6. Typed(dir, data, q, builds, lost)  BY <1>1, <1>2, <1>3, <1>5 DEF Typed
<1>7. /\ Apart(dir, q, builds) /\ Untouched(builds, lost)
      /\ Progress(dir, data, q, lost) /\ Promise(dir, data, q, builds, lost)
  BY <1>1, <1>3, <1>5 DEF Apart, Untouched, Progress, Promise, Working, Opened
<1> QED BY <1>4, <1>6, <1>7 DEF IInv, Good

LEMMA NextKeeps ==
  ASSUME NEW p, Procs = {p}, IInv, [Next]_vars
  PROVE  IInv'
<1>1. CASE Begin(p)  BY <1>1, BeginKeeps
<1>2. CASE FrontEndFails(p) \/ OpenTmpFails(p) \/ Clean(p) \/ Dies(p)
  BY <1>2, SimpleSteps
<1>3. CASE OpenTmp(p)  BY <1>3, OpenTmpKeeps
<1>4. CASE Generate(p)  BY <1>4, WriteKeeps DEF Generate
<1>5. CASE GenerateFails(p)
  <2>1. CASE WriteChunk(p, "clean")  BY <1>5, <2>1, WriteKeeps DEF GenerateFails
  <2>2. CASE Goto(p, "clean") /\ UNCHANGED <<data, lost>>
    <3> DEFINE failed == proc[p].failed
    <3>1. proc[p] \in Proc /\ proc \in [{p} -> Proc] /\ proc[p].at = "gen"
      BY <1>5 DEF IInv, GenerateFails, At
    <3>2. failed \in BOOLEAN  BY <3>1 DEF Proc
    <3>3. proc' = [proc EXCEPT ![p].failed = failed, ![p].at = "clean"]
      <4>1. [proc[p] EXCEPT !.at = "clean"] = [proc[p] EXCEPT !.failed = failed, !.at = "clean"]
        BY <3>1 DEF Proc
      <4> QED BY <2>2, <3>1, <4>1 DEF Goto
    <3> HIDE DEF failed
    <3> QED BY <1>5, <2>2, <3>1, <3>2, <3>3, MoveKeeps DEF GenerateFails, Opened
  <2> QED BY <1>5, <2>1, <2>2 DEF GenerateFails
<1>6. CASE Flush(p)  BY <1>6, WriteKeeps DEF Flush
<1>7. CASE Close(p)
  <2>1. PICK ok \in BOOLEAN :
          proc' = [proc EXCEPT ![p].failed = proc[p].failed \/ ~ok,
                               ![p].at = IF proc[p].failed \/ ~ok THEN "clean" ELSE "rename"]
    BY <1>7 DEF Close
  <2> DEFINE failed == proc[p].failed \/ ~ok
             at == IF failed THEN "clean" ELSE "rename"
  <2>2. failed \in BOOLEAN /\ at \in Opened \ {"gen"} /\ at /= "close"
        /\ (at = "rename" => ~proc[p].failed) /\ at \notin {"remove", "retry"}
    BY DEF Opened
  <2>3. proc' = [proc EXCEPT ![p].failed = failed, ![p].at = at]  BY <2>1
  <2> HIDE DEF failed, at
  <2>4. proc[p].at = "close" /\ UNCHANGED <<dir, data, builds, lost>>  BY <1>7 DEF Close, At
  <2> QED BY <2>2, <2>3, <2>4, MoveKeeps DEF Opened
<1>8. ASSUME NEW at \in {"remove", "clean"}, Goto(p, at), UNCHANGED <<dir, data, builds, lost>>,
             proc[p].at \in {"rename", "retry"}
      PROVE  IInv'
  <2> DEFINE failed == proc[p].failed
  <2>1. proc[p] \in Proc /\ proc \in [{p} -> Proc]  BY DEF IInv
  <2>2. failed \in BOOLEAN  BY <2>1 DEF Proc
  <2>3. proc' = [proc EXCEPT ![p].failed = failed, ![p].at = at]
    <3>1. [proc[p] EXCEPT !.at = at] = [proc[p] EXCEPT !.failed = failed, !.at = at]
      BY <2>1 DEF Proc
    <3> QED BY <1>8, <2>1, <3>1 DEF Goto
  <2> HIDE DEF failed
  <2> QED BY <1>8, <2>1, <2>2, <2>3, MoveKeeps DEF Opened
<1>9. CASE Rename(p)  BY <1>8, <1>9, RenameKeeps DEF Rename, At
<1>10. CASE Remove(p)  BY <1>10, RemoveKeeps
<1>11. CASE Retry(p)  BY <1>8, <1>11, RenameKeeps DEF Retry, At
<1>12. CASE UNCHANGED vars
  BY <1>12 DEF IInv, Good, Typed, Apart, Untouched, Progress, Promise, vars
<1> QED BY <1>1, <1>2, <1>3, <1>4, <1>5, <1>6, <1>7, <1>9, <1>10, <1>11, <1>12 DEF Next, Step

(* The invariant holds for one builder, whichever of its writes fail. *)
THEOREM InvariantHolds ==
  ASSUME NEW p, Procs = {p}
  PROVE  Spec => []IInv
<1>1. Init => IInv  BY InitGood
<1>2. IInv /\ [Next]_vars => IInv'  BY NextKeeps
<1> QED BY <1>1, <1>2, PTL DEF Spec

(* However long the output is and wherever builds are interrupted, the output *)
(* path holds nothing or what one build wrote from its first chunk to its      *)
(* last; a chunk is missing only where its write failed (main.c 231-281).     *)
THEOREM OutputIsWhole ==
  ASSUME NEW p, Procs = {p}
  PROVE  Spec => []OutputWhole
<1>1. IInv => OutputWhole  BY DEF IInv, Good, Promise, OutputWhole, Output
<1> QED BY <1>1, InvariantHolds, PTL

(* Exit status 0 means that the output is this build's, to the last chunk. *)
THEOREM SuccessIsTrue ==
  ASSUME NEW p, Procs = {p}
  PROVE  Spec => []SuccessMeansBuilt
<1>1. IInv => SuccessMeansBuilt
  BY DEF IInv, Good, Promise, SuccessMeansBuilt, Output, At
<1> QED BY <1>1, InvariantHolds, PTL

(* A build that opened its temporary file and ended by itself left none. *)
THEOREM TmpIsRemoved ==
  ASSUME NEW p, Procs = {p}
  PROVE  Spec => []TmpRemoved
<1>1. IInv => TmpRemoved  BY DEF IInv, Good, Promise, TmpRemoved, At
<1> QED BY <1>1, InvariantHolds, PTL

(* No step but the renames and the removal between them changes what is at    *)
(* the output path.                                                          *)
THEOREM OutputOnlyRenamed ==
  ASSUME NEW p, Procs = {p}
  PROVE  Spec => OnlyRenamed
<1>1. ASSUME IInv, [Next]_vars PROVE OutputKept
  <2>1. Good(dir, data, proc[p], builds, lost)  BY <1>1 DEF IInv
  <2>2. CASE dir' = dir /\ data' = data  BY <2>2 DEF Output, OutputKept
  <2>3. CASE OpenTmp(p)
    <3> DEFINE file == IF dir["tmp"] = None THEN proc[p].build ELSE dir["tmp"]
    <3>1. dir'["out"] = dir["out"] /\ data' = [data EXCEPT ![file] = <<>>]
      BY <2>1, <2>3 DEF OpenTmp, Good, Typed, Names
    <3>2. dir["out"] /= None => dir["out"] /= file
      BY <2>1, <2>3 DEF OpenTmp, At, Good, Apart, Working
    <3>3. dir["out"] /= None => dir["out"] \in Files  BY <2>1 DEF Good, Typed, Names
    <3> HIDE DEF file
    <3>4. dir["out"] /= None => data'[dir["out"]] = data[dir["out"]]
      BY <2>1, <3>1, <3>2, <3>3 DEF Good, Typed
    <3> QED BY <3>1, <3>4 DEF Output, OutputKept
  <2>4. ASSUME NEW at, WriteChunk(p, at), At(p, "gen"), dir' = dir
        PROVE  Output' = Output
    <3>1. dir["out"] /= None => dir["out"] /= proc[p].file /\ dir["out"] \in Files
      BY <2>1, <2>4 DEF At, Good, Typed, Apart, Progress, Opened, Names
    <3>2. data' = data \/ \E w : data' = [data EXCEPT ![proc[p].file] = w]
      BY <2>4 DEF WriteChunk
    <3>3. dir["out"] /= None => data'[dir["out"]] = data[dir["out"]]
      BY <2>1, <3>1, <3>2 DEF Good, Typed
    <3> QED BY <2>4, <3>3 DEF Output
  <2>5. CASE Generate(p) \/ GenerateFails(p) \/ Flush(p)
    BY <2>2, <2>4, <2>5 DEF Generate, GenerateFails, Flush, OutputKept
  <2>6. CASE Rename(p) \/ Remove(p) \/ Retry(p)
    BY <2>6 DEF Rename, Remove, Retry, At, Renaming, OutputKept
  <2>7. CASE Clean(p)
    BY <2>1, <2>7 DEF Clean, Good, Typed, Names, Output, OutputKept
  <2> QED BY <1>1, <2>2, <2>3, <2>5, <2>6, <2>7
       DEF Next, Step, Begin, FrontEndFails, OpenTmpFails, Close, Dies, vars
<1>2. IInv /\ [Next]_vars => [OutputKept]_vars  BY <1>1
<1>3. Spec => []IInv  BY InvariantHolds
<1> QED BY <1>2, <1>3, PTL DEF Spec, OnlyRenamed

(* Types: no write goes past the end of a build's output. *)
THEOREM TypeCorrect ==
  ASSUME NEW p, Procs = {p}
  PROVE  Spec => []TypeOK
<1>1. IInv => TypeOK  BY DEF IInv, Good, Typed, Contents, TypeOK
<1> QED BY <1>1, InvariantHolds, PTL
===============================================================================
