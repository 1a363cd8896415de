--------------------------- MODULE MigrationsProof ---------------------------
(***************************************************************************)
(* A directory of files, applied by runs that are interrupted, fail and    *)
(* are repeated: the ledger keeps the order of the files; and unless two   *)
(* runs have been at work at once, the schema is what the files in the     *)
(* ledger make of an empty database, with a beginning of the next one, or  *)
(* that next one cannot be finished any more.                              *)
(***************************************************************************)
EXTENDS Migrations, FiniteSetTheorems, TLAPS

-----------------------------------------------------------------------------
(* The runner by itself. *)

LEMMA DirectoryIsIndexed ==
    /\ Len(Directory) \in Nat
    /\ \A i \in Indices : /\ Directory[i] \in FileNames
                          /\ Content[Directory[i]] \in Seq(Statement)
    /\ \A i, j \in Indices : Directory[i] = Directory[j] => i = j
  BY DirectoryAssumption DEF Indices, FileNames

(* The files a runner has gone past are in the ledger or are not for it. *)
Advanced(r) ==
    \A i \in Indices :
        i < runner[r].file => Directory[i] \in APP_MIGRATIONS \cup ledger

FilesInv ==
    /\ FilesTypeOK
    /\ LedgerInOrder
    /\ \A r \in Runners : Advanced(r) /\ runner[r].done \subseteq ledger

LEMMA FilesInitInv == FilesInit => FilesInv
<1> SUFFICES ASSUME FilesInit PROVE FilesInv
  OBVIOUS
<1>1. [pc |-> "idle", count |-> 0, done |-> {}, file |-> 1, stmt |-> 1] \in Runner
  BY DirectoryIsIndexed DEF Runner
<1>2. runner \in [Runners -> Runner]
  BY <1>1 DEF FilesInit
<1>3. FilesTypeOK
  <2>1. schema \subseteq Things /\ ledger \subseteq FileNames /\ overlapped \in BOOLEAN
    BY DEF FilesInit
  <2>2. released \in 0..Len(Directory)
    BY DirectoryIsIndexed, DirectoryAssumption DEF FilesInit
  <2>3. work \subseteq Runners \X FileNames \X Nat
    BY DEF FilesInit
  <2> QED
    BY <1>2, <2>1, <2>2, <2>3 DEF FilesTypeOK
<1>4. LedgerInOrder
  BY DEF FilesInit, LedgerInOrder
<1>5. \A r \in Runners : Advanced(r) /\ runner[r].done \subseteq ledger
  <2> SUFFICES ASSUME NEW r \in Runners
               PROVE  Advanced(r) /\ runner[r].done \subseteq ledger
    OBVIOUS
  <2>1. runner[r].file = 1 /\ runner[r].done = {}
    BY DEF FilesInit
  <2> QED
    BY <2>1, DirectoryIsIndexed DEF Advanced, Indices
<1> QED
  BY <1>3, <1>4, <1>5 DEF FilesInv

(* Counting on. *)
LEMMA StatementsCount ==
    1 \in Nat \ {0} /\ \A n \in Nat \ {0} : n + 1 \in Nat \ {0}
  OBVIOUS

LEMMA FilesCount ==
    \A n \in 0..Len(Directory), i \in 1..Len(Directory) + 1 :
        i <= n => i \in Indices /\ i + 1 \in 1..Len(Directory) + 1
  BY DirectoryIsIndexed DEF Indices

(* Every change a step makes to a runner. *)
LEMMA RunnerUpdateTyped ==
    ASSUME NEW row \in Runner, NEW pc \in {"idle", "directory read", "applying"} \cup Ends,
           NEW count \in 0..Len(Directory), NEW done \in SUBSET FileNames
    PROVE  /\ [row EXCEPT !.pc = pc] \in Runner
           /\ [row EXCEPT !.pc = pc, !.count = count] \in Runner
           /\ [row EXCEPT !.pc = pc, !.done = done] \in Runner
           /\ [row EXCEPT !.stmt = @ + 1] \in Runner
           /\ row.file <= row.count =>
                /\ row.file \in Indices
                /\ [row EXCEPT !.file = @ + 1] \in Runner
                /\ [row EXCEPT !.file = @ + 1, !.stmt = 1] \in Runner
<1>1. /\ [row EXCEPT !.pc = pc] \in Runner
      /\ [row EXCEPT !.pc = pc, !.count = count] \in Runner
      /\ [row EXCEPT !.pc = pc, !.done = done] \in Runner
  BY DEF Runner
<1>0. /\ row.stmt \in Nat \ {0} /\ row.count \in 0..Len(Directory)
      /\ row.file \in 1..Len(Directory) + 1
  BY DEF Runner
<1>2. [row EXCEPT !.stmt = @ + 1] \in Runner
  <2>1. row.stmt + 1 \in Nat \ {0}
    BY <1>0, StatementsCount
  <2> QED
    BY <2>1 DEF Runner
<1>3. ASSUME row.file <= row.count
      PROVE  /\ row.file \in Indices
             /\ [row EXCEPT !.file = @ + 1] \in Runner
             /\ [row EXCEPT !.file = @ + 1, !.stmt = 1] \in Runner
  <2>1. row.file \in Indices /\ row.file + 1 \in 1..Len(Directory) + 1
    BY <1>0, <1>3, FilesCount
  <2>2. [row EXCEPT !.file = @ + 1] \in Runner
    BY <2>1 DEF Runner
  <2>3. [row EXCEPT !.file = @ + 1, !.stmt = 1] \in Runner
    BY <2>1, StatementsCount DEF Runner
  <2> QED
    BY <2>1, <2>2, <2>3
<1> QED
  BY <1>1, <1>2, <1>3

(* A step of a runner that leaves the ledger alone, and goes past a file   *)
(* only if the file is not for it.                                         *)
Moves(r, row) ==
    /\ row \in Runner
    /\ runner' = [runner EXCEPT ![r] = row]
    /\ ledger' = ledger
    /\ row.done \subseteq ledger
    /\ \A i \in Indices : i < row.file => Directory[i] \in APP_MIGRATIONS \cup ledger

LEMMA MoveKeeps ==
    ASSUME FilesInv, NEW r \in Runners, NEW row, Moves(r, row),
           schema' \subseteq Things, released' = released,
           work' \subseteq Runners \X FileNames \X Nat, overlapped' \in BOOLEAN
    PROVE  FilesInv'
<1>1. FilesTypeOK'
  BY DEF FilesInv, FilesTypeOK, Moves
<1>2. LedgerInOrder'
  BY DEF FilesInv, LedgerInOrder, Moves
<1>3. \A q \in Runners : Advanced(q)' /\ runner'[q].done \subseteq ledger'
  BY DEF FilesInv, FilesTypeOK, Advanced, Moves
<1> QED
  BY <1>1, <1>2, <1>3 DEF FilesInv

LEMMA SchemaAfterTyped ==
    ASSUME NEW s \in Statement, NEW sch \in SUBSET Things
    PROVE  SchemaAfter(s, sch) \subseteq Things
  BY DEF SchemaAfter, Statement

LEMMA RunnerKeeps ==
    ASSUME FilesInv, NEW r \in Runners,
           \/ ReadDirectory(r) \/ ReadLedger(r) \/ Skip(r) \/ Apply(r) \/ ApplyFails(r)
           \/ Record(r) \/ RecordDuplicate(r) \/ Finish(r) \/ Interrupt(r)
    PROVE  FilesInv'
<1> DEFINE row == runner[r]
<1>0. /\ runner \in [Runners -> Runner] /\ row \in Runner
      /\ schema \subseteq Things /\ ledger \subseteq FileNames
      /\ released \in 0..Len(Directory) /\ overlapped \in BOOLEAN
      /\ work \subseteq Runners \X FileNames \X Nat
      /\ Advanced(r) /\ row.done \subseteq ledger
  BY DEF FilesInv, FilesTypeOK
<1>p. \A p \in {"directory read", "applying", "done", "failed", "interrupted"} :
        p \in {"idle", "directory read", "applying"} \cup Ends
  BY DEF Ends
<1>1. CASE ReadDirectory(r)
  <2>1. runner' = [runner EXCEPT ![r] = [row EXCEPT !.pc = "directory read", !.count = released]]
    BY <1>0, <1>1 DEF ReadDirectory
  <2>2. [row EXCEPT !.pc = "directory read", !.count = released] \in Runner
    BY <1>0, <1>p, RunnerUpdateTyped
  <2>3. Moves(r, [row EXCEPT !.pc = "directory read", !.count = released])
    BY <1>0, <1>1, <2>1, <2>2 DEF ReadDirectory, Moves, Runner, Advanced
  <2>4. overlapped' \in BOOLEAN
    BY <1>0, <1>1 DEF ReadDirectory
  <2> QED
    BY <1>0, <1>1, <2>3, <2>4, MoveKeeps DEF ReadDirectory
<1>2. CASE ReadLedger(r)
  <2> DEFINE pc == IF row.count = 0 THEN "done" ELSE "applying"
  <2>1. runner' = [runner EXCEPT ![r] = [row EXCEPT !.pc = pc, !.done = ledger]]
    BY <1>0, <1>2 DEF ReadLedger
  <2>2. [row EXCEPT !.pc = pc, !.done = ledger] \in Runner
    BY <1>0, <1>p, RunnerUpdateTyped
  <2>3. Moves(r, [row EXCEPT !.pc = pc, !.done = ledger])
    BY <1>0, <1>2, <2>1, <2>2 DEF ReadLedger, Moves, Runner, Advanced
  <2> QED
    BY <1>0, <1>2, <2>3, MoveKeeps DEF ReadLedger
<1>3. CASE Skip(r)
  <2>1. runner' = [runner EXCEPT ![r] = [row EXCEPT !.file = @ + 1]]
    BY <1>0, <1>3 DEF Skip
  <2>2. row.file \in Indices /\ [row EXCEPT !.file = @ + 1] \in Runner
    BY <1>0, <1>3, RunnerUpdateTyped DEF Skip
  <2>3. Directory[row.file] \in APP_MIGRATIONS \cup ledger
    BY <1>0, <1>3 DEF Skip, LeftOut, FileOf
  <2>4. \A i \in Indices : i < row.file + 1 => i < row.file \/ i = row.file
    BY <2>2, DirectoryIsIndexed DEF Indices
  <2>5. Moves(r, [row EXCEPT !.file = @ + 1])
    BY <1>0, <1>3, <2>1, <2>2, <2>3, <2>4 DEF Skip, Moves, Runner, Advanced
  <2> QED
    BY <1>0, <1>3, <2>5, MoveKeeps DEF Skip
<1>4. CASE Apply(r)
  <2>1. runner' = [runner EXCEPT ![r] = [row EXCEPT !.stmt = @ + 1]]
    BY <1>0, <1>4 DEF Apply
  <2>2. [row EXCEPT !.stmt = @ + 1] \in Runner
    BY <1>0, RunnerUpdateTyped, DirectoryIsIndexed DEF Ends
  <2>3. Moves(r, [row EXCEPT !.stmt = @ + 1])
    BY <1>0, <1>4, <2>1, <2>2 DEF Apply, Moves, Runner, Advanced
  <2>4. row.file \in Indices
    BY <1>0, <1>4, RunnerUpdateTyped DEF Apply, InFile
  <2>5. /\ FileOf(r) \in FileNames /\ row.stmt \in Nat
        /\ Content[FileOf(r)][row.stmt] \in Statement
    <3>1. FileOf(r) \in FileNames /\ Content[FileOf(r)] \in Seq(Statement)
      BY <2>4, DirectoryIsIndexed DEF FileOf
    <3>2. row.stmt \in DOMAIN Content[FileOf(r)] /\ row.stmt \in Nat
      BY <1>0, <1>4 DEF Apply, Runner
    <3> QED
      BY <3>1, <3>2
  <2>6. schema' \subseteq Things
    BY <1>0, <1>4, <2>5, SchemaAfterTyped DEF Apply
  <2>7. work' \subseteq Runners \X FileNames \X Nat
    BY <1>0, <1>4, <2>5 DEF Apply
  <2> QED
    BY <1>0, <1>4, <2>3, <2>6, <2>7, MoveKeeps DEF Apply
<1>5. CASE ApplyFails(r) \/ RecordDuplicate(r) \/ Finish(r) \/ Interrupt(r)
  <2>1. PICK pc \in {"failed", "done", "interrupted"} :
          runner' = [runner EXCEPT ![r].pc = pc]
    BY <1>5 DEF ApplyFails, RecordDuplicate, Finish, Interrupt, Fail
  <2>2. UNCHANGED <<schema, ledger, released, work, overlapped>>
    BY <1>5 DEF ApplyFails, RecordDuplicate, Finish, Interrupt, Fail
  <2>3. runner' = [runner EXCEPT ![r] = [row EXCEPT !.pc = pc]]
    BY <1>0, <2>1
  <2>4. [row EXCEPT !.pc = pc] \in Runner
    BY <1>0, <1>p, RunnerUpdateTyped, DirectoryIsIndexed
  <2>5. Moves(r, [row EXCEPT !.pc = pc])
    BY <1>0, <2>2, <2>3, <2>4 DEF Moves, Runner, Advanced
  <2> QED
    BY <1>0, <2>2, <2>5, MoveKeeps
<1>6. CASE Record(r)
  <2> DEFINE new == [row EXCEPT !.file = @ + 1, !.stmt = 1]
  <2>1. runner' = [runner EXCEPT ![r] = new] /\ ledger' = ledger \cup {FileOf(r)}
    BY <1>0, <1>6 DEF Record
  <2>2. row.file \in Indices /\ new \in Runner
    BY <1>0, <1>6, RunnerUpdateTyped DEF Record, InFile
  <2>3. FileOf(r) = Directory[row.file] /\ FileOf(r) \in FileNames
    BY <2>2, DirectoryIsIndexed DEF FileOf
  <2>4. FilesTypeOK'
    BY <1>0, <1>6, <2>1, <2>2, <2>3 DEF Record, FilesTypeOK
  <2>5. LedgerInOrder'
    <3> SUFFICES ASSUME NEW i \in Indices, NEW j \in Indices, i < j,
                        Directory[j] \in ledger', Directory[i] \notin APP_MIGRATIONS
                 PROVE  Directory[i] \in ledger'
      BY DEF LedgerInOrder
    <3>1. CASE Directory[j] \in ledger
      BY <2>1, <3>1 DEF FilesInv, LedgerInOrder
    <3>2. CASE Directory[j] = FileOf(r)
      BY <1>0, <2>1, <2>2, <2>3, <3>2, DirectoryIsIndexed DEF Advanced
    <3> QED
      BY <2>1, <3>1, <3>2
  <2>6. \A i \in Indices : i < row.file + 1 => i < row.file \/ i = row.file
    BY <2>2, DirectoryIsIndexed DEF Indices
  <2>7. \A q \in Runners : Advanced(q)' /\ runner'[q].done \subseteq ledger'
    <3> SUFFICES ASSUME NEW q \in Runners
                 PROVE  Advanced(q)' /\ runner'[q].done \subseteq ledger'
      OBVIOUS
    <3>1. CASE q # r
      BY <1>0, <2>1, <3>1 DEF FilesInv, Advanced
    <3>2. CASE q = r
      <4>1. runner'[q].file = row.file + 1 /\ runner'[q].done = row.done
        BY <1>0, <2>1, <3>2 DEF Runner
      <4> QED
        BY <1>0, <2>1, <2>3, <2>6, <4>1 DEF Advanced
    <3> QED
      BY <3>1, <3>2
  <2> QED
    BY <2>4, <2>5, <2>7 DEF FilesInv
<1> QED
  BY <1>1, <1>2, <1>3, <1>4, <1>5, <1>6

LEMMA FilesStep ==
    ASSUME FilesInv, FilesNext \/ UNCHANGED files
    PROVE  FilesInv'
<1>1. CASE \E r \in Runners :
             \/ ReadDirectory(r) \/ ReadLedger(r) \/ Skip(r) \/ Apply(r) \/ ApplyFails(r)
             \/ Record(r) \/ RecordDuplicate(r) \/ Finish(r) \/ Interrupt(r)
  BY <1>1, RunnerKeeps
<1>2. CASE Release
  BY <1>2, DirectoryIsIndexed
     DEF Release, FilesInv, FilesTypeOK, LedgerInOrder, Advanced
<1>3. CASE UNCHANGED files
  BY <1>3 DEF files, FilesInv, FilesTypeOK, LedgerInOrder, Advanced
<1> QED
  BY <1>1, <1>2, <1>3 DEF FilesNext

-----------------------------------------------------------------------------
(* What files make of a schema. *)

(* Were x the first number outside S, each number up to x outside S would  *)
(* have its predecessor outside S, and x is the predecessor of none.       *)
LEMMA NatSetInduction ==
    ASSUME NEW S, 0 \in S, \A n \in Nat : n \in S => n + 1 \in S
    PROVE  Nat \subseteq S
<1> SUFFICES ASSUME NEW x \in Nat, x \notin S PROVE FALSE
  OBVIOUS
<1> DEFINE T == {i \in 0..x : i \notin S}
           f == [i \in T |-> i - 1]
<1>1. IsFiniteSet(T)
  <2>1. IsFiniteSet(0..x) /\ T \subseteq 0..x
    BY FS_Interval
  <2> QED
    BY <2>1, FS_Subset
<1>2. \A i \in T : i - 1 \in T
  <2> SUFFICES ASSUME NEW i \in T PROVE i - 1 \in T
    OBVIOUS
  <2>1. i \in Nat /\ i # 0 /\ i - 1 \in Nat /\ i - 1 \in 0..x /\ (i - 1) + 1 = i
    OBVIOUS
  <2> QED
    BY <2>1
<1>3. f \in Injection(T, T)
  <2>1. f \in [T -> T]
    BY <1>2
  <2>2. \A a, b \in T : f[a] = f[b] => a = b
    OBVIOUS
  <2> QED
    BY <2>1, <2>2, Zenon DEF Injection, IsInjective
<1>4. f \in Surjection(T, T)
  BY <1>1, <1>3, FS_Injection
<1>5. x \in T
  OBVIOUS
<1>6. PICK i \in T : f[i] = x
  BY <1>4, <1>5, Zenon DEF Surjection
<1> QED
  BY <1>6

LEMMA PartAfterIsDefined ==
    ASSUME NEW f, NEW sch, Len(Content[f]) \in Nat
    PROVE  /\ PartAfter(f, 0, sch) = sch
           /\ \A n \in 1..Len(Content[f]) :
                PartAfter(f, n, sch) = SchemaAfter(Content[f][n], PartAfter(f, n - 1, sch))
<1> DEFINE Defines(g, n) ==
             g = [i \in 0..n |-> IF i = 0 THEN sch ELSE SchemaAfter(Content[f][i], g[i - 1])]
           S == {n \in Nat : \E g : Defines(g, n)}
<1>1. 0 \in S
  <2> DEFINE g == [i \in 0..0 |-> sch]
  <2>1. Defines(g, 0)
    OBVIOUS
  <2> QED
    BY <2>1
<1>2. \A n \in Nat : n \in S => n + 1 \in S
  <2> SUFFICES ASSUME NEW n \in Nat, n \in S PROVE n + 1 \in S
    OBVIOUS
  <2>1. PICK g : Defines(g, n)
    OBVIOUS
  <2> DEFINE h == [i \in 0..n + 1 |-> IF i = n + 1 THEN SchemaAfter(Content[f][n + 1], g[n])
                                       ELSE g[i]]
  <2>2. \A i \in 0..n + 1 :
          h[i] = IF i = 0 THEN sch ELSE SchemaAfter(Content[f][i], h[i - 1])
    <3> SUFFICES ASSUME NEW i \in 0..n + 1
                 PROVE  h[i] = IF i = 0 THEN sch ELSE SchemaAfter(Content[f][i], h[i - 1])
      OBVIOUS
    <3>1. CASE i = n + 1
      <4>1. i # 0 /\ i - 1 = n /\ n \in 0..n + 1 /\ n # n + 1
        BY <3>1
      <4>2. h[i] = SchemaAfter(Content[f][n + 1], g[n]) /\ h[n] = g[n]
        BY <3>1, <4>1
      <4> QED
        BY <3>1, <4>1, <4>2
    <3>2. CASE i # n + 1
      <4>1. i \in 0..n /\ (i # 0 => i - 1 \in 0..n + 1 /\ i - 1 # n + 1)
        BY <3>2
      <4>2. h[i] = g[i] /\ (i # 0 => h[i - 1] = g[i - 1])
        BY <3>2, <4>1
      <4>3. g[i] = IF i = 0 THEN sch ELSE SchemaAfter(Content[f][i], g[i - 1])
        BY <2>1, <4>1
      <4> QED
        BY <4>2, <4>3
    <3> QED
      BY <3>1, <3>2
  <2> HIDE DEF h
  <2>3. Defines(h, n + 1)
    BY <2>2 DEF h
  <2> QED
    BY <2>3
<1>3. PICK g : Defines(g, Len(Content[f]))
  BY <1>1, <1>2, NatSetInduction
<1> DEFINE after == CHOOSE h : Defines(h, Len(Content[f]))
<1>4. Defines(after, Len(Content[f]))
  BY <1>3
<1>5. \A n : PartAfter(f, n, sch) = after[n]
  BY DEF PartAfter
<1> HIDE DEF after
<1>6. \A i \in 0..Len(Content[f]) :
        after[i] = IF i = 0 THEN sch ELSE SchemaAfter(Content[f][i], after[i - 1])
  BY <1>4
<1>7. 0 \in 0..Len(Content[f]) /\ \A n \in 1..Len(Content[f]) : n \in 0..Len(Content[f]) /\ n # 0
  OBVIOUS
<1> QED
  BY <1>5, <1>6, <1>7

LEMMA SchemaFromIsDefined ==
    ASSUME NEW some
    PROVE  /\ SchemaFrom(some, 0) = {}
           /\ \A n \in Indices :
                SchemaFrom(some, n) =
                  IF Directory[n] \in some
                  THEN FileAfter(Directory[n], SchemaFrom(some, n - 1))
                  ELSE SchemaFrom(some, n - 1)
<1> DEFINE Next1(i, sch) == IF Directory[i] \in some THEN FileAfter(Directory[i], sch) ELSE sch
           Defines(g, n) ==
             g = [i \in 0..n |-> IF i = 0 THEN {} ELSE
                                 IF Directory[i] \in some THEN FileAfter(Directory[i], g[i - 1])
                                 ELSE g[i - 1]]
           S == {n \in Nat : \E g : Defines(g, n)}
<1>0. Len(Directory) \in Nat
  BY DirectoryIsIndexed
<1>1. 0 \in S
  <2> DEFINE g == [i \in 0..0 |-> {}]
  <2>1. Defines(g, 0)
    OBVIOUS
  <2> QED
    BY <2>1
<1>2. \A n \in Nat : n \in S => n + 1 \in S
  <2> SUFFICES ASSUME NEW n \in Nat, n \in S PROVE n + 1 \in S
    OBVIOUS
  <2>1. PICK g : Defines(g, n)
    OBVIOUS
  <2> DEFINE h == [i \in 0..n + 1 |-> IF i = n + 1 THEN Next1(n + 1, g[n]) ELSE g[i]]
  <2>2. \A i \in 0..n + 1 : h[i] = IF i = 0 THEN {} ELSE Next1(i, h[i - 1])
    <3> SUFFICES ASSUME NEW i \in 0..n + 1
                 PROVE  h[i] = IF i = 0 THEN {} ELSE Next1(i, h[i - 1])
      OBVIOUS
    <3>1. CASE i = n + 1
      <4>1. i # 0 /\ i - 1 = n /\ n \in 0..n + 1 /\ n # n + 1
        BY <3>1
      <4>2. h[i] = Next1(n + 1, g[n]) /\ h[n] = g[n]
        BY <3>1, <4>1
      <4> QED
        BY <3>1, <4>1, <4>2
    <3>2. CASE i # n + 1
      <4>1. i \in 0..n /\ (i # 0 => i - 1 \in 0..n + 1 /\ i - 1 # n + 1)
        BY <3>2
      <4>2. h[i] = g[i] /\ (i # 0 => h[i - 1] = g[i - 1])
        BY <3>2, <4>1
      <4>3. g[i] = IF i = 0 THEN {} ELSE Next1(i, g[i - 1])
        BY <2>1, <4>1
      <4> QED
        BY <4>2, <4>3
    <3> QED
      BY <3>1, <3>2
  <2> HIDE DEF h
  <2>3. Defines(h, n + 1)
    BY <2>2 DEF h
  <2> QED
    BY <2>3
<1>3. PICK g : Defines(g, Len(Directory))
  BY <1>0, <1>1, <1>2, NatSetInduction
<1> DEFINE after == CHOOSE h : Defines(h, Len(Directory))
<1>4. Defines(after, Len(Directory))
  BY <1>3
<1>5. \A n : SchemaFrom(some, n) = after[n]
  BY DEF SchemaFrom
<1> HIDE DEF after
<1>6. \A i \in 0..Len(Directory) :
        after[i] = IF i = 0 THEN {} ELSE
                   IF Directory[i] \in some THEN FileAfter(Directory[i], after[i - 1])
                   ELSE after[i - 1]
  BY <1>4
<1>7. 0 \in 0..Len(Directory) /\ \A n \in Indices : n \in 0..Len(Directory) /\ n # 0
  BY <1>0 DEF Indices
<1> QED
  BY <1>5, <1>6, <1>7

(* Only which of the first n files are in the set matters. *)
LEMMA SchemaFromAgrees ==
    ASSUME NEW some, NEW other, NEW m \in 0..Len(Directory),
           \A i \in Indices : i <= m => (Directory[i] \in some <=> Directory[i] \in other)
    PROVE  SchemaFrom(some, m) = SchemaFrom(other, m)
<1> DEFINE S == {n \in Nat : n <= m => SchemaFrom(some, n) = SchemaFrom(other, n)}
<1>1. 0 \in S
  BY SchemaFromIsDefined
<1>2. \A n \in Nat : n \in S => n + 1 \in S
  <2> SUFFICES ASSUME NEW n \in Nat, n \in S, n + 1 <= m
               PROVE  SchemaFrom(some, n + 1) = SchemaFrom(other, n + 1)
    OBVIOUS
  <2>1. n + 1 \in Indices /\ (n + 1) - 1 = n /\ n <= m
    BY DirectoryIsIndexed DEF Indices
  <2>2. SchemaFrom(some, n) = SchemaFrom(other, n)
    BY <2>1
  <2>3. Directory[n + 1] \in some <=> Directory[n + 1] \in other
    BY <2>1
  <2>4. \A set : SchemaFrom(set, n + 1) =
                    IF Directory[n + 1] \in set
                    THEN FileAfter(Directory[n + 1], SchemaFrom(set, n))
                    ELSE SchemaFrom(set, n)
    BY <2>1, SchemaFromIsDefined
  <2>5. CASE Directory[n + 1] \in some
    BY <2>2, <2>3, <2>4, <2>5
  <2>6. CASE Directory[n + 1] \notin some
    BY <2>2, <2>3, <2>4, <2>6
  <2> QED
    BY <2>5, <2>6
<1>3. m \in Nat /\ m <= m
  BY DirectoryIsIndexed
<1>4. m \in S
  BY <1>1, <1>2, <1>3, NatSetInduction
<1> QED
  BY <1>3, <1>4

(* Files that are not in the set change nothing. *)
LEMMA SchemaFromEnds ==
    ASSUME NEW some, NEW m \in 0..Len(Directory),
           \A i \in Indices : i > m => Directory[i] \notin some
    PROVE  SchemaFrom(some, Len(Directory)) = SchemaFrom(some, m)
<1> DEFINE S == {n \in Nat : m + n <= Len(Directory) =>
                               SchemaFrom(some, m + n) = SchemaFrom(some, m)}
<1>0. m \in Nat /\ Len(Directory) \in Nat /\ m <= Len(Directory)
  BY DirectoryIsIndexed
<1>1. 0 \in S
  BY <1>0
<1>2. \A n \in Nat : n \in S => n + 1 \in S
  <2> SUFFICES ASSUME NEW n \in Nat, n \in S, m + (n + 1) <= Len(Directory)
               PROVE  SchemaFrom(some, m + (n + 1)) = SchemaFrom(some, m)
    OBVIOUS
  <2>1. /\ m + (n + 1) \in Indices /\ (m + (n + 1)) - 1 = m + n
        /\ m + n <= Len(Directory) /\ m + (n + 1) > m
    BY <1>0 DEF Indices
  <2>2. Directory[m + (n + 1)] \notin some
    BY <2>1
  <2> QED
    BY <2>1, <2>2, SchemaFromIsDefined
<1>3. Len(Directory) - m \in Nat /\ m + (Len(Directory) - m) = Len(Directory)
  BY <1>0
<1>4. Len(Directory) - m \in S
  BY <1>1, <1>2, <1>3, NatSetInduction
<1> QED
  BY <1>0, <1>3, <1>4

(* The next file is recorded. *)
LEMMA RecordedGrows ==
    ASSUME NEW some, NEW i \in Indices,
           \A j \in Indices : j >= i => Directory[j] \notin some
    PROVE  SchemaFrom(some \cup {Directory[i]}, Len(Directory))
             = FileAfter(Directory[i], SchemaFrom(some, Len(Directory)))
<1> DEFINE more == some \cup {Directory[i]}
<1>0. /\ i \in 0..Len(Directory) /\ i - 1 \in 0..Len(Directory)
      /\ \A j \in Indices : /\ j > i - 1 => j >= i
                            /\ j > i => j >= i /\ j # i
                            /\ j <= i - 1 => j # i
  BY DirectoryIsIndexed DEF Indices
<1>1. SchemaFrom(some, Len(Directory)) = SchemaFrom(some, i - 1)
  BY <1>0, SchemaFromEnds
<1>2. SchemaFrom(more, i - 1) = SchemaFrom(some, i - 1)
  <2>1. \A j \in Indices : j <= i - 1 => (Directory[j] \in more <=> Directory[j] \in some)
    BY <1>0, DirectoryIsIndexed
  <2> QED
    BY <1>0, <2>1, SchemaFromAgrees
<1>3. SchemaFrom(more, Len(Directory)) = SchemaFrom(more, i)
  <2>1. \A j \in Indices : j > i => Directory[j] \notin more
    BY <1>0, DirectoryIsIndexed
  <2> QED
    BY <1>0, <2>1, SchemaFromEnds
<1>4. SchemaFrom(more, i) = FileAfter(Directory[i], SchemaFrom(more, i - 1))
  BY SchemaFromIsDefined
<1> QED
  BY <1>1, <1>2, <1>3, <1>4

-----------------------------------------------------------------------------
(* Statements that are executed again. *)

(* To execute s again changes nothing, and it is not refused. *)
Absorbed(s, sch) == SchemaAfter(s, sch) = sch /\ ~Refused(s, sch)

(* Something there is, or is missing, that makes statement u of file f     *)
(* fail, and that no statement of the file removes, or brings back.        *)
Locked(f, u, sch) ==
    \/ \E x \in Content[f][u].forbids \cap sch :
         \A j \in DOMAIN Content[f] : x \notin Content[f][j].takes
    \/ \E x \in Content[f][u].needs \ sch :
         \A j \in DOMAIN Content[f] : x \notin Content[f][j].gives

LEMMA ExecutedIsAbsorbed ==
    ASSUME NEW s, NEW sch,
           ~Unrepeatable(s),
           s.unless # {} => s.unless \cap s.gives # {},
           s.rows = "events listed" => s.takes \cap s.gives = {},
           \/ s.unless \cap sch # {}
           \/ s.needs \subseteq sch /\ s.forbids \cap sch = {}
    PROVE  Absorbed(s, SchemaAfter(s, sch))
<1>1. CASE s.unless \cap sch # {}
  BY <1>1 DEF SchemaAfter, Absorbed, Refused
<1>2. CASE s.unless \cap sch = {}
  <2> DEFINE new == (sch \ s.takes) \cup s.gives
  <2>1. SchemaAfter(s, sch) = new
    BY <1>2 DEF SchemaAfter
  <2>2. s.needs \subseteq sch /\ s.forbids \cap sch = {}
    BY <1>2
  <2>3. CASE s.unless # {}
    <3>1. s.unless \cap new # {}
      BY <2>3
    <3> QED
      BY <2>1, <3>1 DEF SchemaAfter, Absorbed, Refused
  <2>4. CASE s.unless = {}
    <3>1. s.forbids = {} /\ s.takes \cap s.needs = {}
      BY <2>4 DEF Unrepeatable
    <3>2. (new \ s.takes) \cup s.gives = new
      OBVIOUS
    <3>3. s.needs \subseteq new
      BY <2>2, <3>1
    <3>4. s.rows = "events listed" => s.takes \cap new = {}
      OBVIOUS
    <3>5. SchemaAfter(s, new) = new
      BY <2>4, <3>2 DEF SchemaAfter
    <3>6. ~Refused(s, new)
      BY <3>1, <3>3, <3>4 DEF Refused
    <3> QED
      BY <2>1, <3>5, <3>6 DEF Absorbed
  <2> QED
    BY <2>3, <2>4
<1> QED
  BY <1>1, <1>2

(* A statement that writes nothing s has to do with leaves s absorbed. *)
LEMMA ApartKeepsAbsorbed ==
    ASSUME NEW s, NEW t, NEW sch, Absorbed(s, sch), Writes(t) \cap Touches(s) = {}
    PROVE  Absorbed(s, SchemaAfter(t, sch))
<1> DEFINE new == SchemaAfter(t, sch)
<1>1. \A x \in Touches(s) : x \in new <=> x \in sch
  BY DEF SchemaAfter, Writes
<1> HIDE DEF new
<1>2. /\ s.unless \subseteq Touches(s) /\ s.needs \subseteq Touches(s)
      /\ s.forbids \subseteq Touches(s) /\ s.takes \subseteq Touches(s)
      /\ s.gives \subseteq Touches(s)
  BY DEF Touches, Writes
<1>3. s.unless \cap new = s.unless \cap sch
  BY <1>1, <1>2
<1>4. SchemaAfter(s, new) = new
  <2>1. CASE s.unless \cap sch # {}
    BY <1>3, <2>1 DEF SchemaAfter
  <2>2. CASE s.unless \cap sch = {}
    <3>1. (sch \ s.takes) \cup s.gives = sch
      BY <2>2 DEF Absorbed, SchemaAfter
    <3>2. s.gives \subseteq sch /\ \A x \in s.takes \cap sch : x \in s.gives
      BY <3>1
    <3>3. s.gives \subseteq new /\ \A x \in s.takes \cap new : x \in s.gives
      BY <1>1, <1>2, <3>2
    <3>4. (new \ s.takes) \cup s.gives = new
      BY <3>3
    <3> QED
      BY <1>3, <2>2, <3>4 DEF SchemaAfter
  <2> QED
    BY <2>1, <2>2
<1>5. ~Refused(s, new)
  <2>1. /\ s.needs \subseteq new <=> s.needs \subseteq sch
        /\ s.forbids \cap new = s.forbids \cap sch
        /\ s.takes \cap new = s.takes \cap sch
    BY <1>1, <1>2
  <2> QED
    BY <1>3, <2>1 DEF Absorbed, Refused
<1> QED
  BY <1>4, <1>5 DEF Absorbed, new

LEMMA LocksLast ==
    ASSUME NEW f, NEW u, NEW j \in DOMAIN Content[f], NEW sch, Locked(f, u, sch)
    PROVE  Locked(f, u, SchemaAfter(Content[f][j], sch))
  BY DEF Locked, SchemaAfter

LEMMA LocksAreSet ==
    ASSUME UnrepeatablesFail, NEW f \in Expected, NEW u \in DOMAIN Content[f],
           Unrepeatable(Content[f][u]), NEW sch
    PROVE  Locked(f, u, SchemaAfter(Content[f][u], sch))
<1> DEFINE s == Content[f][u]
<1>1. SchemaAfter(s, sch) = (sch \ s.takes) \cup s.gives
  BY DEF Unrepeatable, SchemaAfter
<1>2. CASE \E x \in s.forbids \cap s.gives :
             \A j \in DOMAIN Content[f] : x \notin Content[f][j].takes
  BY <1>1, <1>2 DEF Locked
<1>3. CASE \E x \in s.needs \cap s.takes :
             \A j \in DOMAIN Content[f] : x \notin Content[f][j].gives
  BY <1>1, <1>3 DEF Locked
<1> QED
  BY <1>2, <1>3 DEF UnrepeatablesFail

LEMMA LockedFails ==
    ASSUME NEW f, NEW u, Unrepeatable(Content[f][u]), Locked(f, u, schema)
    PROVE  ~MaySucceed(Content[f][u])
  BY DEF Unrepeatable, Locked, MaySucceed, Skipped

-----------------------------------------------------------------------------
(* What each run has done. *)

(* A run has worked on no file beyond the one it is in, on that one up to  *)
(* the statement it is at, and on all of it up to there.                   *)
OwnWork(r) ==
    /\ \A t \in work : t[1] = r =>
         /\ runner[r].pc \notin {"idle", "directory read"}
         /\ \A i \in Indices : t[2] = Directory[i] =>
              \/ i < runner[r].file
              \/ i = runner[r].file /\ t[3] < runner[r].stmt
    /\ runner[r].stmt # 1 =>
         /\ runner[r].file \in Indices
         /\ runner[r].pc = "applying" => InFile(r)
         /\ \A k \in 1..runner[r].stmt - 1 : <<r, FileOf(r), k>> \in work
    /\ runner[r].pc \in {"idle", "directory read"} => runner[r].file = 1

WorkInv == FilesInv /\ ledger \cap APP_MIGRATIONS = {} /\ \A r \in Runners : OwnWork(r)

LEMMA RunnerTyped ==
    ASSUME FilesInv, NEW r \in Runners
    PROVE  /\ runner \in [Runners -> Runner]
           /\ runner[r].pc \in {"idle", "directory read", "applying"} \cup Ends
           /\ runner[r].count \in 0..Len(Directory)
           /\ runner[r].file \in 1..Len(Directory) + 1
           /\ runner[r].stmt \in Nat \ {0}
           /\ \A t \in work : t[1] \in Runners /\ t[2] \in FileNames /\ t[3] \in Nat
           /\ ledger \subseteq FileNames
<1>1. runner \in [Runners -> Runner] /\ runner[r] \in Runner
  BY DEF FilesInv, FilesTypeOK
<1>2. work \subseteq Runners \X FileNames \X Nat /\ ledger \subseteq FileNames
  BY DEF FilesInv, FilesTypeOK
<1> QED
  BY <1>1, <1>2 DEF Runner

LEMMA InFileTyped ==
    ASSUME FilesInv, NEW r \in Runners, InFile(r)
    PROVE  /\ runner[r].file \in Indices /\ runner[r].pc = "applying"
           /\ FileOf(r) = Directory[runner[r].file] /\ FileOf(r) \in Expected
           /\ FileOf(r) \notin runner[r].done
           /\ Content[FileOf(r)] \in Seq(Statement) /\ Len(Content[FileOf(r)]) \in Nat
           /\ DOMAIN Content[FileOf(r)] = 1..Len(Content[FileOf(r)])
<1>1. runner[r].file \in Indices
  BY RunnerTyped, FilesCount DEF InFile
<1>2. FileOf(r) = Directory[runner[r].file]
  BY DEF FileOf
<1> QED
  BY <1>1, <1>2, DirectoryIsIndexed DEF InFile, LeftOut, Expected

LEMMA StatementsBefore ==
    /\ \A n \in Nat \ {0} : n # 1 => 1 \in 1..n - 1
    /\ \A n \in Nat \ {0} : \A k \in 1..(n + 1) - 1 : k = n \/ k \in 1..n - 1
  OBVIOUS

(* A run that ends. *)
LEMMA StopTyped ==
    ASSUME FilesInv, NEW r \in Runners,
           ApplyFails(r) \/ RecordDuplicate(r) \/ Finish(r) \/ Interrupt(r)
    PROVE  /\ runner'[r].pc \in {"failed", "done", "interrupted"}
           /\ runner'[r].file = runner[r].file /\ runner'[r].stmt = runner[r].stmt
           /\ runner'[r].count = runner[r].count /\ runner'[r].done = runner[r].done
           /\ \A q \in Runners : q # r => runner'[q] = runner[q]
           /\ UNCHANGED <<schema, users, ledger, released, work, overlapped>>
<1>0. runner \in [Runners -> Runner] /\ runner[r] \in Runner
  BY DEF FilesInv, FilesTypeOK
<1>1. PICK pc \in {"failed", "done", "interrupted"} :
        runner' = [runner EXCEPT ![r].pc = pc]
  BY DEF ApplyFails, RecordDuplicate, Finish, Interrupt, Fail
<1>2. UNCHANGED <<schema, users, ledger, released, work, overlapped>>
  BY DEF ApplyFails, RecordDuplicate, Finish, Interrupt, Fail
<1>3. runner'[r] = [runner[r] EXCEPT !.pc = pc]
  BY <1>0, <1>1
<1>4. \A q \in Runners : q # r => runner'[q] = runner[q]
  BY <1>0, <1>1
<1> QED
  BY <1>0, <1>2, <1>3, <1>4 DEF Runner

(* A run that has not read the ledger, or is past its files, is at no      *)
(* statement; nor is one that passes a file over.                          *)
LEMMA AtFirstStatement ==
    ASSUME WorkInv, NEW r \in Runners,
           \/ runner[r].pc \in {"idle", "directory read"}
           \/ runner[r].pc = "applying" /\ ~InFile(r)
    PROVE  /\ runner[r].stmt = 1
           /\ runner[r].pc \in {"idle", "directory read"} =>
                runner[r].file = 1 /\ \A t \in work : t[1] # r
<1>1. OwnWork(r) /\ runner[r].stmt \in Nat \ {0}
  BY RunnerTyped DEF WorkInv
<1>2. runner[r].stmt = 1
  <2> SUFFICES ASSUME runner[r].stmt # 1 PROVE FALSE
    OBVIOUS
  <2>1. 1 \in 1..runner[r].stmt - 1
    BY <1>1, StatementsBefore
  <2>2. <<r, FileOf(r), 1>> \in work
    BY <1>1, <2>1 DEF OwnWork
  <2>3. runner[r].pc \notin {"idle", "directory read"}
    BY <1>1, <2>2 DEF OwnWork
  <2> QED
    BY <1>1, <2>3 DEF OwnWork
<1> QED
  BY <1>1, <1>2 DEF OwnWork

LEMMA OthersWorkKeeps ==
    ASSUME NEW r \in Runners, NEW q \in Runners, OwnWork(q),
           runner'[q] = runner[q],
           work \subseteq work', \A t \in work' : t[1] = q => t \in work
    PROVE  OwnWork(q)'
  BY DEF OwnWork, InFile, LeftOut, FileOf

LEMMA OwnWorkStep ==
    ASSUME WorkInv, NEW r \in Runners,
           \/ ReadDirectory(r) \/ ReadLedger(r) \/ Skip(r) \/ Apply(r) \/ ApplyFails(r)
           \/ Record(r) \/ RecordDuplicate(r) \/ Finish(r) \/ Interrupt(r)
    PROVE  \A q \in Runners : OwnWork(q)'
<1>0. /\ OwnWork(r) /\ runner \in [Runners -> Runner] /\ runner[r] \in Runner
      /\ runner[r].file \in 1..Len(Directory) + 1 /\ runner[r].stmt \in Nat \ {0}
      /\ \A t \in work : t[1] \in Runners /\ t[2] \in FileNames /\ t[3] \in Nat
      /\ FilesInv
  BY RunnerTyped DEF WorkInv, FilesInv, FilesTypeOK
<1>1. \A q \in Runners : q # r => runner'[q] = runner[q]
  BY <1>0 DEF ReadDirectory, ReadLedger, Skip, Apply, ApplyFails, Record,
              RecordDuplicate, Finish, Interrupt, Fail
<1>2. work' = work \/ (Apply(r) /\ work' = work \cup {<<r, FileOf(r), runner[r].stmt>>})
  BY DEF ReadDirectory, ReadLedger, Skip, Apply, ApplyFails, Record,
         RecordDuplicate, Finish, Interrupt, Fail
<1>3. \A q \in Runners : q # r => OwnWork(q)'
  <2> SUFFICES ASSUME NEW q \in Runners, q # r PROVE OwnWork(q)'
    OBVIOUS
  <2>1. work \subseteq work' /\ \A t \in work' : t[1] = q => t \in work
    BY <1>2
  <2> QED
    BY <1>1, <2>1, OthersWorkKeeps DEF WorkInv
<1>4. OwnWork(r)'
  <2>1. CASE ReadDirectory(r) \/ ReadLedger(r)
    <3>1. runner[r].stmt = 1 /\ runner[r].file = 1 /\ \A t \in work : t[1] # r
      BY <2>1, AtFirstStatement DEF ReadDirectory, ReadLedger
    <3>2. CASE ReadDirectory(r)
      BY <1>0, <3>1, <3>2 DEF ReadDirectory, Runner, OwnWork
    <3>3. CASE ReadLedger(r)
      <4>1. runner'[r].stmt = 1 /\ runner'[r].file = 1 /\ work' = work
        BY <1>0, <3>1, <3>3 DEF ReadLedger, Runner
      <4> QED
        BY <3>1, <4>1 DEF OwnWork
    <3> QED
      BY <2>1, <3>2, <3>3
  <2>2. CASE Skip(r)
    <3>1. runner[r].stmt = 1
      BY <2>2, AtFirstStatement DEF Skip, InFile
    <3>2. /\ runner'[r].stmt = 1 /\ runner'[r].file = runner[r].file + 1
          /\ runner'[r].pc = runner[r].pc /\ work' = work
      BY <1>0, <2>2, <3>1 DEF Skip, Runner
    <3>3. \A i \in Indices : i <= runner[r].file => i < runner[r].file + 1
      BY <1>0 DEF Indices
    <3>4. \A i \in Indices : i < runner[r].file => i <= runner[r].file
      BY <1>0, DirectoryIsIndexed DEF Indices
    <3>5. runner[r].file <= runner[r].file
      BY <1>0, DirectoryIsIndexed
    <3>6. runner[r].pc = "applying"
      BY <2>2 DEF Skip
    <3> QED
      BY <1>0, <3>2, <3>3, <3>4, <3>5, <3>6 DEF OwnWork
  <2>3. CASE Apply(r)
    <3>1. InFile(r) /\ runner[r].file \in Indices /\ FileOf(r) = Directory[runner[r].file]
      BY <1>0, <2>3, InFileTyped DEF Apply
    <3>2. /\ runner'[r].stmt = runner[r].stmt + 1 /\ runner'[r].file = runner[r].file
          /\ runner'[r].pc = runner[r].pc /\ runner'[r].count = runner[r].count
          /\ runner'[r].done = runner[r].done
      BY <1>0, <2>3 DEF Apply, Runner
    <3>3. InFile(r)' /\ FileOf(r)' = FileOf(r)
      BY <3>1, <3>2 DEF InFile, LeftOut, FileOf
    <3>4. work' = work \cup {<<r, FileOf(r), runner[r].stmt>>}
      BY <2>3 DEF Apply
    <3>5. \A t \in work' : t[1] = r =>
            /\ runner'[r].pc \notin {"idle", "directory read"}
            /\ \A i \in Indices : t[2] = Directory[i] =>
                 \/ i < runner'[r].file
                 \/ i = runner'[r].file /\ t[3] < runner'[r].stmt
      <4> SUFFICES ASSUME NEW t \in work', t[1] = r, NEW i \in Indices, t[2] = Directory[i]
                   PROVE  i < runner[r].file \/ (i = runner[r].file /\ t[3] < runner[r].stmt + 1)
        BY <3>1, <3>2 DEF InFile
      <4>1. CASE t \in work
        <5>1. i < runner[r].file \/ (i = runner[r].file /\ t[3] < runner[r].stmt)
          BY <1>0, <4>1 DEF OwnWork
        <5>2. t[3] \in Nat
          BY <1>0, <4>1
        <5> QED
          BY <1>0, <5>1, <5>2
      <4>2. CASE t = <<r, FileOf(r), runner[r].stmt>>
        <5>1. i = runner[r].file
          BY <3>1, <4>2, DirectoryIsIndexed
        <5> QED
          BY <1>0, <4>2, <5>1
      <4> QED
        BY <3>4, <4>1, <4>2
    <3>6. \A k \in 1..runner'[r].stmt - 1 : <<r, FileOf(r)', k>> \in work'
      <4> SUFFICES ASSUME NEW k \in 1..runner'[r].stmt - 1
                   PROVE  <<r, FileOf(r), k>> \in work'
        BY <3>3
      <4>1. k = runner[r].stmt \/ k \in 1..runner[r].stmt - 1
        BY <1>0, <3>2, StatementsBefore
      <4>2. runner[r].stmt = 1 => 1..runner[r].stmt - 1 = {}
        BY <1>0
      <4> QED
        BY <1>0, <3>4, <4>1, <4>2 DEF OwnWork
    <3> QED
      BY <3>1, <3>2, <3>3, <3>5, <3>6 DEF OwnWork, InFile
  <2>4. CASE ApplyFails(r) \/ RecordDuplicate(r) \/ Finish(r) \/ Interrupt(r)
    <3>1. /\ runner'[r].stmt = runner[r].stmt /\ runner'[r].file = runner[r].file
          /\ runner'[r].pc \notin {"idle", "directory read", "applying"}
          /\ work' = work
      BY <1>0, <2>4, StopTyped
    <3> QED
      BY <1>0, <3>1 DEF OwnWork, FileOf
  <2>5. CASE Record(r)
    <3>1. /\ runner'[r].stmt = 1 /\ runner'[r].file = runner[r].file + 1
          /\ runner'[r].pc = runner[r].pc /\ work' = work
      BY <1>0, <2>5 DEF Record, Runner
    <3>2. \A i \in Indices : i < runner[r].file \/ i = runner[r].file => i < runner[r].file + 1
      BY <1>0, DirectoryIsIndexed DEF Indices
    <3>3. runner[r].pc = "applying"
      BY <2>5 DEF Record, InFile
    <3> QED
      BY <1>0, <3>1, <3>2, <3>3 DEF OwnWork
  <2> QED
    BY <2>1, <2>2, <2>3, <2>4, <2>5
<1> QED
  BY <1>3, <1>4

-----------------------------------------------------------------------------
(* While no two runs have been at work at once. *)

Alone == \A q, r \in Runners : AtWork(q) /\ AtWork(r) => q = r

(* Of the files still before it, a run knows which are in the ledger. *)
UpToDate(r) ==
    runner[r].pc = "applying" =>
        \A i \in Indices : i >= runner[r].file /\ Directory[i] \in ledger
                           => Directory[i] \in runner[r].done

(* The file that is next. *)
Current(i) ==
    /\ Directory[i] \notin ledger \cup APP_MIGRATIONS
    /\ \A j \in Indices : j < i => Directory[j] \in ledger \cup APP_MIGRATIONS

(* The schema is as if the first m statements of file f had been executed  *)
(* once, whoever is in the file executes the next, or may repeat them.     *)
Frontier(f, m) ==
    /\ schema = PartAfter(f, m, RecordedSchema)
    /\ Repeatable(f, m) => \A k \in 1..m : Absorbed(Content[f][k], schema)
    /\ \A r \in Runners : InFile(r) => \/ runner[r].stmt = m + 1
                                       \/ runner[r].stmt <= m /\ Repeatable(f, m)

(* Whoever is in the file is before a statement that will fail. *)
Stuck(f, m) ==
    \E u \in 1..m : /\ Unrepeatable(Content[f][u])
                    /\ \A r \in Runners : InFile(r) => runner[r].stmt <= u

FileState(f, m) ==
    /\ \A t \in work : t[2] = f => t[3] \in 1..m
    /\ \A k \in 1..m : \E r \in Runners : <<r, f, k>> \in work
    /\ \A u \in 1..m : Unrepeatable(Content[f][u]) => Locked(f, u, schema)
    /\ Frontier(f, m) \/ Stuck(f, m)

FilesAgree ==
    /\ \A t \in work : t[2] \in ledger \/ \E i \in Indices : t[2] = Directory[i] /\ Current(i)
    /\ Expected \subseteq ledger => schema = RecordedSchema
    /\ \A i \in Indices : Current(i) =>
         \E m \in 0..Len(Content[Directory[i]]) : FileState(Directory[i], m)

FreshInv == Alone /\ (\A r \in Runners : UpToDate(r)) /\ FilesAgree

RunnerStep(r) ==
    \/ ReadDirectory(r) \/ ReadLedger(r) \/ Skip(r) \/ Apply(r) \/ ApplyFails(r)
    \/ Record(r) \/ RecordDuplicate(r) \/ Finish(r) \/ Interrupt(r)

LEMMA OthersRest ==
    ASSUME FilesInv, Alone, NEW r \in Runners, RunnerStep(r), ~overlapped'
    PROVE  /\ ~overlapped
           /\ \A q \in Runners : q # r => /\ runner'[q] = runner[q]
                                          /\ ~AtWork(q)' /\ ~InFile(q)'
<1>0. overlapped \in BOOLEAN /\ runner \in [Runners -> Runner]
  BY DEF FilesInv, FilesTypeOK
<1>1. \A q \in Runners : q # r => runner'[q] = runner[q]
  BY <1>0 DEF RunnerStep, ReadDirectory, ReadLedger, Skip, Apply, ApplyFails, Record,
              RecordDuplicate, Finish, Interrupt, Fail
<1>2. ~overlapped /\ \A q \in Runners : q # r => ~AtWork(q)
  <2>1. CASE ReadDirectory(r)
    BY <1>0, <2>1 DEF ReadDirectory
  <2>2. CASE ~ReadDirectory(r)
    <3>1. overlapped' = overlapped
      BY <2>2 DEF RunnerStep, ReadLedger, Skip, Apply, ApplyFails, Record,
                  RecordDuplicate, Finish, Interrupt, Fail
    <3>2. AtWork(r)
      BY <2>2 DEF RunnerStep, ReadLedger, Skip, Apply, ApplyFails, Record,
                  RecordDuplicate, Finish, Interrupt, Fail, InFile, AtWork
    <3> QED
      BY <3>1, <3>2 DEF Alone
  <2> QED
    BY <2>1, <2>2
<1>3. \A q \in Runners : q # r => ~AtWork(q)' /\ ~InFile(q)'
  BY <1>1, <1>2 DEF AtWork, InFile
<1> QED
  BY <1>1, <1>2, <1>3

LEMMA UpToDateStep ==
    ASSUME FilesInv, FreshInv, NEW r \in Runners, RunnerStep(r), ~overlapped'
    PROVE  Alone' /\ \A q \in Runners : UpToDate(q)'
<1>0. /\ runner \in [Runners -> Runner] /\ runner[r] \in Runner
      /\ runner[r].file \in 1..Len(Directory) + 1
      /\ UpToDate(r) /\ Alone
  BY RunnerTyped DEF FreshInv, FilesInv, FilesTypeOK
<1>1. \A q \in Runners : q # r => ~AtWork(q)'
  BY <1>0, OthersRest
<1>2. \A q \in Runners : q # r => UpToDate(q)'
  BY <1>1 DEF AtWork, UpToDate
<1>3. UpToDate(r)'
  <2>1. CASE ReadDirectory(r)
    BY <1>0, <2>1 DEF ReadDirectory, UpToDate, Runner
  <2>2. CASE ReadLedger(r)
    <3>1. runner'[r].done = ledger /\ ledger' = ledger
      BY <1>0, <2>2 DEF ReadLedger, Runner
    <3> QED
      BY <3>1 DEF UpToDate
  <2>3. CASE Skip(r)
    <3>1. /\ runner'[r].file = runner[r].file + 1 /\ runner'[r].done = runner[r].done
          /\ ledger' = ledger /\ runner[r].pc = "applying"
      BY <1>0, <2>3 DEF Skip, Runner
    <3>2. \A i \in Indices : i >= runner[r].file + 1 => i >= runner[r].file
      BY <1>0, DirectoryIsIndexed DEF Indices
    <3> QED
      BY <1>0, <3>1, <3>2 DEF UpToDate
  <2>4. CASE Apply(r)
    BY <1>0, <2>4 DEF Apply, UpToDate, Runner, InFile
  <2>5. CASE ApplyFails(r) \/ RecordDuplicate(r) \/ Finish(r) \/ Interrupt(r)
    BY <2>5, StopTyped DEF UpToDate
  <2>6. CASE Record(r)
    <3>1. /\ runner'[r].file = runner[r].file + 1 /\ runner'[r].done = runner[r].done
          /\ ledger' = ledger \cup {FileOf(r)} /\ runner[r].pc = "applying"
      BY <1>0, <2>6 DEF Record, Runner, InFile
    <3>2. \A i \in Indices : i >= runner[r].file + 1 => i >= runner[r].file /\ i # runner[r].file
      BY <1>0, DirectoryIsIndexed DEF Indices
    <3>3. FileOf(r) = Directory[runner[r].file] /\ runner[r].file \in Indices
      BY <2>6, InFileTyped DEF Record
    <3> QED
      BY <1>0, <3>1, <3>2, <3>3, DirectoryIsIndexed DEF UpToDate
  <2> QED
    BY <2>1, <2>2, <2>3, <2>4, <2>5, <2>6 DEF RunnerStep
<1>4. Alone'
  BY <1>1 DEF Alone
<1> QED
  BY <1>2, <1>3, <1>4

LEMMA CurrentIsUnique ==
    ASSUME NEW i \in Indices, NEW j \in Indices, Current(i), Current(j)
    PROVE  i = j
<1>1. ~(i < j) /\ ~(j < i)
  BY DEF Current
<1> QED
  BY <1>1, DirectoryIsIndexed DEF Indices

LEMMA InFileIsCurrent ==
    ASSUME FilesInv, NEW r \in Runners, UpToDate(r), InFile(r)
    PROVE  Current(runner[r].file)
<1>1. /\ runner[r].file \in Indices /\ FileOf(r) = Directory[runner[r].file]
      /\ FileOf(r) \notin runner[r].done /\ FileOf(r) \in Expected
      /\ runner[r].pc = "applying"
  BY InFileTyped
<1>2. runner[r].file >= runner[r].file
  BY <1>1, DirectoryIsIndexed DEF Indices
<1>3. FileOf(r) \notin ledger
  BY <1>1, <1>2 DEF UpToDate
<1> QED
  BY <1>1, <1>3 DEF Current, FilesInv, Advanced, Expected

(* A step that leaves the schema alone, after which whoever is in a file   *)
(* is where it was, or at the beginning.                                   *)
LEMMA ArrivalKeeps ==
    ASSUME NEW f, NEW m \in Nat, FileState(f, m), NEW r \in Runners,
           schema' = schema, ledger' = ledger, work' = work,
           \A q \in Runners : q # r => ~InFile(q)',
           InFile(r)' => runner'[r].stmt = 1 \/ (InFile(r) /\ runner'[r].stmt = runner[r].stmt)
    PROVE  FileState(f, m)'
<1>1. RecordedSchema' = RecordedSchema
  BY DEF RecordedSchema
<1>2. \A u : Locked(f, u, schema)' <=> Locked(f, u, schema)
  BY DEF Locked
<1>3. CASE Stuck(f, m)
  <2>1. PICK u \in 1..m : /\ Unrepeatable(Content[f][u])
                          /\ \A q \in Runners : InFile(q) => runner[q].stmt <= u
    BY <1>3 DEF Stuck
  <2>2. 1 <= u
    OBVIOUS
  <2>3. \A q \in Runners : InFile(q)' => runner'[q].stmt <= u
    BY <2>1, <2>2
  <2>4. Stuck(f, m)'
    BY <2>1, <2>3 DEF Stuck
  <2> QED
    BY <1>2, <2>4 DEF FileState
<1>4. CASE Frontier(f, m) /\ ~(InFile(r)' /\ runner'[r].stmt = 1)
  <2>1. \A q \in Runners : InFile(q)' => InFile(q) /\ runner'[q].stmt = runner[q].stmt
    BY <1>4
  <2>2. Frontier(f, m)'
    BY <1>1, <1>4, <2>1 DEF Frontier
  <2> QED
    BY <1>2, <2>2 DEF FileState
<1>5. CASE Frontier(f, m) /\ InFile(r)' /\ runner'[r].stmt = 1
  <2>1. CASE Repeatable(f, m)
    <3>1. 1 = m + 1 \/ 1 <= m
      OBVIOUS
    <3>2. Frontier(f, m)'
      BY <1>1, <1>5, <2>1, <3>1 DEF Frontier
    <3> QED
      BY <1>2, <3>2 DEF FileState
  <2>2. CASE ~Repeatable(f, m)
    <3>1. PICK u \in 1..m : Unrepeatable(Content[f][u])
      BY <2>2 DEF Repeatable
    <3>2. \A q \in Runners : InFile(q)' => runner'[q].stmt <= u
      BY <1>5
    <3>3. Stuck(f, m)'
      BY <3>1, <3>2 DEF Stuck
    <3> QED
      BY <1>2, <3>3 DEF FileState
  <2> QED
    BY <2>1, <2>2
<1> QED
  BY <1>3, <1>4, <1>5 DEF FileState

LEMMA ArrivalKeepsFiles ==
    ASSUME FilesAgree, NEW r \in Runners,
           schema' = schema, ledger' = ledger, work' = work,
           \A q \in Runners : q # r => ~InFile(q)',
           InFile(r)' => runner'[r].stmt = 1 \/ (InFile(r) /\ runner'[r].stmt = runner[r].stmt)
    PROVE  FilesAgree'
<1>1. RecordedSchema' = RecordedSchema
  BY DEF RecordedSchema
<1>2. \A i \in Indices : Current(i)' <=> Current(i)
  BY DEF Current
<1>3. ASSUME NEW i \in Indices, Current(i)
      PROVE  \E m \in 0..Len(Content[Directory[i]]) : FileState(Directory[i], m)'
  <2>1. PICK m \in 0..Len(Content[Directory[i]]) : FileState(Directory[i], m)
    BY <1>3 DEF FilesAgree
  <2>2. m \in Nat
    OBVIOUS
  <2>3. FileState(Directory[i], m)'
    BY <2>1, <2>2, ArrivalKeeps
  <2> QED
    BY <2>3
<1> QED
  BY <1>1, <1>2, <1>3 DEF FilesAgree

(* The next statement of the file is executed for the first time. *)
LEMMA NextStatement ==
    ASSUME RepeatsChangeNothing, UnrepeatablesFail,
           NEW f \in Expected, NEW m \in Nat, FileState(f, m), Frontier(f, m),
           m + 1 \in DOMAIN Content[f], Len(Content[f]) \in Nat,
           DOMAIN Content[f] = 1..Len(Content[f]),
           MaySucceed(Content[f][m + 1]),
           schema' = SchemaAfter(Content[f][m + 1], schema), ledger' = ledger,
           NEW r \in Runners, work' = work \cup {<<r, f, m + 1>>},
           \A q \in Runners : q # r => ~InFile(q)',
           runner'[r].stmt = (m + 1) + 1
    PROVE  FileState(f, m + 1)'
<1> DEFINE k == m + 1
           s == Content[f][k]
<1>0. /\ k \in 1..k /\ k \in Nat /\ k - 1 = m
      /\ \A j \in 1..m : j \in 1..k
      /\ \A j \in 1..k : j = k \/ (j \in 1..m /\ j \in 1..k - 1)
      /\ k \in 1..Len(Content[f])
      /\ \A j \in 1..k : j \in DOMAIN Content[f]
  OBVIOUS
<1> HIDE DEF k
<1>k. /\ MaySucceed(s) /\ schema' = SchemaAfter(s, schema)
      /\ work' = work \cup {<<r, f, k>>} /\ runner'[r].stmt = k + 1
  BY DEF k
<1>1. \A t \in work' : t[2] = f => t[3] \in 1..k
  BY <1>0, <1>k DEF FileState
<1>2. \A j \in 1..k : \E q \in Runners : <<q, f, j>> \in work'
  BY <1>0, <1>k DEF FileState
<1>3. ASSUME NEW u \in 1..k, Unrepeatable(Content[f][u]) PROVE Locked(f, u, schema')
  <2>1. CASE u = k
    BY <1>0, <1>3, <1>k, <2>1, LocksAreSet
  <2>2. CASE u \in 1..m
    BY <1>0, <1>3, <1>k, <2>2, LocksLast DEF FileState
  <2> QED
    BY <1>0, <2>1, <2>2
<1>4. schema' = PartAfter(f, k, RecordedSchema')
  <2>1. RecordedSchema' = RecordedSchema
    BY DEF RecordedSchema
  <2>2. PartAfter(f, k, RecordedSchema) = SchemaAfter(s, PartAfter(f, k - 1, RecordedSchema))
    BY <1>0, PartAfterIsDefined
  <2> QED
    BY <1>0, <1>k, <2>1, <2>2 DEF Frontier
<1>5. ASSUME Repeatable(f, k), NEW j \in 1..k PROVE Absorbed(Content[f][j], schema')
  <2>1. /\ ~Unrepeatable(s)
        /\ s.unless # {} => s.unless \cap s.gives # {}
        /\ s.rows = "events listed" => s.takes \cap s.gives = {}
        /\ \A i \in 1..k - 1 : Writes(s) \cap Touches(Content[f][i]) = {}
    BY <1>0, <1>5 DEF RepeatsChangeNothing, Repeatable
  <2>2. CASE j = k
    <3>1. \/ s.unless \cap schema # {}
          \/ s.needs \subseteq schema /\ s.forbids \cap schema = {}
      BY <1>k DEF MaySucceed, Skipped
    <3>2. Absorbed(s, SchemaAfter(s, schema))
      BY <2>1, <3>1, ExecutedIsAbsorbed
    <3> QED
      BY <1>k, <2>2, <3>2
  <2>3. CASE j \in 1..m /\ j \in 1..k - 1
    <3>1. Repeatable(f, m)
      BY <1>0, <1>5 DEF Repeatable
    <3>2. Absorbed(Content[f][j], schema)
      BY <2>3, <3>1 DEF Frontier
    <3>3. Absorbed(Content[f][j], SchemaAfter(s, schema))
      BY <2>1, <2>3, <3>2, ApartKeepsAbsorbed
    <3> QED
      BY <1>k, <3>3
  <2> QED
    BY <1>0, <2>2, <2>3
<1>6. Frontier(f, k)'
  BY <1>4, <1>5, <1>k DEF Frontier
<1>7. FileState(f, k)'
  BY <1>1, <1>2, <1>3, <1>6 DEF FileState
<1> QED
  BY <1>7 DEF k

LEMMA ApplyKeepsFiles ==
    ASSUME RepeatsChangeNothing, UnrepeatablesFail,
           WorkInv, FreshInv, NEW r \in Runners, Apply(r), ~overlapped'
    PROVE  FilesAgree'
<1>r. PICK i, f, k : i = runner[r].file /\ f = FileOf(r) /\ k = runner[r].stmt
  OBVIOUS
<1>1. /\ i \in Indices /\ f = Directory[i] /\ f \in Expected
      /\ Len(Content[f]) \in Nat /\ DOMAIN Content[f] = 1..Len(Content[f])
      /\ k \in DOMAIN Content[f] /\ k \in Nat
  <2>1. InFile(r) /\ FilesInv /\ k \in DOMAIN Content[f]
    BY <1>r DEF WorkInv, Apply
  <2> QED
    BY <1>r, <2>1, InFileTyped, RunnerTyped
<1>2. InFile(r) /\ Current(i) /\ runner[r].stmt = k
  BY <1>r, InFileIsCurrent DEF WorkInv, FreshInv, Apply
<1>3. /\ MaySucceed(Content[f][k]) /\ schema' = SchemaAfter(Content[f][k], schema)
      /\ work' = work \cup {<<r, f, k>>} /\ ledger' = ledger
  BY <1>r DEF Apply
<1>4. runner'[r].stmt = k + 1
  BY <1>r DEF WorkInv, Apply, FilesInv, FilesTypeOK, Runner
<1>5. \A q \in Runners : q # r => ~InFile(q)'
  BY OthersRest DEF WorkInv, FreshInv, RunnerStep
<1>6. RecordedSchema' = RecordedSchema /\ \A j \in Indices : Current(j)' <=> Current(j)
  BY <1>3 DEF RecordedSchema, Current
<1>7. PICK m \in 0..Len(Content[f]) : FileState(f, m)
  BY <1>1, <1>2 DEF FreshInv, FilesAgree
<1>8. \E n \in 0..Len(Content[f]) : FileState(f, n)'
  <2>0. m \in Nat /\ m \in 0..Len(Content[f]) /\ \A u \in 1..m : u \in DOMAIN Content[f]
    BY <1>1
  <2>1. ASSUME k <= m
        PROVE  /\ \A t \in work' : t[2] = f => t[3] \in 1..m
               /\ \A j \in 1..m : \E q \in Runners : <<q, f, j>> \in work'
    <3>1. k \in 1..m
      BY <1>1, <2>0, <2>1
    <3>2. \A t \in work' : t[2] = f => t[3] \in 1..m
      BY <1>3, <1>7, <3>1 DEF FileState
    <3>3. work \subseteq work'
      BY <1>3
    <3>4. \A j \in 1..m : \E q \in Runners : <<q, f, j>> \in work
      BY <1>7 DEF FileState
    <3> QED
      BY <3>2, <3>3, <3>4
  <2>2. \A u \in 1..m : Unrepeatable(Content[f][u]) => Locked(f, u, schema')
    BY <1>1, <1>3, <1>7, LocksLast DEF FileState
  <2>3. CASE Stuck(f, m)
    <3>1. PICK u \in 1..m : /\ Unrepeatable(Content[f][u])
                            /\ \A q \in Runners : InFile(q) => runner[q].stmt <= u
      BY <2>3 DEF Stuck
    <3>2. k <= u
      BY <1>2, <3>1
    <3>3. k # u
      BY <1>3, <1>7, <3>1, LockedFails DEF FileState
    <3>4. k + 1 <= u /\ k <= m
      BY <1>1, <2>0, <3>1, <3>2, <3>3
    <3>5. Stuck(f, m)'
      BY <1>4, <1>5, <3>1, <3>4 DEF Stuck
    <3>6. FileState(f, m)'
      BY <2>1, <2>2, <3>4, <3>5 DEF FileState
    <3> QED
      BY <2>0, <3>6
  <2>4. CASE Frontier(f, m) /\ k = m + 1
    <3>1. FileState(f, m + 1)'
      BY <1>1, <1>3, <1>4, <1>5, <1>7, <2>0, <2>4, NextStatement
    <3>2. m + 1 \in 0..Len(Content[f])
      BY <1>1, <2>0, <2>4
    <3> QED
      BY <3>1, <3>2
  <2>5. CASE Frontier(f, m) /\ k <= m /\ Repeatable(f, m)
    <3>1. k \in 1..m /\ (k + 1 <= m \/ k + 1 = m + 1)
      BY <1>1, <2>0, <2>5
    <3>2. schema' = schema
      BY <1>3, <2>5, <3>1 DEF Frontier, Absorbed
    <3>3. Frontier(f, m)'
      BY <1>4, <1>5, <1>6, <2>5, <3>1, <3>2 DEF Frontier
    <3>4. FileState(f, m)'
      BY <2>1, <2>2, <2>5, <3>3 DEF FileState
    <3> QED
      BY <2>0, <3>4
  <2>6. Frontier(f, m) => k = m + 1 \/ (k <= m /\ Repeatable(f, m))
    BY <1>2 DEF Frontier
  <2> QED
    BY <1>7, <2>3, <2>4, <2>5, <2>6 DEF FileState
<1> QED
  <2>1. \A t \in work' : t[2] \in ledger' \/ \E j \in Indices : t[2] = Directory[j] /\ Current(j)'
    BY <1>1, <1>2, <1>3, <1>6 DEF FreshInv, FilesAgree
  <2>2. ~(Expected \subseteq ledger')
    BY <1>1, <1>2, <1>3 DEF Current
  <2>3. \A j \in Indices : Current(j)' => j = i
    BY <1>1, <1>2, <1>6, CurrentIsUnique
  <2> QED
    BY <1>1, <1>8, <2>1, <2>2, <2>3 DEF FilesAgree

LEMMA RecordKeepsFiles ==
    ASSUME WorkInv, FreshInv, NEW r \in Runners, Record(r), ~overlapped'
    PROVE  FilesAgree'
<1>r. PICK i, f, k : i = runner[r].file /\ f = FileOf(r) /\ k = runner[r].stmt
  OBVIOUS
<1>1. /\ i \in Indices /\ f = Directory[i] /\ f \in Expected
      /\ Len(Content[f]) \in Nat /\ k > Len(Content[f]) /\ k \in Nat
  <2>1. InFile(r) /\ FilesInv /\ k > Len(Content[f])
    BY <1>r DEF WorkInv, Record
  <2> QED
    BY <1>r, <2>1, InFileTyped, RunnerTyped
<1>2. InFile(r) /\ Current(i) /\ runner[r].stmt = k
  BY <1>r, InFileIsCurrent DEF WorkInv, FreshInv, Record
<1>3. schema' = schema /\ work' = work /\ ledger' = ledger \cup {f}
  BY <1>r DEF Record
<1>4. runner'[r].stmt = 1
  BY RunnerTyped DEF WorkInv, Record, FilesInv, FilesTypeOK, Runner
<1>5. \A q \in Runners : q # r => ~InFile(q)'
  BY OthersRest DEF WorkInv, FreshInv, RunnerStep
<1>6. PICK m \in 0..Len(Content[f]) : FileState(f, m)
  BY <1>1, <1>2 DEF FreshInv, FilesAgree
<1>7. schema = FileAfter(f, RecordedSchema)
  <2>1. ~Stuck(f, m)
    <3> SUFFICES ASSUME Stuck(f, m) PROVE FALSE
      OBVIOUS
    <3>1. PICK u \in 1..m : k <= u
      BY <1>2 DEF Stuck
    <3> QED
      BY <1>1, <1>6, <3>1
  <2>2. Frontier(f, m) /\ (k = m + 1 \/ k <= m)
    BY <1>2, <1>6, <2>1 DEF FileState, Frontier
  <2>3. m = Len(Content[f])
    BY <1>1, <1>6, <2>2
  <2> QED
    BY <2>2, <2>3 DEF Frontier, FileAfter
<1>8. \A j \in Indices : j >= i => Directory[j] \notin ledger
  <2> SUFFICES ASSUME NEW j \in Indices, j >= i, Directory[j] \in ledger PROVE FALSE
    OBVIOUS
  <2>1. Directory[i] \notin ledger \cup APP_MIGRATIONS
    BY <1>2 DEF Current
  <2>2. i < j
    BY <1>1, <2>1, DirectoryIsIndexed DEF Indices
  <2> QED
    BY <1>1, <2>1, <2>2 DEF WorkInv, FilesInv, LedgerInOrder
<1>9. schema' = RecordedSchema'
  BY <1>1, <1>3, <1>7, <1>8, RecordedGrows DEF RecordedSchema
<1>10. \A t \in work : t[2] \in ledger'
  <2>1. \A t \in work : t[2] \in ledger \/ \E j \in Indices : t[2] = Directory[j] /\ Current(j)
    BY DEF FreshInv, FilesAgree
  <2> QED
    BY <1>1, <1>2, <1>3, <2>1, CurrentIsUnique
<1>11. ASSUME NEW j \in Indices, Current(j)'
       PROVE  \E n \in 0..Len(Content[Directory[j]]) : FileState(Directory[j], n)'
  <2> DEFINE g == Directory[j]
  <2>0. g \notin ledger' /\ Len(Content[g]) \in Nat
    BY <1>11, DirectoryIsIndexed DEF Current
  <2> HIDE DEF g
  <2>1. 0 \in 0..Len(Content[g]) /\ 1..0 = {}
    BY <2>0
  <2>2. \A t \in work' : t[2] # g
    BY <1>3, <1>10, <2>0
  <2>3. PartAfter(g, 0, RecordedSchema') = RecordedSchema'
    BY <2>0, PartAfterIsDefined
  <2>4. \A q \in Runners : InFile(q)' => runner'[q].stmt = 0 + 1
    BY <1>4, <1>5
  <2>5. Frontier(g, 0)'
    BY <1>9, <2>1, <2>3, <2>4 DEF Frontier
  <2>6. FileState(g, 0)'
    BY <2>1, <2>2, <2>5 DEF FileState
  <2> QED
    BY <2>1, <2>6 DEF g
<1> QED
  BY <1>3, <1>9, <1>10, <1>11 DEF FilesAgree

(* The schema is the one that the ledger tells, with a beginning of the    *)
(* next file, or a file that no run will ever end.                         *)
LEMMA FreshStep ==
    ASSUME RepeatsChangeNothing, UnrepeatablesFail,
           WorkInv, FreshInv, FilesNext \/ UNCHANGED files, ~overlapped'
    PROVE  FreshInv'
<1>1. ASSUME NEW r \in Runners, RunnerStep(r) PROVE FreshInv'
  <2>0. FilesInv /\ Alone /\ FilesAgree
    BY DEF WorkInv, FreshInv
  <2>1. Alone' /\ \A q \in Runners : UpToDate(q)'
    BY <1>1, <2>0, UpToDateStep
  <2>2. \A q \in Runners : q # r => ~InFile(q)'
    BY <1>1, <2>0, OthersRest
  <2>3. CASE Apply(r)
    BY <2>1, <2>3, ApplyKeepsFiles DEF FreshInv
  <2>4. CASE Record(r)
    BY <2>1, <2>4, RecordKeepsFiles DEF FreshInv
  <2>5. CASE ReadDirectory(r) \/ ReadLedger(r) \/ Skip(r)
    <3>0. runner \in [Runners -> Runner] /\ runner[r] \in Runner
      BY <2>0 DEF FilesInv, FilesTypeOK
    <3>1. runner[r].stmt = 1
      BY <2>5, AtFirstStatement DEF ReadDirectory, ReadLedger, Skip, InFile
    <3>2. runner'[r].stmt = 1
      <4>1. CASE ReadDirectory(r)
        BY <3>0, <3>1, <4>1 DEF ReadDirectory, Runner
      <4>2. CASE ReadLedger(r)
        BY <3>0, <3>1, <4>2 DEF ReadLedger, Runner
      <4>3. CASE Skip(r)
        BY <3>0, <3>1, <4>3 DEF Skip, Runner
      <4> QED
        BY <2>5, <4>1, <4>2, <4>3
    <3>3. schema' = schema /\ ledger' = ledger /\ work' = work
      BY <2>5 DEF ReadDirectory, ReadLedger, Skip
    <3> QED
      BY <2>0, <2>1, <2>2, <3>2, <3>3, ArrivalKeepsFiles DEF FreshInv
  <2>6. CASE ApplyFails(r) \/ RecordDuplicate(r) \/ Finish(r) \/ Interrupt(r)
    <3>1. schema' = schema /\ ledger' = ledger /\ work' = work /\ ~InFile(r)'
      BY <2>0, <2>6, StopTyped DEF InFile
    <3> QED
      BY <2>0, <2>1, <2>2, <3>1, ArrivalKeepsFiles DEF FreshInv
  <2> QED
    BY <1>1, <2>3, <2>4, <2>5, <2>6 DEF RunnerStep
<1>2. CASE Release \/ UNCHANGED files
  <2>1. UNCHANGED <<schema, ledger, runner, work>>
    BY <1>2 DEF Release, files
  <2>2. Alone' /\ (\A r \in Runners : UpToDate(r)')
    BY <2>1 DEF FreshInv, Alone, AtWork, UpToDate
  <2>3. \A r \in Runners : InFile(r)' <=> InFile(r)
    BY <2>1 DEF InFile, LeftOut, FileOf
  <2>4. RecordedSchema' = RecordedSchema /\ \A i \in Indices : Current(i)' <=> Current(i)
    BY <2>1 DEF RecordedSchema, Current
  <2>5. ASSUME NEW f, NEW m, FileState(f, m) PROVE FileState(f, m)'
    <3>1. Frontier(f, m) => Frontier(f, m)'
      BY <2>1, <2>3, <2>4 DEF Frontier
    <3>2. Stuck(f, m) => Stuck(f, m)'
      BY <2>1, <2>3 DEF Stuck
    <3> QED
      BY <2>1, <2>5, <3>1, <3>2 DEF FileState
  <2>6. FilesAgree'
    BY <2>1, <2>4, <2>5 DEF FreshInv, FilesAgree
  <2> QED
    BY <2>2, <2>6 DEF FreshInv
<1> QED
  BY <1>1, <1>2 DEF FilesNext, RunnerStep

LEMMA WorkInit == FilesInit => WorkInv /\ FreshInv
<1> SUFFICES ASSUME FilesInit PROVE WorkInv /\ FreshInv
  OBVIOUS
<1>1. FilesInv
  BY FilesInitInv
<1>2. /\ work = {} /\ ledger = {} /\ schema = {}
      /\ \A r \in Runners : /\ runner[r].pc = "idle" /\ runner[r].stmt = 1
                            /\ runner[r].file = 1
  BY DEF FilesInit
<1>3. \A r \in Runners : OwnWork(r) /\ UpToDate(r) /\ ~AtWork(r) /\ ~InFile(r)
  BY <1>2 DEF OwnWork, UpToDate, AtWork, InFile
<1>4. RecordedSchema = {}
  <2>1. 0 \in 0..Len(Directory)
    BY DirectoryIsIndexed
  <2>2. SchemaFrom(ledger, Len(Directory)) = SchemaFrom(ledger, 0)
    BY <1>2, <2>1, SchemaFromEnds
  <2> QED
    BY <2>2, SchemaFromIsDefined DEF RecordedSchema
<1>5. ASSUME NEW i \in Indices
      PROVE  \E m \in 0..Len(Content[Directory[i]]) : FileState(Directory[i], m)
  <2>1. Len(Content[Directory[i]]) \in Nat
    BY DirectoryIsIndexed
  <2>2. 0 \in 0..Len(Content[Directory[i]]) /\ 1..0 = {}
    BY <2>1
  <2>3. Frontier(Directory[i], 0)
    BY <1>2, <1>3, <1>4, <2>1, <2>2, PartAfterIsDefined DEF Frontier
  <2>4. FileState(Directory[i], 0)
    BY <1>2, <2>2, <2>3 DEF FileState
  <2> QED
    BY <2>2, <2>4
<1> QED
  BY <1>1, <1>2, <1>3, <1>4, <1>5 DEF WorkInv, FreshInv, Alone, FilesAgree

LEMMA WorkStep ==
    ASSUME WorkInv, FilesNext \/ UNCHANGED files
    PROVE  WorkInv'
<1>1. FilesInv'
  BY FilesStep DEF WorkInv
<1>2. (ledger \cap APP_MIGRATIONS = {})'
  <2>1. ledger' = ledger \/ \E r \in Runners : Record(r)
    BY DEF FilesNext, files, ReadDirectory, ReadLedger, Skip, Apply, ApplyFails,
           RecordDuplicate, Finish, Interrupt, Release, Fail
  <2>2. ASSUME NEW r \in Runners, Record(r) PROVE (ledger \cap APP_MIGRATIONS = {})'
    BY <2>2 DEF Record, InFile, LeftOut, WorkInv
  <2> QED
    BY <2>1, <2>2 DEF WorkInv
<1>3. \A q \in Runners : OwnWork(q)'
  <2>1. CASE \E r \in Runners : RunnerStep(r)
    BY <2>1, OwnWorkStep DEF RunnerStep
  <2>2. CASE UNCHANGED <<runner, work>>
    BY <2>2 DEF WorkInv, OwnWork, InFile, LeftOut, FileOf
  <2> QED
    BY <2>1, <2>2 DEF FilesNext, RunnerStep, Release, files
<1> QED
  BY <1>1, <1>2, <1>3 DEF WorkInv

(* There is a next file unless all are in the ledger. *)
LEMMA SomeCurrent ==
    ASSUME ~(Expected \subseteq ledger)
    PROVE  \E i \in Indices : Current(i)
<1> SUFFICES ASSUME \A i \in Indices : ~Current(i) PROVE FALSE
  OBVIOUS
<1> DEFINE S == {n \in Nat : \A j \in Indices : j <= n => Directory[j] \in ledger \cup APP_MIGRATIONS}
<1>1. 0 \in S
  BY DirectoryIsIndexed DEF Indices
<1>2. \A n \in Nat : n \in S => n + 1 \in S
  <2> SUFFICES ASSUME NEW n \in Nat, n \in S, NEW j \in Indices, j <= n + 1
               PROVE  Directory[j] \in ledger \cup APP_MIGRATIONS
    OBVIOUS
  <2>1. \A i \in Indices : i < j => i <= n
    BY DirectoryIsIndexed DEF Indices
  <2> QED
    BY <2>1 DEF Current
<1>3. Len(Directory) \in S /\ \A i \in Indices : i <= Len(Directory)
  <2>1. Nat \subseteq S
    BY <1>1, <1>2, NatSetInduction
  <2>2. Len(Directory) \in Nat /\ \A i \in Indices : i <= Len(Directory)
    BY DirectoryIsIndexed DEF Indices
  <2> QED
    BY <2>1, <2>2
<1>4. \A i \in Indices : Directory[i] \in ledger \cup APP_MIGRATIONS
  BY <1>3
<1> QED
  BY <1>4 DEF Expected, FileNames

LEMMA FreshTells ==
    ASSUME FreshInv, \A t \in work : t[2] \in ledger
    PROVE  schema = RecordedSchema
<1>1. CASE Expected \subseteq ledger
  BY <1>1 DEF FreshInv, FilesAgree
<1>2. CASE ~(Expected \subseteq ledger)
  <2>1. PICK i \in Indices : Current(i)
    BY <1>2, SomeCurrent
  <2> DEFINE f == Directory[i]
  <2>2. f \notin ledger /\ Len(Content[f]) \in Nat
    BY <2>1, DirectoryIsIndexed DEF Current
  <2>3. PICK m \in 0..Len(Content[f]) : FileState(f, m)
    BY <2>1 DEF FreshInv, FilesAgree
  <2> HIDE DEF f
  <2>4. m = 0
    <3> SUFFICES ASSUME m # 0 PROVE FALSE
      OBVIOUS
    <3>1. 1 \in 1..m
      BY <2>2
    <3>2. PICK r \in Runners : <<r, f, 1>> \in work
      BY <2>3, <3>1 DEF FileState
    <3> QED
      BY <2>2, <3>2
  <2>5. Frontier(f, 0)
    BY <2>3, <2>4 DEF FileState, Stuck
  <2> QED
    BY <2>2, <2>5, PartAfterIsDefined DEF Frontier
<1> QED
  BY <1>1, <1>2

LEMMA CompleteSchema ==
    ASSUME WorkInv, FreshInv, Expected \subseteq ledger
    PROVE  schema = SchemaFrom(Expected, Len(Directory))
<1>1. schema = SchemaFrom(ledger, Len(Directory))
  BY DEF FreshInv, FilesAgree, RecordedSchema
<1>2. \A i \in Indices : Directory[i] \in ledger <=> Directory[i] \in Expected
  BY DirectoryIsIndexed DEF WorkInv, Expected
<1>3. Len(Directory) \in 0..Len(Directory)
  BY DirectoryIsIndexed
<1> QED
  BY <1>1, <1>2, <1>3, SchemaFromAgrees

LEMMA RecordedBefore ==
    ASSUME WorkInv, NEW i \in Indices, Current(i)
    PROVE  RecordedSchema = SchemaFrom(Expected, i - 1)
<1>0. /\ i - 1 \in 0..Len(Directory)
      /\ \A j \in Indices : /\ j > i - 1 => j = i \/ i < j
                            /\ j <= i - 1 => j < i
  BY DirectoryIsIndexed DEF Indices
<1>1. \A j \in Indices : j > i - 1 => Directory[j] \notin ledger
  BY <1>0 DEF Current, WorkInv, FilesInv, LedgerInOrder
<1>2. SchemaFrom(ledger, Len(Directory)) = SchemaFrom(ledger, i - 1)
  BY <1>0, <1>1, SchemaFromEnds
<1>3. \A j \in Indices : j <= i - 1 => (Directory[j] \in ledger <=> Directory[j] \in Expected)
  BY <1>0, DirectoryIsIndexed DEF WorkInv, Current, Expected
<1>4. SchemaFrom(ledger, i - 1) = SchemaFrom(Expected, i - 1)
  BY <1>0, <1>3, SchemaFromAgrees
<1> QED
  BY <1>2, <1>4 DEF RecordedSchema

-----------------------------------------------------------------------------
(* Runs that fail. *)

UnrepeatableByAnother(r) ==
    \E t \in work : /\ t[1] # r /\ t[2] = FileOf(r)
                    /\ Unrepeatable(Content[t[2]][t[3]])

(* The file the run has failed in is the next one still. *)
UuidMissing(r) ==
    /\ FileOf(r) \notin ledger
    /\ \E a \in DOMAIN users : ~users[a].uuid
    /\ \E i \in DOMAIN Content[FileOf(r)] :
         runner[r].stmt = i /\ Content[FileOf(r)][i].rows = "uuid required"

Excused(r) ==
    runner[r].pc = "failed" =>
        /\ runner[r].file \in Indices /\ FileOf(r) \in Expected
        /\ UnrepeatableByAnother(r) \/ UuidMissing(r)

(* Accounts without uuid stay. *)
UuidsStay ==
    \A a \in DOMAIN users : ~users[a].uuid => a \in DOMAIN users' /\ ~users'[a].uuid

LEMMA FailingIsExcused ==
    ASSUME FirstRunsSucceed,
           WorkInv, FreshInv, NEW r \in Runners, ApplyFails(r) \/ RecordDuplicate(r)
    PROVE  Excused(r)'
<1>1. InFile(r)
  BY DEF ApplyFails, RecordDuplicate
<1>2. /\ runner[r].file \in Indices /\ FileOf(r) = Directory[runner[r].file]
      /\ FileOf(r) \in Expected /\ Current(runner[r].file)
      /\ runner[r].stmt \in Nat \ {0}
  BY <1>1, InFileTyped, InFileIsCurrent, RunnerTyped DEF WorkInv, FreshInv
<1>3. FileOf(r) \notin ledger /\ ApplyFails(r)
  BY <1>2 DEF RecordDuplicate, Current
<1>4. /\ runner'[r].file = runner[r].file /\ runner'[r].stmt = runner[r].stmt
      /\ UNCHANGED <<schema, users, ledger, work>>
  BY StopTyped DEF WorkInv
<1>5. FileOf(r)' = FileOf(r)
  BY <1>4 DEF FileOf
<1>6. UnrepeatableByAnother(r) \/ UuidMissing(r)
  <2>r. PICK i, f, k : i = runner[r].file /\ f = FileOf(r) /\ k = runner[r].stmt
    OBVIOUS
  <2>0. k \in DOMAIN Content[f] /\ MayFail(Content[f][k]) /\ InFile(r)
    BY <1>3, <2>r DEF ApplyFails
  <2>1. CASE Content[f][k].rows = "uuid required" /\ \E a \in DOMAIN users : ~users[a].uuid
    BY <1>3, <2>0, <2>1, <2>r DEF UuidMissing
  <2>2. CASE Refused(Content[f][k], schema)
    <3>1. PICK m \in 0..Len(Content[f]) : FileState(f, m)
      BY <1>2, <2>r DEF FreshInv, FilesAgree
    <3>2. CASE Stuck(f, m)
      <4>1. PICK u \in 1..m : Unrepeatable(Content[f][u]) /\ k <= u
        BY <2>0, <2>r, <3>2 DEF Stuck
      <4>2. PICK q \in Runners : <<q, f, u>> \in work
        BY <3>1 DEF FileState
      <4>3. q # r
        <5> SUFFICES ASSUME q = r PROVE FALSE
          OBVIOUS
        <5>1. i < i \/ (i = i /\ u < k)
          BY <1>2, <2>r, <4>2 DEF WorkInv, OwnWork
        <5> QED
          BY <1>2, <2>r, <4>1, <5>1, DirectoryIsIndexed DEF Indices
      <4> QED
        BY <2>r, <4>1, <4>2, <4>3 DEF UnrepeatableByAnother
    <3>3. CASE Frontier(f, m)
      <4>0. /\ Len(Content[f]) \in Nat /\ k \in Nat \ {0} /\ i \in Indices
            /\ f = Directory[i] /\ f \in Expected /\ Current(i)
        BY <1>2, <2>r, DirectoryIsIndexed
      <4>1. CASE k = m + 1
        <5>1. m = k - 1
          BY <4>0, <4>1
        <5>2. schema = PartAfter(f, k - 1, SchemaFrom(Expected, i - 1))
          BY <3>3, <4>0, <5>1, RecordedBefore DEF Frontier
        <5> QED
          BY <2>0, <2>2, <4>0, <5>2 DEF FirstRunsSucceed
      <4>2. CASE k <= m /\ Repeatable(f, m)
        <5>1. k \in 1..m
          BY <4>0, <4>2
        <5> QED
          BY <2>2, <3>3, <4>2, <5>1 DEF Frontier, Absorbed
      <4> QED
        BY <2>0, <2>r, <3>3, <4>1, <4>2 DEF Frontier
    <3> QED
      BY <3>1, <3>2, <3>3 DEF FileState
  <2> QED
    BY <2>0, <2>1, <2>2 DEF MayFail, Skipped, Refused
<1>7. UnrepeatableByAnother(r)' \/ UuidMissing(r)'
  BY <1>4, <1>5, <1>6 DEF UnrepeatableByAnother, UuidMissing
<1> QED
  BY <1>2, <1>4, <1>5, <1>7 DEF Excused

(* Whoever else goes on in the file has executed what cannot be repeated.  *)
LEMMA ExcusesLast ==
    ASSUME UuidsAreFilledOnce, WorkInv, FreshInv, UsersTypeOK,
           NEW r \in Runners, RunnerStep(r), ~overlapped',
           NEW q \in Runners, q # r, runner[q].pc = "failed", Excused(q)
    PROVE  Excused(q)'
<1>0. /\ FilesInv /\ OwnWork(r) /\ UpToDate(r) /\ runner[r].stmt \in Nat \ {0}
      /\ runner[q].file \in Indices /\ FileOf(q) \in Expected
      /\ FileOf(q) = Directory[runner[q].file]
  BY RunnerTyped DEF WorkInv, FreshInv, Excused, FileOf
<1>1. runner'[q] = runner[q]
  BY OthersRest DEF WorkInv, FreshInv
<1>2. FileOf(q)' = FileOf(q) /\ runner'[q].stmt = runner[q].stmt
  BY <1>1 DEF FileOf
<1>3. work \subseteq work'
  BY DEF RunnerStep, ReadDirectory, ReadLedger, Skip, Apply, ApplyFails, Record,
         RecordDuplicate, Finish, Interrupt, Fail
<1>4. CASE UnrepeatableByAnother(q)
  BY <1>0, <1>1, <1>2, <1>3, <1>4 DEF Excused, UnrepeatableByAnother
<1>5. CASE UuidMissing(q)
  <2>r. PICK f, i, a : f = FileOf(q) /\ i = runner[q].stmt
                       /\ a \in DOMAIN users /\ ~users[a].uuid
    BY <1>5 DEF UuidMissing
  <2>1. f \notin ledger /\ i \in DOMAIN Content[f] /\ Content[f][i].rows = "uuid required"
    BY <1>5, <2>r DEF UuidMissing
  <2>2. ASSUME f \notin ledger', a \in DOMAIN users', ~users'[a].uuid
        PROVE  Excused(q)'
    BY <1>0, <1>1, <1>2, <2>1, <2>2, <2>r DEF Excused, UuidMissing
  <2>3. ASSUME NEW j, <<r, f, j>> \in work', Unrepeatable(Content[f][j])
        PROVE  Excused(q)'
    BY <1>0, <1>1, <1>2, <2>3, <2>r DEF Excused, UnrepeatableByAnother
  <2>4. /\ Len(Content[f]) \in Nat /\ DOMAIN Content[f] = 1..Len(Content[f])
    BY <1>0, <2>r, DirectoryIsIndexed
  <2>5. PICK j \in 1..i - 1 : /\ Unrepeatable(Content[f][j])
                              /\ \A n \in 1..j - 1 : Content[f][n].rows # "uuid filled"
    BY <1>0, <2>1, <2>r DEF UuidsAreFilledOnce
  <2>6. j \in Nat /\ 1 <= j /\ j <= Len(Content[f])
    <3>1. i \in 1..Len(Content[f])
      BY <2>1, <2>4
    <3> HIDE <2>1
    <3> QED
      BY <2>4, <3>1
  <2>7. ASSUME InFile(r), FileOf(r) = f, j < runner[r].stmt PROVE Excused(q)'
    <3>1. runner[r].stmt # 1 /\ j \in 1..runner[r].stmt - 1
      BY <1>0, <2>6, <2>7
    <3>2. <<r, f, j>> \in work'
      BY <1>0, <1>3, <2>7, <3>1 DEF OwnWork
    <3> QED
      BY <2>3, <2>5, <3>2
  <2>8. CASE Record(r)
    <3>1. CASE FileOf(r) = f
      BY <1>0, <2>4, <2>6, <2>7, <2>8, <3>1 DEF Record
    <3>2. CASE FileOf(r) # f
      BY <2>1, <2>2, <2>8, <2>r, <3>2 DEF Record
    <3> QED
      BY <3>1, <3>2
  <2>9. CASE Apply(r)
    <3>0. InFile(r) /\ ledger' = ledger
      BY <2>9 DEF Apply
    <3>1. FileOf(r) = f
      <4>1. Current(runner[r].file) /\ runner[r].file \in Indices
        BY <1>0, <3>0, InFileIsCurrent, InFileTyped
      <4>2. Current(runner[q].file)
        BY <1>0, <2>1, <2>r DEF Current, Expected, FilesInv, Advanced
      <4> QED
        BY <1>0, <2>r, <4>1, <4>2, CurrentIsUnique DEF FileOf
    <3>2. CASE Content[f][runner[r].stmt].rows = "uuid filled"
      <4>1. ~(runner[r].stmt < j)
        <5>1. runner[r].stmt < j => runner[r].stmt \in 1..j - 1
          BY <1>0, <2>6
        <5> QED
          BY <2>5, <3>2, <5>1
      <4>2. CASE runner[r].stmt = j
        <5>1. <<r, f, j>> \in work'
          BY <2>9, <3>1, <4>2 DEF Apply
        <5> QED
          BY <2>3, <2>5, <5>1
      <4>3. CASE j < runner[r].stmt
        BY <2>7, <3>0, <3>1, <4>3
      <4> QED
        BY <1>0, <2>6, <4>1, <4>2, <4>3
    <3>3. CASE Content[f][runner[r].stmt].rows # "uuid filled"
      <4>1. PICK effect : /\ effect # "uuid filled"
                          /\ users' = [b \in DOMAIN users |-> RowAfter(effect, users[b])]
        BY <2>9, <3>1, <3>3 DEF Apply
      <4>2. users[a] \in UserRow
        BY <2>r DEF UsersTypeOK
      <4>3. RowAfter(effect, users[a]).uuid = users[a].uuid
        BY <4>1, <4>2 DEF RowAfter, UserRow
      <4> QED
        BY <2>1, <2>2, <2>r, <3>0, <4>1, <4>3
    <3> QED
      BY <3>2, <3>3
  <2>10. CASE ~Record(r) /\ ~Apply(r)
    <3>1. users' = users /\ ledger' = ledger
      BY <2>10 DEF RunnerStep, ReadDirectory, ReadLedger, Skip, ApplyFails,
                   RecordDuplicate, Finish, Interrupt, Fail
    <3> QED
      BY <2>1, <2>2, <2>r, <3>1
  <2> QED
    BY <2>8, <2>9, <2>10
<1> QED
  BY <1>4, <1>5 DEF Excused

LEMMA ExcusedStep ==
    ASSUME FirstRunsSucceed, UuidsAreFilledOnce, WorkInv, FreshInv, UsersTypeOK,
           FilesNext \/ (UNCHANGED files /\ UuidsStay), ~overlapped',
           \A q \in Runners : Excused(q)
    PROVE  \A q \in Runners : Excused(q)'
<1> SUFFICES ASSUME NEW q \in Runners, runner'[q].pc = "failed" PROVE Excused(q)'
  BY DEF Excused
<1>1. CASE UNCHANGED <<runner, ledger, work>> /\ UuidsStay
  <2>1. FileOf(q)' = FileOf(q) /\ Excused(q) /\ runner'[q] = runner[q]
    BY <1>1 DEF FileOf
  <2> QED
    BY <1>1, <2>1 DEF Excused, UnrepeatableByAnother, UuidMissing, UuidsStay
<1>2. ASSUME NEW r \in Runners, RunnerStep(r) PROVE Excused(q)'
  <2>1. CASE q # r
    <3>1. runner'[q] = runner[q]
      BY <1>2, <2>1, OthersRest DEF WorkInv, FreshInv
    <3> QED
      BY <1>2, <2>1, <3>1, ExcusesLast
  <2>2. CASE q = r
    <3>0. runner \in [Runners -> Runner] /\ runner[r] \in Runner
      BY DEF WorkInv, FilesInv, FilesTypeOK
    <3>1. ApplyFails(r) \/ RecordDuplicate(r)
      <4>1. ~ReadDirectory(r) /\ ~Finish(r) /\ ~Interrupt(r)
        BY <2>2, <3>0 DEF ReadDirectory, Finish, Interrupt, Runner
      <4>2. ~ReadLedger(r)
        BY <2>2, <3>0 DEF ReadLedger, Runner
      <4>3. ~Skip(r)
        BY <2>2, <3>0 DEF Skip, Runner
      <4>4. ~Apply(r)
        BY <2>2, <3>0 DEF Apply, InFile, Runner
      <4>5. ~Record(r)
        BY <2>2, <3>0 DEF Record, InFile, Runner
      <4> QED
        BY <1>2, <4>1, <4>2, <4>3, <4>4, <4>5 DEF RunnerStep
    <3> QED
      BY <2>2, <3>1, FailingIsExcused
  <2> QED
    BY <2>1, <2>2
<1>3. CASE Release
  <2>1. UNCHANGED <<runner, ledger, work>> /\ UuidsStay
    BY <1>3 DEF Release, UuidsStay
  <2> QED
    BY <1>1, <2>1
<1> QED
  BY <1>1, <1>2, <1>3 DEF FilesNext, RunnerStep, files
=============================================================================
