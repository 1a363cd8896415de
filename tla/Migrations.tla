----------------------------- MODULE Migrations -----------------------------
(***************************************************************************)
(* The migration runner, src/migrations/run.ts: a command that applies the *)
(* files that the ledger does not name and enters each in the ledger.  A   *)
(* file is sent as one string of several statements; each commits by       *)
(* itself, and so does the row of the ledger.  A runner is one execution   *)
(* of the command, which may be interrupted at any time, and two may run   *)
(* at once.                                                                *)
(*                                                                         *)
(* Definitions whose name ends in "Slip" are no part of the model: each is *)
(* the definition below it with one plausible mistake.                     *)
(***************************************************************************)
EXTENDS Naturals, Sequences

CONSTANTS
    Runners,
    Directory,         \* the names of the .sql files, sorted
    Things,            \* what a schema may hold
    Content,           \* the statements of each file
    APP_MIGRATIONS,    \* the files for the databases of the applications
    FirstRelease,      \* how many of the files are there at the start
    ServiceNeeds,      \* what the service's statements name
    AccountIds, Emails

Indices == 1..Len(Directory)
FileNames == {Directory[i] : i \in Indices}

Statement == [unless : SUBSET Things, needs : SUBSET Things,
              forbids : SUBSET Things, gives : SUBSET Things,
              takes : SUBSET Things, rows : STRING]

(* A later release adds files with greater names. *)
ASSUME DirectoryAssumption ==
    /\ Directory \in Seq(FileNames)
    /\ \A i, j \in Indices : Directory[i] = Directory[j] => i = j
    /\ FirstRelease \in Nat /\ FirstRelease <= Len(Directory)
    /\ Content \in [FileNames -> Seq(Statement)]

VARIABLES
    schema,            \* the tables, columns and events there are
    users,             \* central_users
    ledger,            \* schema_migrations
    released,          \* the directory holds the first so many files
    runner,
    work,              \* history: who executed which statement
    overlapped         \* history: two runners have been at work at once

files == <<schema, ledger, released, runner, work, overlapped>>

UserRow == [email : Emails, uuid : BOOLEAN, email_verified : BOOLEAN,
            email_verified_at : BOOLEAN]

AtWork(r) == runner[r].pc \in {"directory read", "applying"}
Ends == {"done", "failed", "interrupted"}

Runner == [pc : {"idle", "directory read", "applying"} \cup Ends,
           count : 0..Len(Directory),       \* files in the directory it read
           done : SUBSET FileNames,         \* the ledger it read
           file : 1..Len(Directory) + 1,    \* index of the file it is in
           stmt : Nat \ {0}]

FilesTypeOK ==
    /\ schema \subseteq Things
    /\ ledger \subseteq FileNames
    /\ released \in 0..Len(Directory)
    /\ runner \in [Runners -> Runner]
    /\ work \subseteq Runners \X FileNames \X Nat
    /\ overlapped \in BOOLEAN

UsersTypeOK ==
    /\ DOMAIN users \subseteq AccountIds
    /\ users \in [DOMAIN users -> UserRow]

FilesInit ==
    /\ schema = {}
    /\ users = [a \in {} |-> 0]
    /\ ledger = {}
    /\ released = FirstRelease
    /\ runner = [r \in Runners |-> [pc |-> "idle", count |-> 0, done |-> {},
                                    file |-> 1, stmt |-> 1]]
    /\ work = {}
    /\ overlapped = FALSE

-----------------------------------------------------------------------------
(* One statement of a file. *)

Skipped(s) == s.unless \cap schema # {}

(* Dropping a value of an ENUM is refused if some row holds it. *)
MayFail(s) ==
    /\ ~Skipped(s)
    /\ \/ ~(s.needs \subseteq schema) \/ s.forbids \cap schema # {}
       \/ s.rows = "uuid required" /\ \E a \in DOMAIN users : ~users[a].uuid
       \/ s.rows = "events listed" /\ s.takes \cap schema # {}

MaySucceed(s) ==
    \/ Skipped(s)
    \/ /\ s.needs \subseteq schema /\ s.forbids \cap schema = {}
       /\ s.rows = "uuid required" => \A a \in DOMAIN users : users[a].uuid

RowAfter(effect, row) ==
    CASE effect = "uuid filled"  -> [row EXCEPT !.uuid = TRUE]
      [] effect = "flag copied"  -> [row EXCEPT !.email_verified_at = @ \/ row.email_verified]
      [] effect = "flag dropped" -> [row EXCEPT !.email_verified = FALSE]
      [] OTHER                   -> row

SchemaAfter(s, sch) ==
    IF s.unless \cap sch # {} THEN sch ELSE (sch \ s.takes) \cup s.gives

-----------------------------------------------------------------------------
(* The command. *)

FileOf(r) == Directory[runner[r].file]

(* The files for the applications are not told apart. *)
LeftOutNoneSlip(r) == FileOf(r) \in runner[r].done

(* The first file is applied every time. *)
LeftOutFirstSlip(r) ==
    FileOf(r) \in APP_MIGRATIONS \cup (runner[r].done \ {Directory[1]})

(* What the loop passes over. *)
LeftOut(r) == FileOf(r) \in APP_MIGRATIONS \cup runner[r].done

InFile(r) ==
    /\ runner[r].pc = "applying" /\ runner[r].file <= runner[r].count
    /\ ~LeftOut(r)

ReadDirectory(r) ==
    /\ runner[r].pc = "idle"
    /\ runner' = [runner EXCEPT ![r].pc = "directory read", ![r].count = released]
    /\ overlapped' = (overlapped \/ \E q \in Runners : AtWork(q))
    /\ UNCHANGED <<schema, users, ledger, released, work>>

ReadLedger(r) ==
    /\ runner[r].pc = "directory read"
    /\ runner' = [runner EXCEPT
         ![r].pc = IF runner[r].count = 0 THEN "done" ELSE "applying",
         ![r].done = ledger]
    /\ UNCHANGED <<schema, users, ledger, released, work, overlapped>>

Skip(r) ==
    /\ runner[r].pc = "applying" /\ runner[r].file <= runner[r].count
    /\ LeftOut(r)
    /\ runner' = [runner EXCEPT ![r].file = @ + 1]
    /\ UNCHANGED <<schema, users, ledger, released, work, overlapped>>

Fail(r) ==
    /\ runner' = [runner EXCEPT ![r].pc = "failed"]
    /\ UNCHANGED <<schema, users, ledger, released, work, overlapped>>

Apply(r) ==
    /\ InFile(r) /\ runner[r].stmt \in DOMAIN Content[FileOf(r)]
    /\ LET s == Content[FileOf(r)][runner[r].stmt]
       IN  /\ MaySucceed(s)
           /\ schema' = SchemaAfter(s, schema)
           /\ users' = [a \in DOMAIN users |-> RowAfter(s.rows, users[a])]
    /\ work' = work \cup {<<r, FileOf(r), runner[r].stmt>>}
    /\ runner' = [runner EXCEPT ![r].stmt = @ + 1]
    /\ UNCHANGED <<ledger, released, overlapped>>

(* A file that fails is left for the next one. *)
ApplyFailsSlip(r) ==
    /\ InFile(r) /\ runner[r].stmt \in DOMAIN Content[FileOf(r)]
    /\ MayFail(Content[FileOf(r)][runner[r].stmt])
    /\ runner' = [runner EXCEPT ![r].file = @ + 1, ![r].stmt = 1]
    /\ UNCHANGED <<schema, users, ledger, released, work, overlapped>>

ApplyFails(r) ==
    /\ InFile(r) /\ runner[r].stmt \in DOMAIN Content[FileOf(r)]
    /\ MayFail(Content[FileOf(r)][runner[r].stmt])
    /\ Fail(r)

(* The file is entered without waiting for its statements. *)
RecordSlip(r) ==
    /\ InFile(r) /\ FileOf(r) \notin ledger
    /\ ledger' = ledger \cup {FileOf(r)}
    /\ runner' = [runner EXCEPT ![r].file = @ + 1, ![r].stmt = 1]
    /\ UNCHANGED <<schema, users, released, work, overlapped>>

Record(r) ==
    /\ InFile(r) /\ runner[r].stmt > Len(Content[FileOf(r)])
    /\ FileOf(r) \notin ledger
    /\ ledger' = ledger \cup {FileOf(r)}
    /\ runner' = [runner EXCEPT ![r].file = @ + 1, ![r].stmt = 1]
    /\ UNCHANGED <<schema, users, released, work, overlapped>>

(* The primary key of the ledger. *)
RecordDuplicate(r) ==
    /\ InFile(r) /\ runner[r].stmt > Len(Content[FileOf(r)])
    /\ FileOf(r) \in ledger
    /\ Fail(r)

Finish(r) ==
    /\ runner[r].pc = "applying" /\ runner[r].file > runner[r].count
    /\ runner' = [runner EXCEPT ![r].pc = "done"]
    /\ UNCHANGED <<schema, users, ledger, released, work, overlapped>>

Interrupt(r) ==
    /\ AtWork(r)
    /\ runner' = [runner EXCEPT ![r].pc = "interrupted"]
    /\ UNCHANGED <<schema, users, ledger, released, work, overlapped>>

(* A later release is unpacked. *)
Release ==
    /\ released < Len(Directory)
    /\ released' = Len(Directory)
    /\ UNCHANGED <<schema, users, ledger, runner, work, overlapped>>

FilesNext ==
    \/ \E r \in Runners :
        \/ ReadDirectory(r) \/ ReadLedger(r) \/ Skip(r) \/ Apply(r) \/ ApplyFails(r)
        \/ Record(r) \/ RecordDuplicate(r) \/ Finish(r) \/ Interrupt(r)
    \/ Release

FilesSpec == FilesInit /\ [][FilesNext]_<<files, users>>

-----------------------------------------------------------------------------
NobodyAtWork == \A r \in Runners : ~AtWork(r)
Settled == NobodyAtWork /\ ~overlapped

(* In every file the old flag is read before it is dropped, as in          *)
(* 007_schema_to_spec.sql.                                                 *)
CopiedBeforeDropped ==
    \A f \in FileNames : \A i \in DOMAIN Content[f] :
        Content[f][i].rows = "flag dropped" =>
            \E j \in DOMAIN Content[f] : j < i /\ Content[f][j].rows = "flag copied"

(* A file is in the ledger only after every file before it, whatever is    *)
(* interrupted or fails and however many runners there are (the for loop   *)
(* of run.ts).                                                             *)
LedgerInOrder ==
    \A i, j \in Indices :
        i < j /\ Directory[j] \in ledger /\ Directory[i] \notin APP_MIGRATIONS
        => Directory[i] \in ledger

(* A schema after the first n statements of file f. *)
PartAfter(f, n, sch) ==
    LET after[i \in 0..Len(Content[f])] ==
          IF i = 0 THEN sch ELSE SchemaAfter(Content[f][i], after[i - 1])
    IN  after[n]

FileAfter(f, sch) == PartAfter(f, Len(Content[f]), sch)

(* What those of the first n files that are in a set make of an empty      *)
(* database.                                                               *)
SchemaFrom(some, n) ==
    LET after[i \in 0..Len(Directory)] ==
          IF i = 0 THEN {}
          ELSE IF Directory[i] \in some THEN FileAfter(Directory[i], after[i - 1])
          ELSE after[i - 1]
    IN  after[n]

RecordedSchema == SchemaFrom(ledger, Len(Directory))

(* Between runs the schema is what the files in the ledger make of an      *)
(* empty database, and nothing they dropped is back, unless runners have   *)
(* overlapped or a file was begun and never finished (run.ts:34-37).       *)
LedgerTellsSchema ==
    Settled /\ (\A t \in work : t[2] \in ledger)
    => schema = RecordedSchema

(* A statement that fails the second time. *)
Unrepeatable(s) == s.unless = {} /\ (s.forbids # {} \/ s.takes \cap s.needs # {})

(* A run of the command fails only if another one has left the same file   *)
(* after a statement that cannot be repeated, or has been at work at the   *)
(* same time, or somebody inserts accounts the while ("safe to re-run",    *)
(* README.md:49).                                                          *)
RerunsAreSafe ==
    \A r \in Runners :
        runner[r].pc = "failed" =>
            \/ overlapped
            \/ \E t \in work : /\ t[1] # r /\ t[2] = FileOf(r)
                               /\ Unrepeatable(Content[t[2]][t[3]])
            \/ /\ \E a \in DOMAIN users : ~users[a].uuid
               /\ \E i \in DOMAIN Content[FileOf(r)] :
                    runner[r].stmt = i /\ Content[FileOf(r)][i].rows = "uuid required"

(* Once all files are in the ledger the service finds every table, column  *)
(* and event its statements name, unless runners have overlapped.          *)
ServiceFindsItsSchema ==
    Settled /\ FileNames \ APP_MIGRATIONS \subseteq ledger => ServiceNeeds \subseteq schema
-----------------------------------------------------------------------------
(* What the theorems about these three properties assume of the files.     *)

Expected == FileNames \ APP_MIGRATIONS

Writes(s) == s.gives \cup s.takes
Touches(s) == s.unless \cup s.needs \cup s.forbids \cup Writes(s)

(* No statement of file f up to the n-th is unrepeatable, so that a run    *)
(* may execute them again after another one.                               *)
Repeatable(f, n) == \A i \in 1..n : ~Unrepeatable(Content[f][i])

(* Such statements have no effect the second time, and do not meet.        *)
RepeatsChangeNothing ==
    \A f \in Expected : \A i \in DOMAIN Content[f] :
        Repeatable(f, i) =>
            LET s == Content[f][i]
            IN  /\ s.unless # {} => s.unless \cap s.gives # {}
                /\ s.rows = "events listed" => s.takes \cap s.gives = {}
                /\ \A j \in 1..i - 1 :
                     /\ Writes(s) \cap Touches(Content[f][j]) = {}
                     /\ Writes(Content[f][j]) \cap Touches(s) = {}

(* A statement that cannot be repeated leaves behind what makes it fail,   *)
(* and no statement of its file takes that away.                           *)
UnrepeatablesFail ==
    \A f \in Expected : \A i \in DOMAIN Content[f] :
        LET s == Content[f][i]
        IN  Unrepeatable(s) =>
              \/ \E x \in s.forbids \cap s.gives :
                   \A j \in DOMAIN Content[f] : x \notin Content[f][j].takes
              \/ \E x \in s.needs \cap s.takes :
                   \A j \in DOMAIN Content[f] : x \notin Content[f][j].gives

(* Applied for the first time, after the files before it, no file fails    *)
(* on account of the schema.                                               *)
Refused(s, sch) ==
    /\ s.unless \cap sch = {}
    /\ \/ ~(s.needs \subseteq sch) \/ s.forbids \cap sch # {}
       \/ s.rows = "events listed" /\ s.takes \cap sch # {}

FirstRunsSucceed ==
    \A i \in Indices : Directory[i] \in Expected =>
        \A n \in DOMAIN Content[Directory[i]] :
            ~Refused(Content[Directory[i]][n],
                     PartAfter(Directory[i], n - 1, SchemaFrom(Expected, i - 1)))

(* Accounts get their uuid and must have it in one run, as in              *)
(* 007_schema_to_spec.sql.                                                 *)
UuidsAreFilledOnce ==
    \A f \in Expected : \A i \in DOMAIN Content[f] :
        Content[f][i].rows = "uuid required" =>
            \E j \in 1..i - 1 :
                /\ Unrepeatable(Content[f][j])
                /\ \A k \in 1..j - 1 : Content[f][k].rows # "uuid filled"

ServiceFitsTheFiles == ServiceNeeds \subseteq SchemaFrom(Expected, Len(Directory))
=============================================================================
