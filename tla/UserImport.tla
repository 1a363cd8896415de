----------------------------- MODULE UserImport -----------------------------
(***************************************************************************)
(* scripts/migrate-users.ts: the accounts of two applications are merged   *)
(* into central_users by address, and each row of the applications is      *)
(* linked to its account.  The script is run by hand, may die, and may be  *)
(* run again; the migrations and the service may run meanwhile.            *)
(*                                                                         *)
(* Definitions whose name ends in "Slip" are no part of the model: each is *)
(* the definition below it with one plausible mistake.                     *)
(***************************************************************************)
EXTENDS Migrations, FiniteSets

CONSTANTS
    Rows,              \* the rows of the applications' tables
    Source,            \* table and address of each
    NoAccount,         \* central_user_id is NULL
    MaxImports         \* bound on the executions of the script

ASSUME ImportAssumption ==
    /\ AccountIds = 1..Cardinality(AccountIds)
    /\ NoAccount \notin AccountIds
    /\ Rows # {} /\ Source \in [Rows -> [table : STRING, email : Emails]]
    /\ MaxImports \in Nat

VARIABLES
    link,              \* central_user_id of each row
    script,
    imports,           \* how often the script was started
    abandoned,         \* history: address -> accounts that have moved away from it
    brought            \* history: accounts imported while no migration ran

vars == <<files, users, link, script, imports, abandoned, brought>>

Tables == <<"helou.users", "helou.providers", "helou.handymen",
            "seffro_db.users", "seffro_db.vendors", "seffro_db.agents">>

(* One too many. *)
LastOfApplicationSlip(i) == IF i <= 3 THEN 4 ELSE 7

(* The last table of the same application. *)
LastOfApplication(i) == IF i <= 3 THEN 3 ELSE 6

(* The tables that have the column central_user_id. *)
Linkable == {"helou.users", "seffro_db.users", "seffro_db.vendors", "seffro_db.agents"}

Script == [pc : {"off", "rows", "insert", "link"},
           table : 0..6,
           todo : SUBSET Rows,             \* what the SELECT has read
           row : Rows, account : AccountIds \cup {NoAccount}]

TypeOK ==
    /\ FilesTypeOK /\ UsersTypeOK
    /\ link \in [Rows -> AccountIds \cup {NoAccount}]
    /\ script \in Script
    /\ imports \in 0..MaxImports
    /\ abandoned \in [Emails -> SUBSET AccountIds]
    /\ brought \subseteq AccountIds

Init ==
    /\ FilesInit
    /\ link = [x \in Rows |-> NoAccount]
    /\ script = [pc |-> "off", table |-> 6, todo |-> {},
                  row |-> CHOOSE x \in Rows : TRUE, account |-> NoAccount]
    /\ imports = 0
    /\ abandoned = [e \in Emails |-> {}]
    /\ brought = {}

-----------------------------------------------------------------------------
HasColumn(c) == <<"central_users", c>> \in schema
Holders(email) == {a \in DOMAIN users : users[a].email = email}

(* AUTO_INCREMENT. *)
NextId == Cardinality(DOMAIN users) + 1

Insert(row) ==
    /\ NextId \in AccountIds
    /\ Holders(row.email) = {}
    /\ users' = [a \in DOMAIN users \cup {NextId} |->
                   IF a = NextId THEN row ELSE users[a]]

-----------------------------------------------------------------------------
(* The script. *)

StartImport ==
    /\ script.pc = "off" /\ imports < MaxImports
    /\ imports' = imports + 1
    /\ script' = [script EXCEPT !.pc = "rows", !.table = 0]
    /\ UNCHANGED <<files, users, link, abandoned, brought>>

(* The rows of the next table are read at once. *)
ReadTable ==
    /\ script.pc = "rows" /\ script.todo = {} /\ script.table < 6
    /\ script' = [script EXCEPT
         !.table = @ + 1,
         !.todo = {x \in Rows : Source[x].table = Tables[script.table + 1]}]
    /\ UNCHANGED <<files, users, link, imports, abandoned, brought>>

(* upsertCentralUser *)
Look == \E x \in script.todo :
    /\ script.pc = "rows" /\ <<"central_users", "table">> \in schema
    /\ LET found == Holders(Source[x].email)
       IN  script' = [script EXCEPT
             !.pc = IF found = {} THEN "insert" ELSE "link", !.row = x,
             !.account = IF found = {} THEN @ ELSE CHOOSE a \in found : TRUE]
    /\ UNCHANGED <<files, users, link, imports, abandoned, brought>>

(* The id of the new row is not taken over. *)
InsertAccountSlip ==
    /\ script.pc = "insert"
    /\ HasColumn("email_verified") /\ ~HasColumn("uq_uuid")
    /\ Insert([email |-> Source[script.row].email, uuid |-> FALSE,
               email_verified |-> TRUE, email_verified_at |-> FALSE])
    /\ script' = [script EXCEPT !.pc = "link"]
    /\ brought' = IF NobodyAtWork THEN brought \cup {NextId} ELSE brought
    /\ UNCHANGED <<files, link, imports, abandoned>>

InsertAccount ==
    /\ script.pc = "insert"
    /\ HasColumn("email_verified") /\ ~HasColumn("uq_uuid")
    /\ Insert([email |-> Source[script.row].email, uuid |-> FALSE,
               email_verified |-> TRUE, email_verified_at |-> FALSE])
    /\ script' = [script EXCEPT !.pc = "link", !.account = NextId]
    /\ brought' = IF NobodyAtWork THEN brought \cup {NextId} ELSE brought
    /\ UNCHANGED <<files, link, imports, abandoned>>

(* The catch block of an application: the rest of it is left. *)
GiveUp ==
    /\ script' = [script EXCEPT !.pc = "rows", !.table = LastOfApplication(@), !.todo = {}]
    /\ UNCHANGED <<files, users, link, imports, abandoned, brought>>

LookFails ==
    /\ script.pc = "rows" /\ script.todo # {}
    /\ <<"central_users", "table">> \notin schema
    /\ GiveUp

(* The columns are not as the statement names them, or the address is taken. *)
InsertFails ==
    /\ script.pc = "insert"
    /\ \/ ~HasColumn("email_verified") \/ HasColumn("uq_uuid")
       \/ Holders(Source[script.row].email) # {}
    /\ GiveUp

(* The link is UNIQUE in its table. *)
Linked(x, a) ==
    \E y \in Rows \ {x} : Source[y].table = Source[x].table /\ link[y] = a

LinkRow ==
    /\ script.pc = "link"
    /\ Source[script.row].table \in Linkable /\ ~Linked(script.row, script.account)
    /\ link' = [link EXCEPT ![script.row] = script.account]
    /\ script' = [script EXCEPT !.pc = "rows", !.todo = @ \ {script.row}]
    /\ UNCHANGED <<files, users, imports, abandoned, brought>>

LinkFails ==
    /\ script.pc = "link"
    /\ Source[script.row].table \notin Linkable \/ Linked(script.row, script.account)
    /\ GiveUp

EndImport ==
    /\ script.pc = "rows" /\ script.todo = {} /\ script.table = 6
    /\ script' = [script EXCEPT !.pc = "off"]
    /\ UNCHANGED <<files, users, link, imports, abandoned, brought>>

(* The process dies. *)
CrashImport ==
    /\ script.pc # "off"
    /\ script' = [script EXCEPT !.pc = "off", !.todo = {}]
    /\ UNCHANGED <<files, users, link, imports, abandoned, brought>>

-----------------------------------------------------------------------------
(* The service, which is deployed on a complete schema. *)

ServiceRuns == NobodyAtWork /\ ServiceNeeds \subseteq schema

Register == \E e \in Emails :
    /\ ServiceRuns
    /\ Insert([email |-> e, uuid |-> TRUE, email_verified |-> FALSE,
               email_verified_at |-> FALSE])
    /\ UNCHANGED <<files, link, script, imports, abandoned, brought>>

ChangeEmail == \E a \in DOMAIN users, e \in Emails :
    /\ ServiceRuns
    /\ Holders(e) = {}
    /\ users' = [users EXCEPT ![a].email = e, ![a].email_verified_at = FALSE]
    /\ abandoned' = [abandoned EXCEPT ![users[a].email] = @ \cup {a}]
    /\ brought' = brought \ {a}
    /\ UNCHANGED <<files, link, script, imports>>

Next ==
    \/ FilesNext /\ UNCHANGED <<link, script, imports, abandoned, brought>>
    \/ StartImport \/ ReadTable \/ Look \/ LookFails \/ InsertAccount \/ InsertFails
    \/ LinkRow \/ LinkFails \/ EndImport \/ CrashImport
    \/ Register \/ ChangeEmail

Spec == Init /\ [][Next]_vars

-----------------------------------------------------------------------------
(* A row that has an account keeps it, however often the script is run,    *)
(* unless that account has given the row's address up (the UPDATE of       *)
(* central_user_id looks at the address only).                             *)
RelinkedOnlyAfterAMove ==
    [][\A x \in Rows :
         link'[x] # link[x] /\ link[x] # NoAccount
         => link[x] \in abandoned[Source[x].email]]_vars

(* An account imported while no migration was running is verified under    *)
(* the schema that drops the flag the script sets (007_schema_to_spec.sql).*)
NoLostVerification ==
    \A a \in brought :
        users[a].email_verified \/ users[a].email_verified_at
=============================================================================
