--------------------------- MODULE UserImportProof ---------------------------
(***************************************************************************)
(* Migrations and import together, for all files, runners and rows,        *)
(* however runs are interrupted and repeated.  The ledger keeps the order  *)
(* of the files, the schema is what the ledger says, and a run fails for   *)
(* no cause of its own; the import never takes a row away from an account  *)
(* that still has the row's address, and what it brought in as verified    *)
(* stays so.                                                               *)
(***************************************************************************)
EXTENDS UserImport, MigrationsProof

-----------------------------------------------------------------------------
(* Together with the import. *)

ScriptSteps ==
    \/ StartImport \/ ReadTable \/ Look \/ LookFails \/ InsertAccount \/ InsertFails
    \/ LinkRow \/ LinkFails \/ EndImport \/ CrashImport

LEMMA OnlyTheRunnerMoves ==
    ASSUME [Next]_vars
    PROVE  FilesNext \/ UNCHANGED files
  BY DEF Next, vars, StartImport, ReadTable, Look, LookFails, GiveUp, InsertAccount,
         InsertFails, LinkRow, LinkFails, EndImport, CrashImport, Register, ChangeEmail

(* However runners are interrupted, fail, or work at once, a file is in the *)
(* ledger only after every file before it (run.ts).                        *)
THEOREM LedgerKeepsOrder == Spec => []LedgerInOrder
<1>1. Init => FilesInv
  BY FilesInitInv DEF Init
<1>2. FilesInv /\ [Next]_vars => FilesInv'
  BY OnlyTheRunnerMoves, FilesStep
<1>3. FilesInv => LedgerInOrder
  BY DEF FilesInv
<1> QED
  BY <1>1, <1>2, <1>3, PTL DEF Spec

-----------------------------------------------------------------------------
(* What statements do to the accounts. *)

Numbered == \E n \in Nat : DOMAIN users = 1..n

OneHolder == \A a, b \in DOMAIN users : users[a].email = users[b].email => a = b

AccountsInv == UsersTypeOK /\ Numbered /\ OneHolder

LEMMA NextIdIsNew ==
    ASSUME Numbered
    PROVE  NextId \notin DOMAIN users /\ \E n \in Nat : DOMAIN users \cup {NextId} = 1..n
<1>1. PICK n \in Nat : DOMAIN users = 1..n
  BY DEF Numbered
<1>2. Cardinality(1..n) = n
  BY FS_Interval
<1>3. NextId = n + 1
  BY <1>1, <1>2 DEF NextId
<1> QED
  BY <1>1, <1>3

LEMMA RowAfterTyped ==
    ASSUME NEW row \in UserRow, NEW effect
    PROVE  RowAfter(effect, row) \in UserRow /\ RowAfter(effect, row).email = row.email
<1>1. /\ [row EXCEPT !.uuid = TRUE] \in UserRow
      /\ [row EXCEPT !.email_verified = FALSE] \in UserRow
  BY DEF UserRow
<1>2. [row EXCEPT !.email_verified_at = @ \/ row.email_verified] \in UserRow
  BY DEF UserRow
<1> QED
  BY <1>1, <1>2 DEF RowAfter, UserRow

(* No account goes, and one that changes its address has given it up. *)
Kept ==
    /\ DOMAIN users \subseteq DOMAIN users'
    /\ \A e \in Emails : abandoned[e] \subseteq abandoned'[e]
    /\ \A a \in DOMAIN users :
         users'[a].email = users[a].email \/ a \in abandoned'[users[a].email]

LEMMA RunnerKeepsAccounts ==
    ASSUME AccountsInv, FilesNext, abandoned' = abandoned
    PROVE  AccountsInv' /\ Kept
<1>1. CASE UNCHANGED users
  BY <1>1 DEF AccountsInv, UsersTypeOK, Numbered, OneHolder, Kept
<1>2. CASE \E r \in Runners : Apply(r)
  <2>1. PICK effect : users' = [a \in DOMAIN users |-> RowAfter(effect, users[a])]
    BY <1>2 DEF Apply
  <2>2. \A a \in DOMAIN users : users'[a] \in UserRow /\ users'[a].email = users[a].email
    BY <2>1, RowAfterTyped DEF AccountsInv, UsersTypeOK
  <2> QED
    BY <2>1, <2>2 DEF AccountsInv, UsersTypeOK, Numbered, OneHolder, Kept
<1>3. UNCHANGED users \/ \E r \in Runners : Apply(r)
  BY DEF FilesNext, ReadDirectory, ReadLedger, Skip, ApplyFails, Record,
         RecordDuplicate, Finish, Interrupt, Release, Fail
<1> QED
  BY <1>1, <1>2, <1>3

LEMMA InsertKeepsAccounts ==
    ASSUME AccountsInv, NEW row \in UserRow, Insert(row), abandoned' = abandoned
    PROVE  AccountsInv' /\ Kept
<1>1. /\ DOMAIN users' = DOMAIN users \cup {NextId}
      /\ users'[NextId] = row
      /\ \A a \in DOMAIN users : users'[a] = users[a]
  BY NextIdIsNew DEF Insert, AccountsInv
<1>2. UsersTypeOK'
  BY <1>1 DEF Insert, AccountsInv, UsersTypeOK
<1>3. Numbered'
  BY <1>1, NextIdIsNew DEF AccountsInv, Numbered
<1>4. OneHolder'
  BY <1>1 DEF Insert, AccountsInv, OneHolder, Holders
<1>5. Kept
  BY <1>1 DEF Kept
<1> QED
  BY <1>2, <1>3, <1>4, <1>5 DEF AccountsInv

LEMMA MoveKeepsAccounts ==
    ASSUME AccountsInv, abandoned \in [Emails -> SUBSET AccountIds], ChangeEmail
    PROVE  AccountsInv' /\ Kept /\ abandoned' \in [Emails -> SUBSET AccountIds]
<1>1. PICK a \in DOMAIN users, e \in Emails :
        /\ Holders(e) = {}
        /\ users' = [users EXCEPT ![a].email = e, ![a].email_verified_at = FALSE]
        /\ abandoned' = [abandoned EXCEPT ![users[a].email] = @ \cup {a}]
  BY DEF ChangeEmail
<1>2. users[a] \in UserRow /\ a \in AccountIds /\ users[a].email \in Emails
  BY DEF AccountsInv, UsersTypeOK, UserRow
<1>3. [users[a] EXCEPT !.email = e, !.email_verified_at = FALSE] \in UserRow
  BY <1>2 DEF UserRow
<1>4. /\ DOMAIN users' = DOMAIN users
      /\ users'[a] = [users[a] EXCEPT !.email = e, !.email_verified_at = FALSE]
      /\ \A b \in DOMAIN users : b # a => users'[b] = users[b]
  BY <1>1
<1>5. users'[a].email = e
  BY <1>2, <1>4 DEF UserRow
<1>6. UsersTypeOK' /\ Numbered'
  <2>1. users' \in [DOMAIN users -> UserRow]
    BY <1>1, <1>3, <1>4 DEF AccountsInv, UsersTypeOK
  <2> QED
    BY <1>4, <2>1 DEF AccountsInv, UsersTypeOK, Numbered
<1>7. OneHolder'
  BY <1>1, <1>4, <1>5 DEF AccountsInv, OneHolder, Holders
<1>8. abandoned' \in [Emails -> SUBSET AccountIds] /\ a \in abandoned'[users[a].email]
  BY <1>1, <1>2
<1>9. Kept
  BY <1>1, <1>2, <1>4, <1>8 DEF Kept
<1> QED
  BY <1>6, <1>7, <1>8, <1>9 DEF AccountsInv

-----------------------------------------------------------------------------
(* The script. *)

ScriptTypeOK ==
    /\ link \in [Rows -> AccountIds \cup {NoAccount}]
    /\ script \in Script
    /\ imports \in 0..MaxImports
    /\ abandoned \in [Emails -> SUBSET AccountIds]
    /\ brought \subseteq AccountIds

(* Row x may be linked to a: a has its address, or has given it up. *)
Belongs(x, a) ==
    /\ a \in DOMAIN users
    /\ users[a].email = Source[x].email \/ a \in abandoned[Source[x].email]

LinksBelong == \A x \in Rows : link[x] # NoAccount => Belongs(x, link[x])

(* What the row the script is at is linked to, from an earlier execution. *)
Outlived == link[script.row] \in {NoAccount} \cup abandoned[Source[script.row].email]

Chosen ==
    /\ script.pc = "insert" => Outlived
    /\ script.pc = "link" => /\ Belongs(script.row, script.account)
                             /\ Outlived \/ link[script.row] = script.account

ImportInv == AccountsInv /\ ScriptTypeOK /\ LinksBelong /\ Chosen

LEMMA SourceTyped ==
    \A x \in Rows : Source[x] \in [table : STRING, email : Emails] /\ Source[x].email \in Emails
  BY ImportAssumption

LEMMA ImportInitInv == Init => ImportInv
<1> SUFFICES ASSUME Init PROVE ImportInv
  OBVIOUS
<1>1. DOMAIN users = {} /\ users = [a \in {} |-> 0]
  BY DEF Init, FilesInit
<1>2. AccountsInv
  <2>1. users \in [DOMAIN users -> UserRow]
    BY <1>1
  <2>2. 1..0 = {}
    OBVIOUS
  <2> QED
    BY <1>1, <2>1, <2>2 DEF AccountsInv, UsersTypeOK, Numbered, OneHolder
<1>3. script \in Script
  <2>1. (CHOOSE x \in Rows : TRUE) \in Rows
    BY ImportAssumption
  <2> QED
    BY <2>1 DEF Init, Script
<1>4. ScriptTypeOK
  BY <1>3, ImportAssumption DEF Init, ScriptTypeOK
<1> QED
  BY <1>2, <1>4 DEF Init, ImportInv, LinksBelong, Chosen

(* What belonged together still does. *)
LEMMA KeptBelongs ==
    ASSUME AccountsInv, Kept, NEW x \in Rows, NEW a, Belongs(x, a)
    PROVE  Belongs(x, a)'
  BY SourceTyped DEF Belongs, Kept

(* Steps that leave the script alone. *)
LEMMA OthersKeep ==
    ASSUME ImportInv, AccountsInv', Kept, UNCHANGED <<link, script>>, ScriptTypeOK'
    PROVE  ImportInv'
<1>1. LinksBelong'
  BY KeptBelongs DEF ImportInv, LinksBelong
<1>2. script.row \in Rows
  BY DEF ImportInv, ScriptTypeOK, Script
<1>3. Outlived => Outlived'
  BY <1>2, SourceTyped DEF Kept, Outlived
<1>4. Chosen'
  BY <1>2, <1>3, KeptBelongs DEF ImportInv, Chosen
<1> QED
  BY <1>1, <1>4 DEF ImportInv

LEMMA ScriptUpdateTyped ==
    ASSUME NEW s \in Script, NEW pc \in {"off", "rows", "insert", "link"},
           NEW table \in 0..6, NEW todo \in SUBSET Rows,
           NEW x \in Rows, NEW a \in AccountIds \cup {NoAccount}
    PROVE  /\ [s EXCEPT !.pc = pc] \in Script
           /\ [s EXCEPT !.pc = pc, !.table = table] \in Script
           /\ [s EXCEPT !.table = table, !.todo = todo] \in Script
           /\ [s EXCEPT !.pc = pc, !.table = table, !.todo = todo] \in Script
           /\ [s EXCEPT !.pc = pc, !.todo = todo] \in Script
           /\ [s EXCEPT !.pc = pc, !.row = x, !.account = a] \in Script
           /\ [s EXCEPT !.pc = pc, !.account = a] \in Script
<1>1. /\ [s EXCEPT !.pc = pc] \in Script
      /\ [s EXCEPT !.pc = pc, !.table = table] \in Script
      /\ [s EXCEPT !.table = table, !.todo = todo] \in Script
  BY DEF Script
<1>2. /\ [s EXCEPT !.pc = pc, !.table = table, !.todo = todo] \in Script
      /\ [s EXCEPT !.pc = pc, !.todo = todo] \in Script
  BY DEF Script
<1>3. /\ [s EXCEPT !.pc = pc, !.row = x, !.account = a] \in Script
      /\ [s EXCEPT !.pc = pc, !.account = a] \in Script
  BY DEF Script
<1> QED
  BY <1>1, <1>2, <1>3

LEMMA TablesCount ==
    /\ 0 \in 0..6 /\ 3 \in 0..6 /\ 6 \in 0..6
    /\ \A i \in 0..6 : i < 6 => i + 1 \in 0..6
    /\ \A i \in 0..6 : LastOfApplication(i) \in 0..6
  BY DEF LastOfApplication

(* Steps of the script that change nothing but its position. *)
LEMMA WalkKeeps ==
    ASSUME ImportInv, UNCHANGED <<users, link, abandoned, brought>>,
           imports' \in 0..MaxImports, script' \in Script,
           script'.pc \notin {"insert", "link"}
    PROVE  ImportInv'
  BY DEF ImportInv, AccountsInv, UsersTypeOK, Numbered, OneHolder, ScriptTypeOK,
         LinksBelong, Belongs, Chosen

LEMMA ScriptKeeps ==
    ASSUME ImportInv, ScriptSteps
    PROVE  ImportInv'
<1>0. /\ script \in Script /\ imports \in 0..MaxImports
      /\ link \in [Rows -> AccountIds \cup {NoAccount}]
      /\ abandoned \in [Emails -> SUBSET AccountIds] /\ brought \subseteq AccountIds
      /\ script.row \in Rows /\ script.table \in 0..6 /\ script.todo \subseteq Rows
      /\ script.account \in AccountIds \cup {NoAccount}
      /\ DOMAIN users \subseteq AccountIds
  BY DEF ImportInv, ScriptTypeOK, Script, AccountsInv, UsersTypeOK
<1>1. CASE StartImport
  <2>1. imports' \in 0..MaxImports
    BY <1>0, <1>1, ImportAssumption DEF StartImport
  <2>2. script' \in Script /\ script'.pc = "rows"
    <3>1. script' \in Script
      BY <1>0, <1>1, ScriptUpdateTyped, TablesCount DEF StartImport
    <3>2. script'.pc = "rows"
      BY <1>0, <1>1 DEF StartImport, Script
    <3> QED
      BY <3>1, <3>2
  <2> QED
    BY <1>1, <2>1, <2>2, WalkKeeps DEF StartImport
<1>2. CASE ReadTable
  <2>1. script' \in Script /\ script'.pc = "rows"
    <3>1. script' \in Script
      BY <1>0, <1>2, ScriptUpdateTyped, TablesCount DEF ReadTable
    <3>2. script'.pc = "rows"
      BY <1>0, <1>2 DEF ReadTable, Script
    <3> QED
      BY <3>1, <3>2
  <2> QED
    BY <1>0, <1>2, <2>1, WalkKeeps DEF ReadTable
<1>3. CASE LookFails \/ InsertFails \/ LinkFails
  <2>1. GiveUp
    BY <1>3 DEF LookFails, InsertFails, LinkFails
  <2>2. script' \in Script /\ script'.pc = "rows"
    <3>1. script' \in Script
      <4>1. PICK n \in 0..6 :
              script' = [script EXCEPT !.pc = "rows", !.table = n, !.todo = {}]
        BY <1>0, <2>1, TablesCount DEF GiveUp
      <4>2. {} \in SUBSET Rows /\ "rows" \in {"off", "rows", "insert", "link"}
        OBVIOUS
      <4>3. [script EXCEPT !.pc = "rows", !.table = n, !.todo = {}] \in Script
        BY <1>0, <4>2, ScriptUpdateTyped
      <4> QED
        BY <4>1, <4>3
    <3>2. script'.pc = "rows"
      BY <1>0, <2>1 DEF GiveUp, Script
    <3> QED
      BY <3>1, <3>2
  <2> QED
    BY <1>0, <2>1, <2>2, WalkKeeps DEF GiveUp
<1>4. CASE EndImport \/ CrashImport
  <2>1. script' \in Script /\ script'.pc = "off"
    <3>1. script' \in Script
      <4>1. \/ script' = [script EXCEPT !.pc = "off"]
            \/ script' = [script EXCEPT !.pc = "off", !.todo = {}]
        BY <1>4 DEF EndImport, CrashImport
      <4>2. /\ [script EXCEPT !.pc = "off"] \in Script
            /\ [script EXCEPT !.pc = "off", !.todo = {}] \in Script
        BY <1>0, ScriptUpdateTyped
      <4> QED
        BY <4>1, <4>2
    <3>2. script'.pc = "off"
      BY <1>0, <1>4 DEF EndImport, CrashImport, Script
    <3> QED
      BY <3>1, <3>2
  <2> QED
    BY <1>0, <1>4, <2>1, WalkKeeps DEF EndImport, CrashImport
<1>5. CASE Look
  <2>1. PICK x \in script.todo :
          script' = [script EXCEPT
             !.pc = IF Holders(Source[x].email) = {} THEN "insert" ELSE "link", !.row = x,
             !.account = IF Holders(Source[x].email) = {} THEN @
                         ELSE CHOOSE a \in Holders(Source[x].email) : TRUE]
    BY <1>5 DEF Look
  <2> DEFINE found == Holders(Source[x].email)
  <2>2. x \in Rows /\ UNCHANGED <<users, link, imports, abandoned, brought>>
    BY <1>0, <1>5 DEF Look
  <2>3. CASE found = {}
    <3>1. script' = [script EXCEPT !.pc = "insert", !.row = x, !.account = script.account]
      BY <2>1, <2>3
    <3>2. script' \in Script /\ script'.pc = "insert" /\ script'.row = x
      <4>1. script' \in Script
        BY <1>0, <2>2, <3>1, ScriptUpdateTyped
      <4>2. script'.pc = "insert" /\ script'.row = x
        BY <1>0, <2>2, <3>1 DEF Script
      <4> QED
        BY <4>1, <4>2
    <3>3. link[x] \in {NoAccount} \cup abandoned[Source[x].email]
      BY <2>2, <2>3 DEF Holders, ImportInv, LinksBelong, Belongs
    <3> QED
      BY <2>2, <3>2, <3>3 DEF ImportInv, AccountsInv, UsersTypeOK, Numbered, OneHolder,
           ScriptTypeOK, LinksBelong, Belongs, Chosen, Outlived
  <2>4. CASE found # {}
    <3>1. PICK a \in found :
            script' = [script EXCEPT !.pc = "link", !.row = x, !.account = a]
      BY <2>1, <2>4
    <3>2. a \in DOMAIN users /\ users[a].email = Source[x].email
      BY DEF Holders
    <3>3. script' \in Script /\ script'.pc = "link" /\ script'.row = x /\ script'.account = a
      <4>1. script' \in Script
        BY <1>0, <2>2, <3>1, <3>2, ScriptUpdateTyped
      <4>2. script'.pc = "link" /\ script'.row = x /\ script'.account = a
        BY <1>0, <2>2, <3>1, <3>2 DEF Script
      <4> QED
        BY <4>1, <4>2
    <3>4. link[x] \in {NoAccount, a} \cup abandoned[Source[x].email]
      BY <2>2, <3>2 DEF ImportInv, AccountsInv, OneHolder, LinksBelong, Belongs
    <3> QED
      BY <2>2, <3>2, <3>3, <3>4 DEF ImportInv, AccountsInv, UsersTypeOK, Numbered,
           OneHolder, ScriptTypeOK, LinksBelong, Belongs, Chosen, Outlived
  <2> QED
    BY <2>3, <2>4
<1>6. CASE InsertAccount
  <2> DEFINE new == [email |-> Source[script.row].email, uuid |-> FALSE,
                     email_verified |-> TRUE, email_verified_at |-> FALSE]
  <2>1. new \in UserRow
    BY <1>0, SourceTyped DEF UserRow
  <2>2. Insert(new) /\ abandoned' = abandoned
    BY <1>6 DEF InsertAccount
  <2>3. AccountsInv' /\ Kept
    BY <2>1, <2>2, InsertKeepsAccounts DEF ImportInv
  <2>4. /\ NextId \in AccountIds /\ NextId \in DOMAIN users'
        /\ users'[NextId].email = Source[script.row].email
    BY <2>2 DEF Insert
  <2>5. script' = [script EXCEPT !.pc = "link", !.account = NextId]
    BY <1>6 DEF InsertAccount
  <2>6. script' \in Script /\ script'.pc = "link" /\ script'.row = script.row
        /\ script'.account = NextId
    <3>1. script' \in Script
      BY <1>0, <2>4, <2>5, ScriptUpdateTyped
    <3>2. script'.pc = "link" /\ script'.row = script.row
        /\ script'.account = NextId
      BY <1>0, <2>4, <2>5 DEF Script
    <3> QED
      BY <3>1, <3>2
  <2>7. ScriptTypeOK'
    BY <1>0, <1>6, <2>4, <2>6 DEF InsertAccount, ScriptTypeOK
  <2>8. LinksBelong'
    BY <1>6, <2>3, KeptBelongs DEF ImportInv, LinksBelong, InsertAccount
  <2>9. Outlived
    BY <1>6 DEF ImportInv, Chosen, InsertAccount
  <2>10. Chosen'
    BY <1>6, <2>2, <2>4, <2>6, <2>9 DEF Chosen, Outlived, Belongs, InsertAccount
  <2> QED
    BY <2>3, <2>7, <2>8, <2>10 DEF ImportInv
<1>7. CASE LinkRow
  <2>1. /\ link' = [link EXCEPT ![script.row] = script.account]
        /\ UNCHANGED <<users, imports, abandoned, brought>>
        /\ script.pc = "link" /\ script' = [script EXCEPT !.pc = "rows", !.todo = @ \ {script.row}]
    BY <1>7 DEF LinkRow
  <2>2. script' \in Script /\ script'.pc = "rows"
    <3>1. script' \in Script
      BY <1>0, <2>1, ScriptUpdateTyped
    <3>2. script'.pc = "rows"
      BY <1>0, <2>1 DEF Script
    <3> QED
      BY <3>1, <3>2
  <2>3. Belongs(script.row, script.account)
    BY <2>1 DEF ImportInv, Chosen
  <2>4. LinksBelong'
    BY <1>0, <2>1, <2>3 DEF ImportInv, LinksBelong, Belongs
  <2> QED
    BY <1>0, <2>1, <2>2, <2>4 DEF ImportInv, AccountsInv, UsersTypeOK, Numbered,
         OneHolder, ScriptTypeOK, Chosen
<1> QED
  BY <1>1, <1>2, <1>3, <1>4, <1>5, <1>6, <1>7 DEF ScriptSteps

LEMMA ImportStep ==
    ASSUME ImportInv, [Next]_vars
    PROVE  ImportInv'
<1>1. CASE ScriptSteps
  BY <1>1, ScriptKeeps
<1>2. CASE FilesNext /\ UNCHANGED <<link, script, imports, abandoned, brought>>
  <2>1. AccountsInv' /\ Kept
    BY <1>2, RunnerKeepsAccounts DEF ImportInv
  <2> QED
    BY <1>2, <2>1, OthersKeep DEF ImportInv, ScriptTypeOK
<1>3. CASE Register
  <2>1. PICK e \in Emails :
          Insert([email |-> e, uuid |-> TRUE, email_verified |-> FALSE,
                  email_verified_at |-> FALSE])
    BY <1>3 DEF Register
  <2>2. [email |-> e, uuid |-> TRUE, email_verified |-> FALSE,
         email_verified_at |-> FALSE] \in UserRow
    BY DEF UserRow
  <2>3. AccountsInv' /\ Kept
    BY <1>3, <2>1, <2>2, InsertKeepsAccounts DEF ImportInv, Register
  <2> QED
    BY <1>3, <2>3, OthersKeep DEF Register, ImportInv, ScriptTypeOK
<1>4. CASE ChangeEmail
  <2>1. AccountsInv' /\ Kept /\ abandoned' \in [Emails -> SUBSET AccountIds]
    BY <1>4, MoveKeepsAccounts DEF ImportInv, ScriptTypeOK
  <2>2. UNCHANGED <<link, script, imports>> /\ brought' \subseteq brought
    BY <1>4 DEF ChangeEmail
  <2> QED
    BY <2>1, <2>2, OthersKeep DEF ImportInv, ScriptTypeOK
<1>5. CASE UNCHANGED vars
  BY <1>5 DEF vars, ImportInv, AccountsInv, UsersTypeOK, Numbered, OneHolder,
              ScriptTypeOK, LinksBelong, Belongs, Chosen, Outlived
<1> QED
  BY <1>1, <1>2, <1>3, <1>4, <1>5 DEF Next, ScriptSteps

(* The schema, the ledger, the runners, the accounts, the links and the    *)
(* script keep their shapes.                                               *)
THEOREM TypeCorrect == Spec => []TypeOK
<1>1. Init => FilesInv /\ ImportInv
  BY FilesInitInv, ImportInitInv DEF Init
<1>2. FilesInv /\ ImportInv /\ [Next]_vars => FilesInv' /\ ImportInv'
  BY OnlyTheRunnerMoves, FilesStep, ImportStep
<1>3. FilesInv /\ ImportInv => TypeOK
  BY DEF FilesInv, ImportInv, AccountsInv, ScriptTypeOK, TypeOK
<1> QED
  BY <1>1, <1>2, <1>3, PTL DEF Spec

(* However often the import runs and dies, and whoever registers or moves  *)
(* meanwhile, a row that has an account is given another only if that      *)
(* account has given up the row's address (upsertCentralUser, UPDATE ...   *)
(* SET central_user_id of migrate-users.ts).                               *)
THEOREM AccountsKeepTheirRows == Spec => RelinkedOnlyAfterAMove
<1> DEFINE Relinked ==
      \A x \in Rows :
        link'[x] # link[x] /\ link[x] # NoAccount
        => link[x] \in abandoned[Source[x].email]
<1>1. Init => ImportInv
  BY ImportInitInv
<1>2. ImportInv /\ [Next]_vars => ImportInv'
  BY ImportStep
<1>3. ImportInv /\ [Next]_vars => [Relinked]_vars
  <2> SUFFICES ASSUME ImportInv, Next, link' # link
               PROVE  Relinked
    OBVIOUS
  <2>1. LinkRow
    BY DEF Next, StartImport, ReadTable, Look, LookFails, GiveUp, InsertAccount,
           InsertFails, LinkFails, EndImport, CrashImport, Register, ChangeEmail
  <2>2. /\ link' = [link EXCEPT ![script.row] = script.account]
        /\ Outlived \/ link[script.row] = script.account
    BY <2>1 DEF LinkRow, ImportInv, Chosen
  <2>3. \A x \in Rows : x # script.row => link'[x] = link[x]
    BY <2>2 DEF ImportInv, ScriptTypeOK
  <2>4. script.row \in Rows /\ link'[script.row] = script.account
    BY <2>2 DEF ImportInv, ScriptTypeOK, Script
  <2> QED
    BY <2>2, <2>3, <2>4 DEF Outlived
<1> QED
  BY <1>1, <1>2, <1>3, PTL DEF Spec, RelinkedOnlyAfterAMove

-----------------------------------------------------------------------------
(* The flag the script sets. *)

(* A runner that is past its first statement is inside a file. *)
Begun(r) ==
    runner[r].stmt # 1 =>
        /\ runner[r].pc \notin {"idle", "directory read"}
        /\ runner[r].pc = "applying" => InFile(r)

(* Behind a runner that has copied the flag nothing is left to copy: who is *)
(* brought in while somebody is at work does not count.                    *)
Copied(r) ==
    InFile(r) =>
        \A j \in DOMAIN Content[FileOf(r)] :
            j < runner[r].stmt /\ Content[FileOf(r)][j].rows = "flag copied"
            => \A a \in brought : users[a].email_verified_at

FlagInv ==
    /\ brought \subseteq DOMAIN users
    /\ NoLostVerification
    /\ \A r \in Runners : Begun(r) /\ Copied(r)

LEMMA FlagInitInv == Init => FlagInv
<1> SUFFICES ASSUME Init PROVE FlagInv
  OBVIOUS
<1>1. brought = {}
  BY DEF Init
<1>2. \A r \in Runners : runner[r].stmt = 1
  BY DEF Init, FilesInit
<1> QED
  BY <1>1, <1>2 DEF FlagInv, NoLostVerification, Begun, Copied

(* A step that leaves the runners alone, and the flags of those who are     *)
(* still counted.                                                          *)
LEMMA RunnersAloneKeepFlags ==
    ASSUME FlagInv, runner' = runner,
           DOMAIN users \subseteq DOMAIN users', brought' \subseteq brought,
           \A a \in brought' : /\ users'[a].email_verified = users[a].email_verified
                               /\ users'[a].email_verified_at = users[a].email_verified_at
    PROVE  FlagInv'
<1>1. brought' \subseteq DOMAIN users' /\ NoLostVerification'
  BY DEF FlagInv, NoLostVerification
<1>2. \A r \in Runners : Begun(r)' /\ Copied(r)'
  BY DEF FlagInv, Begun, Copied, InFile, LeftOut, FileOf
<1> QED
  BY <1>1, <1>2 DEF FlagInv

LEMMA InsertKeepsFlags ==
    ASSUME FlagInv, AccountsInv, NEW row \in UserRow, Insert(row), runner' = runner,
           \/ brought' = brought
           \/ NobodyAtWork /\ row.email_verified /\ brought' = brought \cup {NextId}
    PROVE  FlagInv'
<1>1. /\ DOMAIN users' = DOMAIN users \cup {NextId} /\ users'[NextId] = row
      /\ \A a \in DOMAIN users : users'[a] = users[a]
  BY NextIdIsNew DEF Insert, AccountsInv
<1>2. CASE brought' = brought
  BY <1>1, <1>2, RunnersAloneKeepFlags DEF FlagInv
<1>3. CASE NobodyAtWork /\ row.email_verified /\ brought' = brought \cup {NextId}
  <2>1. brought' \subseteq DOMAIN users' /\ NoLostVerification'
    BY <1>1, <1>3 DEF FlagInv, NoLostVerification
  <2>2. \A r \in Runners : Begun(r)'
    BY DEF FlagInv, Begun, InFile, LeftOut, FileOf
  <2>3. \A r \in Runners : ~InFile(r)'
    BY <1>3 DEF NobodyAtWork, AtWork, InFile
  <2> QED
    BY <2>1, <2>2, <2>3 DEF FlagInv, Copied
<1> QED
  BY <1>2, <1>3

(* What a statement does to the flag and to its copy. *)
LEMMA RowAfterFlags ==
    ASSUME NEW row \in UserRow, NEW effect
    PROVE  /\ RowAfter(effect, row).email_verified_at
                = (row.email_verified_at \/ (effect = "flag copied" /\ row.email_verified))
           /\ effect # "flag dropped" =>
                RowAfter(effect, row).email_verified = row.email_verified
<1>1. CASE effect = "uuid filled"
  BY <1>1 DEF RowAfter, UserRow
<1>2. CASE effect = "flag copied"
  BY <1>2 DEF RowAfter, UserRow
<1>3. CASE effect = "flag dropped"
  BY <1>3 DEF RowAfter, UserRow
<1>4. CASE effect \notin {"uuid filled", "flag copied", "flag dropped"}
  BY <1>4 DEF RowAfter, UserRow
<1> QED
  BY <1>1, <1>2, <1>3, <1>4

LEMMA UpToNext ==
    ASSUME NEW c \in Seq(Statement), NEW n \in Nat, NEW j \in DOMAIN c, j < n + 1
    PROVE  j < n \/ j = n
<1>1. j \in Nat
  OBVIOUS
<1> QED
  BY <1>1

LEMMA ApplyKeepsFlags ==
    ASSUME CopiedBeforeDropped, FilesInv, AccountsInv, FlagInv,
           NEW r \in Runners, Apply(r), brought' = brought
    PROVE  FlagInv'
<1> DEFINE row == runner[r]
           s == Content[FileOf(r)][row.stmt]
<1>0. /\ runner \in [Runners -> Runner] /\ row \in Runner
      /\ row.stmt \in Nat \ {0} /\ InFile(r) /\ row.stmt \in DOMAIN Content[FileOf(r)]
  BY DEF FilesInv, FilesTypeOK, Apply, Runner
<1>1. FileOf(r) \in FileNames /\ Content[FileOf(r)] \in Seq(Statement)
  <2>1. row.file \in Indices
    BY <1>0, FilesCount DEF InFile, Runner
  <2> QED
    BY <2>1, DirectoryIsIndexed DEF FileOf
<1>2. users' = [a \in DOMAIN users |-> RowAfter(s.rows, users[a])]
  BY DEF Apply
<1>3. \A a \in brought : a \in DOMAIN users /\ users[a] \in UserRow
  BY DEF FlagInv, AccountsInv, UsersTypeOK
<1>4. \A a \in brought :
        /\ users'[a].email_verified_at
             = (users[a].email_verified_at \/ (s.rows = "flag copied" /\ users[a].email_verified))
        /\ s.rows # "flag dropped" => users'[a].email_verified = users[a].email_verified
  BY <1>2, <1>3, RowAfterFlags
<1>5. brought' \subseteq DOMAIN users'
  BY <1>2 DEF FlagInv
<1>6. NoLostVerification'
  <2>1. CASE s.rows # "flag dropped"
    BY <1>4, <2>1 DEF FlagInv, NoLostVerification
  <2>2. CASE s.rows = "flag dropped"
    <3>1. PICK j \in DOMAIN Content[FileOf(r)] :
            j < row.stmt /\ Content[FileOf(r)][j].rows = "flag copied"
      BY <1>0, <1>1, <2>2 DEF CopiedBeforeDropped
    <3>2. \A a \in brought : users[a].email_verified_at
      BY <1>0, <3>1 DEF FlagInv, Copied
    <3> QED
      BY <1>4, <3>2 DEF NoLostVerification
  <2> QED
    BY <2>1, <2>2
<1>7. /\ runner' = [runner EXCEPT ![r].stmt = @ + 1]
      /\ \A q \in Runners \ {r} : runner'[q] = runner[q]
      /\ runner'[r] = [row EXCEPT !.stmt = @ + 1]
  BY <1>0 DEF Apply
<1>8. /\ runner'[r].pc = row.pc /\ runner'[r].file = row.file
      /\ runner'[r].count = row.count /\ runner'[r].done = row.done
      /\ runner'[r].stmt = row.stmt + 1
  BY <1>0, <1>7 DEF Runner
<1>9. FileOf(r)' = FileOf(r) /\ InFile(r)'
  BY <1>0, <1>8 DEF FileOf, InFile, LeftOut
<1>10. \A q \in Runners : Begun(q)'
  <2>1. Begun(r)'
    BY <1>0, <1>9 DEF Begun, InFile
  <2>2. \A q \in Runners \ {r} : Begun(q)'
    BY <1>7 DEF FlagInv, Begun, InFile, LeftOut, FileOf
  <2> QED
    BY <2>1, <2>2
<1>11. \A q \in Runners : Copied(q)'
  <2>1. ASSUME NEW q \in Runners \ {r} PROVE Copied(q)'
    <3>1. InFile(q)' = InFile(q) /\ FileOf(q)' = FileOf(q) /\ runner'[q] = runner[q]
      BY <1>7 DEF InFile, LeftOut, FileOf
    <3> QED
      BY <1>4, <3>1 DEF FlagInv, Copied
  <2>2. Copied(r)'
    <3> SUFFICES ASSUME NEW j \in DOMAIN Content[FileOf(r)], j < row.stmt + 1,
                        Content[FileOf(r)][j].rows = "flag copied", NEW a \in brought
                 PROVE  users'[a].email_verified_at
      BY <1>8, <1>9 DEF Copied
    <3>1. j < row.stmt \/ j = row.stmt
      BY <1>0, <1>1, UpToNext
    <3>2. CASE j < row.stmt
      BY <1>0, <1>4, <3>2 DEF FlagInv, Copied
    <3>3. CASE j = row.stmt
      BY <1>4, <3>3 DEF FlagInv, NoLostVerification
    <3> QED
      BY <3>1, <3>2, <3>3
  <2> QED
    BY <2>1, <2>2
<1> QED
  BY <1>5, <1>6, <1>10, <1>11 DEF FlagInv

(* The other steps of the runner change no row. *)
LEMMA WalkersKeepFlags ==
    ASSUME FilesInv, FlagInv, UNCHANGED <<users, brought>>, NEW r \in Runners,
           \/ ReadDirectory(r) \/ ReadLedger(r) \/ Skip(r) \/ ApplyFails(r)
           \/ Record(r) \/ RecordDuplicate(r) \/ Finish(r) \/ Interrupt(r)
    PROVE  FlagInv'
<1>0. /\ runner \in [Runners -> Runner] /\ runner[r] \in Runner /\ Begun(r)
  BY DEF FilesInv, FilesTypeOK, FlagInv
<1>1. \A q \in Runners \ {r} : runner'[q] = runner[q]
  BY <1>0 DEF ReadDirectory, ReadLedger, Skip, ApplyFails, Record, RecordDuplicate,
              Finish, Interrupt, Fail
<1>2. \A q \in Runners \ {r} : Begun(q)' /\ Copied(q)'
  BY <1>1 DEF FlagInv, Begun, Copied, InFile, LeftOut, FileOf
<1>3. Begun(r)' /\ (runner'[r].stmt = 1 \/ runner'[r].pc # "applying")
  <2>1. CASE ReadDirectory(r)
    <3>1. runner'[r].stmt = runner[r].stmt
      BY <1>0, <2>1 DEF ReadDirectory, Runner
    <3>2. runner[r].stmt = 1
      BY <1>0, <2>1 DEF ReadDirectory, Begun
    <3> QED
      BY <3>1, <3>2 DEF Begun
  <2>2. CASE ReadLedger(r)
    <3>1. runner'[r].stmt = runner[r].stmt
      BY <1>0, <2>2 DEF ReadLedger, Runner
    <3>2. runner[r].stmt = 1
      BY <1>0, <2>2 DEF ReadLedger, Begun
    <3> QED
      BY <3>1, <3>2 DEF Begun
  <2>3. CASE Skip(r)
    <3>1. runner'[r].stmt = runner[r].stmt
      BY <1>0, <2>3 DEF Skip, Runner
    <3>2. runner[r].stmt = 1
      BY <1>0, <2>3 DEF Skip, Begun, InFile
    <3> QED
      BY <3>1, <3>2 DEF Begun
  <2>4. CASE Record(r)
    <3>1. runner'[r].stmt = 1
      BY <1>0, <2>4 DEF Record, Runner
    <3> QED
      BY <3>1 DEF Begun
  <2>5. CASE ApplyFails(r) \/ RecordDuplicate(r) \/ Finish(r) \/ Interrupt(r)
    <3>1. PICK pc \in {"failed", "done", "interrupted"} :
            runner' = [runner EXCEPT ![r].pc = pc]
      BY <2>5 DEF ApplyFails, RecordDuplicate, Finish, Interrupt, Fail
    <3>2. runner'[r].pc = pc
      BY <1>0, <3>1 DEF Runner
    <3> QED
      BY <3>2 DEF Begun
  <2> QED
    BY <2>1, <2>2, <2>3, <2>4, <2>5
<1>4. Copied(r)'
  <2> SUFFICES ASSUME InFile(r)' PROVE Copied(r)'
    BY DEF Copied
  <2>1. runner'[r].stmt = 1
    BY <1>3 DEF InFile
  <2>2. Content[FileOf(r)'] \in Seq(Statement)
    <3>1. FilesInv'
      BY RunnerKeeps
    <3>2. runner'[r] \in Runner
      BY <3>1 DEF FilesInv, FilesTypeOK
    <3>3. runner'[r].file \in Indices
      BY <3>2, FilesCount DEF InFile, Runner
    <3> QED
      BY <3>3, DirectoryIsIndexed DEF FileOf
  <2>3. \A j \in DOMAIN Content[FileOf(r)'] : ~(j < 1)
    BY <2>2
  <2> QED
    BY <2>1, <2>3 DEF Copied
<1>5. brought' \subseteq DOMAIN users' /\ NoLostVerification'
  BY DEF FlagInv, NoLostVerification
<1> QED
  BY <1>2, <1>3, <1>4, <1>5 DEF FlagInv

LEMMA FlagStep ==
    ASSUME CopiedBeforeDropped, FilesInv, ImportInv, FlagInv, [Next]_vars
    PROVE  FlagInv'
<1>0. AccountsInv /\ script.row \in Rows
  BY DEF ImportInv, ScriptTypeOK, Script
<1>1. CASE FilesNext /\ UNCHANGED <<link, script, imports, abandoned, brought>>
  <2>1. CASE \E r \in Runners : Apply(r)
    BY <1>0, <1>1, <2>1, ApplyKeepsFlags
  <2>2. CASE \E r \in Runners :
               \/ ReadDirectory(r) \/ ReadLedger(r) \/ Skip(r) \/ ApplyFails(r)
               \/ Record(r) \/ RecordDuplicate(r) \/ Finish(r) \/ Interrupt(r)
    <3>1. UNCHANGED <<users, brought>>
      BY <1>1, <2>2 DEF ReadDirectory, ReadLedger, Skip, ApplyFails, Record,
           RecordDuplicate, Finish, Interrupt, Fail
    <3> QED
      BY <2>2, <3>1, WalkersKeepFlags
  <2>3. CASE Release
    BY <1>1, <2>3, RunnersAloneKeepFlags DEF Release
  <2> QED
    BY <1>1, <2>1, <2>2, <2>3 DEF FilesNext
<1>2. CASE InsertAccount
  <2>1. [email |-> Source[script.row].email, uuid |-> FALSE,
         email_verified |-> TRUE, email_verified_at |-> FALSE] \in UserRow
    BY <1>0, SourceTyped DEF UserRow
  <2> QED
    BY <1>0, <1>2, <2>1, InsertKeepsFlags DEF InsertAccount, files
<1>3. CASE Register
  <2>1. PICK e \in Emails :
          Insert([email |-> e, uuid |-> TRUE, email_verified |-> FALSE,
                  email_verified_at |-> FALSE])
    BY <1>3 DEF Register
  <2>2. [email |-> e, uuid |-> TRUE, email_verified |-> FALSE,
         email_verified_at |-> FALSE] \in UserRow
    BY DEF UserRow
  <2> QED
    BY <1>0, <1>3, <2>1, <2>2, InsertKeepsFlags DEF Register, files
<1>4. CASE ChangeEmail
  <2>1. PICK a \in DOMAIN users, e \in Emails :
          /\ users' = [users EXCEPT ![a].email = e, ![a].email_verified_at = FALSE]
          /\ brought' = brought \ {a}
    BY <1>4 DEF ChangeEmail
  <2>2. \A b \in brought' : users'[b] = users[b]
    BY <2>1 DEF FlagInv
  <2> QED
    BY <1>4, <2>1, <2>2, RunnersAloneKeepFlags DEF ChangeEmail, files
<1>5. CASE UNCHANGED <<files, users, brought>>
  BY <1>5, RunnersAloneKeepFlags DEF files
<1>6. \/ FilesNext /\ UNCHANGED <<link, script, imports, abandoned, brought>>
      \/ InsertAccount \/ Register \/ ChangeEmail \/ UNCHANGED <<files, users, brought>>
  BY DEF Next, vars, StartImport, ReadTable, Look, LookFails, GiveUp, InsertFails,
         LinkRow, LinkFails, EndImport, CrashImport
<1> QED
  BY <1>1, <1>2, <1>3, <1>4, <1>5, <1>6

(* Every file that drops the old flag copies it first.  Then an account that *)
(* the import brought in while no migration was running stays verified,    *)
(* however many runners copy and drop afterwards, together, interrupted or *)
(* repeated (007_schema_to_spec.sql, INSERT of migrate-users.ts).          *)
THEOREM ImportsStayVerified ==
    ASSUME CopiedBeforeDropped
    PROVE  Spec => []NoLostVerification
<1>1. Init => FilesInv /\ ImportInv /\ FlagInv
  BY FilesInitInv, ImportInitInv, FlagInitInv DEF Init
<1>2. FilesInv /\ ImportInv /\ FlagInv /\ [Next]_vars => FilesInv' /\ ImportInv' /\ FlagInv'
  BY OnlyTheRunnerMoves, FilesStep, ImportStep, FlagStep
<1>3. FlagInv => NoLostVerification
  BY DEF FlagInv
<1> QED
  BY <1>1, <1>2, <1>3, PTL DEF Spec
-----------------------------------------------------------------------------
(* The schema, the ledger and the runs that fail. *)

LEMMA ImportKeepsUuids ==
    ASSUME AccountsInv, [Next]_vars, UNCHANGED files
    PROVE  FilesNext \/ UuidsStay
<1>1. CASE users' = users
  BY <1>1 DEF UuidsStay
<1>2. ASSUME NEW row, Insert(row) PROVE UuidsStay
  <2>1. \A a \in DOMAIN users : a \in DOMAIN users' /\ users'[a] = users[a]
    BY <1>2, NextIdIsNew DEF Insert, AccountsInv
  <2> QED
    BY <2>1 DEF UuidsStay
<1>3. CASE ChangeEmail
  <2>1. PICK a \in DOMAIN users, e \in Emails :
          users' = [users EXCEPT ![a].email = e, ![a].email_verified_at = FALSE]
    BY <1>3 DEF ChangeEmail
  <2>2. users[a] \in UserRow
    BY DEF AccountsInv, UsersTypeOK
  <2>3. [users[a] EXCEPT !.email = e, !.email_verified_at = FALSE].uuid = users[a].uuid
    BY <2>2 DEF UserRow
  <2>4. /\ DOMAIN users' = DOMAIN users
        /\ users'[a] = [users[a] EXCEPT !.email = e, !.email_verified_at = FALSE]
        /\ \A b \in DOMAIN users : b # a => users'[b] = users[b]
    BY <2>1
  <2> QED
    BY <2>3, <2>4 DEF UuidsStay
<1>4. FilesNext \/ users' = users \/ InsertAccount \/ Register \/ ChangeEmail
  BY DEF Next, vars, StartImport, ReadTable, Look, LookFails, GiveUp, InsertFails,
         LinkRow, LinkFails, EndImport, CrashImport
<1>5. InsertAccount => \E row : Insert(row)
  BY DEF InsertAccount
<1>6. Register => \E row : Insert(row)
  BY DEF Register
<1> QED
  BY <1>1, <1>2, <1>3, <1>4, <1>5, <1>6

LEMMA OverlapStays ==
    ASSUME FilesInv, FilesNext \/ UNCHANGED files, ~overlapped'
    PROVE  ~overlapped
  BY DEF FilesInv, FilesTypeOK, FilesNext, files, ReadDirectory, ReadLedger, Skip, Apply,
         ApplyFails, Record, RecordDuplicate, Finish, Interrupt, Release, Fail

(* Until two runs are at work at once. *)
SchemaInv == WorkInv /\ (~overlapped => FreshInv)

LEMMA SchemaKept ==
    ASSUME RepeatsChangeNothing, UnrepeatablesFail
    PROVE  Spec => []SchemaInv
<1>1. Init => SchemaInv
  BY WorkInit DEF Init, SchemaInv
<1>2. SchemaInv /\ [Next]_vars => SchemaInv'
  <2> SUFFICES ASSUME SchemaInv, [Next]_vars PROVE SchemaInv'
    OBVIOUS
  <2>1. WorkInv'
    BY OnlyTheRunnerMoves, WorkStep DEF SchemaInv
  <2>2. ASSUME ~overlapped' PROVE FreshInv'
    <3>1. ~overlapped
      BY <2>2, OnlyTheRunnerMoves, OverlapStays DEF SchemaInv, WorkInv
    <3> QED
      BY <2>2, <3>1, OnlyTheRunnerMoves, FreshStep DEF SchemaInv
  <2> QED
    BY <2>1, <2>2 DEF SchemaInv
<1> QED
  BY <1>1, <1>2, PTL DEF Spec

(* The statements of a file before the first that cannot be repeated may   *)
(* be executed any number of times, and one that cannot be repeated fails  *)
(* the second time.  Then, however often runs are interrupted, fail and    *)
(* are repeated one after another, the schema between them is what the     *)
(* files in the ledger make of an empty database, unless a file was begun  *)
(* and is not in the ledger (run.ts:34-37).                                *)
THEOREM LedgerDescribesSchema ==
    ASSUME RepeatsChangeNothing, UnrepeatablesFail
    PROVE  Spec => []LedgerTellsSchema
<1>1. SchemaInv => LedgerTellsSchema
  BY FreshTells DEF SchemaInv, LedgerTellsSchema, Settled
<1> QED
  BY <1>1, SchemaKept, PTL

(* If besides the files in their order make all that the service's         *)
(* statements name, it finds that whenever they are all in the ledger.     *)
THEOREM ServiceIsServed ==
    ASSUME RepeatsChangeNothing, UnrepeatablesFail, ServiceFitsTheFiles
    PROVE  Spec => []ServiceFindsItsSchema
<1>1. SchemaInv => ServiceFindsItsSchema
  BY CompleteSchema DEF SchemaInv, ServiceFindsItsSchema, Settled, Expected, ServiceFitsTheFiles
<1> QED
  BY <1>1, SchemaKept, PTL

(* If besides no file fails when it is applied once, after those before    *)
(* it, and the file that requires a uuid of every account fills it after   *)
(* a statement that cannot be repeated, then a run fails for no cause of   *)
(* its own: another has left the same file in the middle, or was at work   *)
(* at the same time, or accounts came in meanwhile ("safe to re-run",      *)
(* README.md:49).                                                          *)
THEOREM RunsAreRepeatable ==
    ASSUME RepeatsChangeNothing, UnrepeatablesFail, FirstRunsSucceed, UuidsAreFilledOnce
    PROVE  Spec => []RerunsAreSafe
<1> DEFINE ExcusedInv == ~overlapped => \A r \in Runners : Excused(r)
<1>1. Init => FilesInv /\ ImportInv /\ ExcusedInv
  <2>1. Init => ExcusedInv
    BY DEF Init, FilesInit, Excused
  <2> QED
    BY <2>1, FilesInitInv, ImportInitInv DEF Init
<1>2. SchemaInv /\ FilesInv /\ ImportInv /\ ExcusedInv /\ [Next]_vars
      => FilesInv' /\ ImportInv' /\ ExcusedInv'
  <2> SUFFICES ASSUME SchemaInv, FilesInv, ImportInv, ExcusedInv, [Next]_vars
               PROVE  FilesInv' /\ ImportInv' /\ ExcusedInv'
    OBVIOUS
  <2>1. FilesInv' /\ ImportInv'
    BY OnlyTheRunnerMoves, FilesStep, ImportStep
  <2>2. ASSUME ~overlapped' PROVE \A r \in Runners : Excused(r)'
    <3>1. ~overlapped
      BY <2>2, OnlyTheRunnerMoves, OverlapStays
    <3>2. AccountsInv /\ UsersTypeOK
      BY DEF ImportInv, AccountsInv
    <3>3. FilesNext \/ (UNCHANGED files /\ UuidsStay)
      BY <3>2, OnlyTheRunnerMoves, ImportKeepsUuids
    <3>4. WorkInv /\ FreshInv /\ \A r \in Runners : Excused(r)
      BY <3>1 DEF SchemaInv
    <3> HIDE DEF ExcusedInv
    <3> QED
      BY <2>2, <3>2, <3>3, <3>4, ExcusedStep
  <2> QED
    BY <2>1, <2>2
<1>3. ExcusedInv => RerunsAreSafe
  BY DEF Excused, UnrepeatableByAnother, UuidMissing, RerunsAreSafe
<1> QED
  <2>1. Spec => []SchemaInv
    BY SchemaKept
  <2> QED
    BY <1>1, <1>2, <1>3, <2>1, PTL DEF Spec
=============================================================================
