---------------------------- MODULE MCUserImport ----------------------------
(* The real files, a few rows of the applications, and several runs of     *)
(* both commands.                                                          *)
EXTENDS UserImport, Schema, TLC

CONSTANTS e1, e2, customer, provider, vendor,
          MaxMoves           \* bound on the addresses given up

MCContent == Files
MCDirectory == Names
MCThings == AllThings
MCNeeds == NamedByService
MCAccountIds == 1..3
MCSource == [x \in {customer, provider, vendor} |->
    CASE x = customer -> [table |-> "helou.users", email |-> e1]
      [] x = provider -> [table |-> "helou.providers", email |-> e1]
      [] x = vendor   -> [table |-> "seffro_db.vendors", email |-> e2]]

(* What the theorems about the schema assume is true of the nine files. *)
ASSUME FilesAssumption ==
    /\ RepeatsChangeNothing /\ UnrepeatablesFail
    /\ FirstRunsSucceed /\ UuidsAreFilledOnce /\ ServiceFitsTheFiles

(* A behaviour stays within one of these scenarios. *)
Count(pc) == Cardinality({r \in Runners : runner[r].pc = pc})

(* No release comes while a runner is at work. *)
Steady == \A r \in Runners : AtWork(r) => runner[r].count = released

(* Three runs of the migrations, one after the other. *)
Rerunning == Steady /\ imports = 0 /\ ~overlapped /\ DOMAIN users = {}

(* Two runners at once. *)
Overlapping == imports = 0 /\ DOMAIN users = {} /\ Count("idle") >= 1

(* An import while a runner is at work, or after it was interrupted. *)
Together ==
    /\ Steady /\ imports <= 1 /\ ~overlapped /\ Count("idle") >= 1 /\ Count("interrupted") <= 1
    /\ \A e \in Emails : abandoned[e] = {}

(* Imports before, between and after the runs, and the service. *)
Apart ==
    /\ Steady /\ ~overlapped /\ Count("idle") >= 1 /\ Count("interrupted") = 0
    /\ script.pc # "off" => NobodyAtWork
    /\ Cardinality({m \in Emails \X AccountIds : m[2] \in abandoned[m[1]]}) <= MaxMoves

DeployScenarios == Rerunning \/ Overlapping \/ Together \/ Apart

Symmetry == Permutations(Runners)
=============================================================================
