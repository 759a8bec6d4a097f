------------------------------ MODULE MCServer ------------------------------
(***************************************************************************)
(* Five parts of a server that share no state: the mount of a plugin, the  *)
(* directory of sessions, the transitions of a session, the receipts of    *)
(* requests and the budget of heavy jobs.  One behaviour exercises one of  *)
(* them, chosen at the start, while the others rest in their initial       *)
(* states, where nothing that is promised fairness is enabled.             *)
(***************************************************************************)
EXTENDS PluginLifecycle, SessionDirectory, TransitionCoordinator, RequestReceipts,
        ExecutionBudget, TLC

CONSTANTS
  r1, r2, r3,      \* registrations: a first, a last and one in between
  s1, s2,          \* sessions
  q1, q2,          \* requests to the directory
  t1, t2, t3,      \* transitions, the third one live
  d1, d2, d3,      \* attempts to deliver a request
  h1, h2,          \* processes with a budget
  j1, j2, j3       \* heavy jobs, two of them of one process

VARIABLE part

serverVars == <<vars, directoryVars, transitionVars, receiptVars, budgetVars, part>>

OperationIds == (t1 :> 1) @@ (t2 :> 2) @@ (t3 :> 1)
Targets == (t1 :> [axis |-> "profile", value |-> 1]) @@ (t2 :> [axis |-> "domains", value |-> 1])
             @@ (t3 :> [axis |-> "live", value |-> 0])
InitialSelection == [profile |-> 0, domains |-> 0]

\* Three attempts at one address, one of them with another text.
AddressOf == [d \in Attempts |-> "a"]
ContentOf == (d1 :> "c") @@ (d2 :> "c") @@ (d3 :> "d")

OwnerOf == (j1 :> h1) @@ (j2 :> h1) @@ (j3 :> h2)
LimitOf == (h1 :> 2) @@ (h2 :> 1)

\* Sessions and requests are interchangeable: s1 is on record whenever s2 is, and
\* q1 is made first.
FirstOnRecord == s2 \in listed => s1 \in listed
FirstAsked == pc'[q2] # "idle" => pc'[q1] # "idle"

\* Bound: at most one transition is cancelled.
OneCancelled == Cardinality(cancelled') <= 1

ServerInit ==
  /\ Init /\ DirectoryInit /\ TransitionInit /\ ReceiptsInit /\ BudgetInit
  /\ part \in {"plugin", "directory", "transitions", "receipts", "budget"}
  /\ IF part = "directory" THEN FirstOnRecord ELSE listed = {}

ServerNext ==
  /\ UNCHANGED part
  /\ \/ /\ part = "plugin" /\ Next
        /\ UNCHANGED <<directoryVars, transitionVars, receiptVars, budgetVars>>
     \/ /\ part = "directory" /\ DirectoryNext /\ FirstAsked
        /\ UNCHANGED <<vars, transitionVars, receiptVars, budgetVars>>
     \/ /\ part = "transitions" /\ TransitionNext /\ OneCancelled
        /\ UNCHANGED <<vars, directoryVars, receiptVars, budgetVars>>
     \/ /\ part = "receipts" /\ ReceiptsNext
        /\ UNCHANGED <<vars, directoryVars, transitionVars, budgetVars>>
     \/ /\ part = "budget" /\ BudgetNext
        /\ UNCHANGED <<vars, directoryVars, transitionVars, receiptVars>>

ServerSpec ==
  /\ ServerInit /\ [][ServerNext]_serverVars
  /\ WF_vars(StartupStep) /\ WF_vars(DisposalStep) /\ WF_vars(MountStep)
  /\ DirectoryFair /\ TransitionFair /\ BudgetFair
=============================================================================
