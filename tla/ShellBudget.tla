---------------------------- MODULE ShellBudget ----------------------------
(***************************************************************************)
(* The execution budget of internal/tools/shell.go: ShellTool.Execute, and *)
(* the ExecutionBudget that all commands of a program's run share. Whether *)
(* a command is text the tool accepts, and how a command ends, is the      *)
(* environment's choice; its duration is any of Durations, since the       *)
(* timeout is an argument the model chooses and a command's children may   *)
(* keep its output open beyond it.                                         *)
(***************************************************************************)
EXTENDS Integers

CONSTANTS
  Limit,     \* the budget, NewExecutionBudget(300 s)
  Durations  \* how long a command may run

ASSUME BudgetConstants == Limit \in Nat \ {0} /\ Durations \subseteq Nat

VARIABLES
  consumed,    \* ExecutionBudget.consumed
  lastCommand, \* duration of the command that ran last (an observer's)
  shellReply   \* how the last call of the tool ended

budgetVars == <<consumed, lastCommand, shellReply>>

Replies == {"none", "refused", "exhausted", "ok", "failed", "exceeded"}

BudgetInit == consumed = 0 /\ lastCommand = 0 /\ shellReply = "none"

Remaining == IF Limit - consumed < 0 THEN 0 ELSE Limit - consumed

\* Mutant: only a budget that is overrun stops a command, not one that is used up.
OverrunOnly == consumed > Limit

Exhausted == Remaining <= 0

\* No command in the arguments, metacharacters, a denied or dangerous command:
\* refused before the budget is looked at. An empty command is refused after.
RefuseCommand ==
  /\ shellReply' = "refused"
  /\ UNCHANGED <<consumed, lastCommand>>

RefuseExhausted ==
  /\ Exhausted
  /\ shellReply' = "exhausted"
  /\ UNCHANGED <<consumed, lastCommand>>

\* The command runs to its end, is charged, and only then is the overrun noticed;
\* it hides whether the command failed or timed out.
RunCommand(d) ==
  /\ ~Exhausted
  /\ consumed' = consumed + d
  /\ lastCommand' = d
  /\ shellReply' \in IF consumed + d > Limit THEN {"exceeded"} ELSE {"ok", "failed"}

ExecuteShell ==
  RefuseCommand \/ RefuseExhausted \/ \E d \in Durations : RunCommand(d)

BudgetTypeOK ==
  /\ consumed \in Nat /\ lastCommand \in Nat
  /\ shellReply \in Replies

\* All the commands but the last one, in whatever tasks of the session they ran,
\* have left something of the budget: it is overrun by at most one command
\* (Remaining is checked before a command, Consume charges it afterwards).
OverrunIsOneCommand == consumed - lastCommand < Limit

=============================================================================
