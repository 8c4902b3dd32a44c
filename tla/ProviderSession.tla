-------------------------- MODULE ProviderSession --------------------------
(***************************************************************************)
(* A run of the program of cmd/prion/main.go (interactiveSession and the   *)
(* run command) with the provider that internal/llm/factory.go makes for   *)
(* it and, when that is a native one, the llama-server process that        *)
(* internal/llm/native.go starts, waits for and shuts down. The commands   *)
(* of its tasks share the budget of ShellBudget.                           *)
(*                                                                         *)
(* The server processes, the other programs of the machine and the user    *)
(* are the environment: a server becomes healthy or never does, exits at   *)
(* any time, may ignore an interrupt but not a kill; another program may   *)
(* take the port that freePort has closed again; the user types anything   *)
(* and may kill the program.                                               *)
(***************************************************************************)
EXTENDS ShellBudget, Sequences

CONSTANTS
  MinPolls, MaxPolls,  \* health polls that fit into 60 s when each takes its
                       \* 2 s, and when each is refused at once
  Machines,            \* what the program may find installed and configured
  ProviderLists        \* the provider asked for, then the fallbacks

ASSUME SessionConstants ==
  /\ MinPolls \in Nat \ {0} /\ MaxPolls \in Nat /\ MinPolls <= MaxPolls
  /\ Machines \subseteq [model : BOOLEAN, server : BOOLEAN, baseURL : BOOLEAN,
                         apiKey : BOOLEAN, windows : BOOLEAN]
  /\ ProviderLists \subseteq Seq({"native", "local", "anthropic", "other"}) \ {<<>>}

VARIABLES
  machine,   \* model: FindModel finds the configured or the recommended one;
             \* server: a server binary is found; the configuration's fields
  mode,      \* "repl", or "once" for prion run with a task
  fallback,  \* whether NewProviderWithFallback chooses, or NewProvider
  asked,     \* the providers still to try, the current one first
  pc,
  provider,  \* the provider in use and its process (0: none)
  polls,     \* polls of the health wait in progress
  procs,     \* the server processes started, in that order
  dropped    \* processes of providers that the fallback has replaced

sessionVars == <<machine, mode, fallback, asked, pc, provider, polls, procs, dropped>>
vars == <<sessionVars, budgetVars>>

Labels == {"setup", "poll", "reap", "check", "prompt", "task", "interrupt",
           "select", "await", "exit", "killed"}
Process == [state : {"loading", "serving", "exited"},
            portTaken : BOOLEAN, interrupted : BOOLEAN, killed : BOOLEAN,
            waited : 0 .. 1]

NewProcess == [state |-> "loading", portTaken |-> FALSE,
               interrupted |-> FALSE, killed |-> FALSE, waited |-> 0]
NoProvider == [kind |-> "none", proc |-> 0]

\* The server process the program's current step is about.
Current == IF pc \in {"poll", "reap"} THEN Len(procs) ELSE provider.proc
Gone(i) == procs[i].state = "exited"

\* Whether a GET of the health endpoint may be answered with 200: by the server,
\* or by the program that has taken its port.
MayAnswer(p) == p.state = "serving" \/ p.portTaken

Init ==
  /\ machine \in Machines /\ mode \in {"repl", "once"}
  /\ fallback \in BOOLEAN /\ asked \in ProviderLists
  /\ ~fallback => Len(asked) = 1
  /\ pc = "setup" /\ provider = NoProvider /\ polls = 0
  /\ procs = <<>> /\ dropped = {}
  /\ BudgetInit

-----------------------------------------------------------------------------
(***************************************************************************)
(* NewProvider, newNativeAutoDetect and NewProviderWithFallback            *)
(***************************************************************************)
Open == IF mode = "repl" THEN "prompt" ELSE "task"

\* The constructor returned a provider: the fallback asks whether it is available.
Created(kind, proc) ==
  /\ provider' = [kind |-> kind, proc |-> proc]
  /\ pc' = IF fallback THEN "check" ELSE Open
  /\ UNCHANGED asked

\* The constructor failed, or its provider is not available: the next is tried, if
\* there is one, or the program ends with the error.
NextProvider ==
  /\ asked' = Tail(asked)
  /\ pc' = IF Tail(asked) # <<>> THEN "setup" ELSE "exit"

\* The providers without a process are made without any check; "native" becomes a
\* local one only if no model is found, not if the server is missing.
MakeRemote ==
  /\ pc = "setup"
  /\ \/ Head(asked) \in {"local", "anthropic"} /\ Created(Head(asked), 0)
     \/ Head(asked) = "native" /\ ~machine.model /\ machine.baseURL
        /\ Created("local", 0)
  /\ UNCHANGED <<machine, mode, fallback, polls, procs, dropped, budgetVars>>

\* An unknown provider, no model and no base URL, no server binary; and any error
\* of freePort or cmd.Start.
MakeFails ==
  /\ pc = "setup"
  /\ \/ Head(asked) = "other"
     \/ Head(asked) = "native" /\ (machine.model \/ ~machine.baseURL)
  /\ NextProvider
  /\ UNCHANGED <<machine, mode, fallback, provider, polls, procs, dropped, budgetVars>>

StartServer ==
  /\ pc = "setup" /\ Head(asked) = "native" /\ machine.model /\ machine.server
  /\ procs' = Append(procs, NewProcess)
  /\ polls' = 0 /\ pc' = "poll"
  /\ UNCHANGED <<machine, mode, fallback, asked, provider, dropped, budgetVars>>

Drop == dropped' = dropped \cup ({provider.proc} \ {0})

\* Available: the health endpoint for a local or native provider, the key for the
\* other. A provider that fails the check is replaced and not shut down.
CheckAvailable(ok) ==
  /\ pc = "check"
  /\ provider.kind = "anthropic" => ok = machine.apiKey
  /\ provider.kind = "native" /\ ok => MayAnswer(procs[provider.proc])
  /\ IF ok
       THEN pc' = Open /\ UNCHANGED <<asked, provider, dropped>>
       ELSE NextProvider /\ provider' = NoProvider /\ Drop
  /\ UNCHANGED <<machine, mode, fallback, polls, procs, budgetVars>>

-----------------------------------------------------------------------------
(***************************************************************************)
(* waitForHealth, and what NewNativeProvider does when it fails            *)
(***************************************************************************)
\* Mutant: one poll is made after the deadline.
PollOnceMore == polls <= MaxPolls

MayPoll == polls < MaxPolls

PollAnswered ==
  /\ pc = "poll" /\ MayPoll
  /\ MayAnswer(procs[Current])
  /\ Created("native", Current)
  /\ UNCHANGED <<machine, mode, fallback, polls, procs, dropped, budgetVars>>

\* Refused, another status, or no answer within 2 s; then the sleep of 500 ms.
PollFails ==
  /\ pc = "poll" /\ MayPoll
  /\ polls' = polls + 1
  /\ UNCHANGED <<machine, mode, fallback, asked, pc, provider, procs, dropped, budgetVars>>

Killed(i) == procs' = [procs EXCEPT ![i].killed = TRUE]

\* Mutant: the server that never became healthy is waited for, but not killed.
OnlyWait == pc' = "reap" /\ UNCHANGED <<procs, asked>>

GiveUp == pc' = "reap" /\ Killed(Current) /\ UNCHANGED asked

DeadlinePasses ==
  /\ pc = "poll" /\ polls >= MinPolls
  /\ GiveUp
  /\ UNCHANGED <<machine, mode, fallback, provider, polls, dropped, budgetVars>>

\* The Wait of the constructor returns.
StartFailed ==
  /\ pc = "reap" /\ Gone(Current)
  /\ procs' = [procs EXCEPT ![Current].waited = @ + 1]
  /\ NextProvider
  /\ UNCHANGED <<machine, mode, fallback, provider, polls, dropped, budgetVars>>

-----------------------------------------------------------------------------
(***************************************************************************)
(* The session: the loop over the user's input, or the one task            *)
(***************************************************************************)
\* What the deferred shutdownProvider does: only a native provider is a Shutdowner.
Close == IF provider.kind = "native" THEN "interrupt" ELSE "exit"

\* The end of the input, /quit or /exit. An empty line and the other commands ask
\* for the next line; of these /reset clears the agent's history (AgentLoop).
Quit ==
  /\ pc = "prompt" /\ pc' = Close
  /\ UNCHANGED <<machine, mode, fallback, asked, provider, polls, procs, dropped,
                 budgetVars>>

\* A simple task goes to the agent, any other to the skeleton planner.
EnterTask ==
  /\ pc = "prompt" /\ pc' = "task"
  /\ UNCHANGED <<machine, mode, fallback, asked, provider, polls, procs, dropped,
                 budgetVars>>

UseShell == pc = "task" /\ ExecuteShell /\ UNCHANGED sessionVars

\* Its answer or its error is printed; prion run returns either.
EndTask ==
  /\ pc = "task"
  /\ pc' = IF mode = "repl" THEN "prompt" ELSE Close
  /\ UNCHANGED <<machine, mode, fallback, asked, provider, polls, procs, dropped,
                 budgetVars>>

-----------------------------------------------------------------------------
(***************************************************************************)
(* Shutdown: one call of it, the deferred one                              *)
(***************************************************************************)
\* A goroutine waits for the process; on Windows it is killed at once.
Interrupt ==
  /\ pc = "interrupt"
  /\ IF machine.windows
       THEN Killed(Current) /\ pc' = "await"
       ELSE procs' = [procs EXCEPT ![Current].interrupted = TRUE] /\ pc' = "select"
  /\ UNCHANGED <<machine, mode, fallback, asked, provider, polls, dropped, budgetVars>>

\* Mutant: at the end of the grace period the process is left to itself.
LeaveIt == pc' = "exit" /\ UNCHANGED procs

Insist == pc' = "await" /\ Killed(Current)

\* The timer of 5 s wins; the process may be gone all the same.
GraceEnds ==
  /\ pc = "select"
  /\ Insist
  /\ UNCHANGED <<machine, mode, fallback, asked, provider, polls, dropped, budgetVars>>

\* Wait has returned.
ServerGone ==
  /\ pc \in {"select", "await"} /\ Gone(Current)
  /\ procs' = [procs EXCEPT ![Current].waited = @ + 1]
  /\ pc' = "exit"
  /\ UNCHANGED <<machine, mode, fallback, asked, provider, polls, dropped, budgetVars>>

-----------------------------------------------------------------------------
(***************************************************************************)
(* The environment                                                         *)
(***************************************************************************)
\* The program dies without its deferred calls: of a signal (that of a terminal
\* goes to the servers as well) or at once.
KillProgram(terminal) ==
  /\ pc \notin {"exit", "killed"}
  /\ pc' = "killed"
  /\ procs' = IF terminal
                THEN [i \in DOMAIN procs |-> [procs[i] EXCEPT !.interrupted = TRUE]]
                ELSE procs
  /\ UNCHANGED <<machine, mode, fallback, asked, provider, polls, dropped, budgetVars>>

ServerListens(i) ==
  /\ procs[i].state = "loading" /\ ~procs[i].portTaken
  /\ procs' = [procs EXCEPT ![i].state = "serving"]
  /\ UNCHANGED <<machine, mode, fallback, asked, pc, provider, polls, dropped, budgetVars>>

OtherTakesPort(i) ==
  /\ procs[i].state # "serving" /\ ~procs[i].portTaken
  /\ procs' = [procs EXCEPT ![i].portTaken = TRUE]
  /\ UNCHANGED <<machine, mode, fallback, asked, pc, provider, polls, dropped, budgetVars>>

ServerExits(i) ==
  /\ ~Gone(i)
  /\ procs' = [procs EXCEPT ![i].state = "exited"]
  /\ UNCHANGED <<machine, mode, fallback, asked, pc, provider, polls, dropped, budgetVars>>

-----------------------------------------------------------------------------
ProgramStep ==
  \/ MakeRemote \/ MakeFails \/ StartServer
  \/ \E ok \in BOOLEAN : CheckAvailable(ok)
  \/ PollAnswered \/ PollFails \/ DeadlinePasses \/ StartFailed
  \/ EndTask
  \/ Interrupt \/ GraceEnds \/ ServerGone

Next ==
  \/ ProgramStep
  \/ Quit \/ EnterTask \/ UseShell
  \/ \E terminal \in BOOLEAN : KillProgram(terminal)
  \/ \E i \in DOMAIN procs : ServerListens(i) \/ OtherTakesPort(i) \/ ServerExits(i)

KilledServerExits(i) == procs[i].killed /\ ServerExits(i)

\* The program's own steps are taken: polls, timers and the client's timeouts come
\* by themselves and a task ends (AgentLoop's RunEnds, SkeletonSession's CallEnds).
\* A killed process exits; one that is interrupted, or let be, need not. The user
\* need not type, nor a task use the shell.
Spec ==
  /\ Init /\ [][Next]_vars
  /\ WF_vars(ProgramStep)
  /\ WF_vars(\E i \in DOMAIN procs : KilledServerExits(i))

-----------------------------------------------------------------------------
(***************************************************************************)
(* Properties                                                              *)
(***************************************************************************)
\* Every variable holds a value of its type; a process is waited for only when it
\* is gone, and once, as os/exec asks.
TypeOK ==
  /\ machine \in Machines /\ mode \in {"repl", "once"} /\ fallback \in BOOLEAN
  /\ asked \in Seq({"native", "local", "anthropic", "other"})
  /\ pc \in Labels
  /\ procs \in Seq(Process)
  /\ provider \in [kind : {"none", "native", "local", "anthropic"}, proc : 0 .. Len(procs)]
  /\ provider.kind = "native" <=> provider.proc # 0
  /\ polls \in 0 .. MaxPolls
  /\ dropped \subseteq DOMAIN procs
  /\ \A i \in DOMAIN procs : procs[i].waited = 1 => Gone(i)
  /\ BudgetTypeOK

\* While the program runs, every server process that has not been waited for is the
\* one being started, the one in use, or one that a fallback has replaced; and once
\* the program has returned from main only the last of these is left: neither a
\* failed start nor a shutdown whose timer races the exit of the process leaves one.
EveryServerHasAnOwner ==
  pc # "killed" =>
    \A i \in DOMAIN procs :
      \/ procs[i].waited = 1
      \/ i \in dropped
      \/ pc # "exit" /\ i = Current

\* The start of a server ends by the deadline, and a program whose task is over or
\* whose user quits ends, whatever the server does with the interrupt.
ProgramEnds ==
  /\ pc \in {"poll", "reap"} ~> pc \notin {"poll", "reap"}
  /\ (mode = "once" \/ pc = "interrupt") ~> pc \in {"exit", "killed"}

=============================================================================
