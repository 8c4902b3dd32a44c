------------------------ MODULE ProviderSessionProofs ------------------------
(***************************************************************************)
(* Proofs about ProviderSession, for every budget, number of polls, set of *)
(* machines and list of providers: no server process is lost track of, and *)
(* the budget of the commands is overrun by one command at most.           *)
(***************************************************************************)
EXTENDS ProviderSession, SequenceTheorems, TLAPS

\* Where the program is, the provider it has, and the process this step is about.
Waited(i) == procs[i].waited
OwnerKnown ==
  /\ pc \in {"setup", "poll", "reap"} => provider = NoProvider
  /\ pc \in {"setup", "poll", "reap", "check"} => asked # <<>>
  /\ pc \in {"poll", "reap"} => procs # <<>>
  /\ pc \in {"interrupt", "select", "await"} => provider.proc # 0
  /\ pc \notin {"exit", "killed"} /\ Current # 0 => Waited(Current) = 0

Invariant == TypeOK /\ OwnerKnown /\ EveryServerHasAnOwner

\* q is p after a step that waits for none of its processes, and revives none.
Touched(p, q) ==
  /\ q \in Seq(Process) /\ Len(q) = Len(p) /\ DOMAIN q = DOMAIN p
  /\ \A i \in DOMAIN p : /\ q[i].waited = p[i].waited
                         /\ p[i].state = "exited" => q[i].state = "exited"

\* q is p after a step that has waited for the i-th process.
WaitedFor(p, q, i) ==
  /\ q \in Seq(Process) /\ Len(q) = Len(p) /\ DOMAIN q = DOMAIN p
  /\ q[i].waited = 1
  /\ \A j \in DOMAIN p : /\ j # i => q[j].waited = p[j].waited
                         /\ q[j].state = p[j].state

\* What replacing one process changes.
LEMMA Replaced ==
  ASSUME NEW p \in Seq(Process), NEW i \in DOMAIN p, NEW r \in Process
  PROVE  LET q == [p EXCEPT ![i] = r]
         IN  /\ q \in Seq(Process) /\ Len(q) = Len(p) /\ DOMAIN q = DOMAIN p
             /\ \A j \in DOMAIN p : q[j] = IF j = i THEN r ELSE p[j]
OBVIOUS

\* A step that changes one process and does not wait for it touches it.
LEMMA TouchOne ==
  ASSUME NEW p \in Seq(Process), NEW i \in DOMAIN p, NEW r \in Process,
         r.waited = p[i].waited, p[i].state = "exited" => r.state = "exited"
  PROVE  Touched(p, [p EXCEPT ![i] = r])
<1> DEFINE q == [p EXCEPT ![i] = r]
<1>1. /\ q \in Seq(Process) /\ Len(q) = Len(p) /\ DOMAIN q = DOMAIN p
      /\ \A j \in DOMAIN p : q[j] = IF j = i THEN r ELSE p[j]
  BY Replaced
<1> HIDE DEF q
<1>2. Touched(p, q)
  BY <1>1 DEF Touched
<1>. QED
  BY <1>2 DEF q

\* What the steps of a process, an interrupt and a kill do to the processes.
LEMMA Touches ==
  ASSUME TypeOK, NEW i \in DOMAIN procs
  PROVE  /\ Touched(procs, [procs EXCEPT ![i].killed = TRUE])
         /\ Touched(procs, [procs EXCEPT ![i].interrupted = TRUE])
         /\ Touched(procs, [procs EXCEPT ![i].portTaken = TRUE])
         /\ Touched(procs, [procs EXCEPT ![i].state = "exited"])
         /\ ~Gone(i) => Touched(procs, [procs EXCEPT ![i].state = "serving"])
<1>1. procs \in Seq(Process) /\ procs[i] \in Process
  BY DEF TypeOK
<1>2. /\ [procs[i] EXCEPT !.killed = TRUE] \in Process
      /\ [procs[i] EXCEPT !.interrupted = TRUE] \in Process
      /\ [procs[i] EXCEPT !.portTaken = TRUE] \in Process
      /\ [procs[i] EXCEPT !.state = "exited"] \in Process
      /\ [procs[i] EXCEPT !.state = "serving"] \in Process
  BY <1>1 DEF Process
<1>3. /\ [procs[i] EXCEPT !.killed = TRUE].waited = procs[i].waited
      /\ [procs[i] EXCEPT !.interrupted = TRUE].waited = procs[i].waited
      /\ [procs[i] EXCEPT !.portTaken = TRUE].waited = procs[i].waited
      /\ [procs[i] EXCEPT !.state = "exited"].waited = procs[i].waited
      /\ [procs[i] EXCEPT !.state = "serving"].waited = procs[i].waited
      /\ [procs[i] EXCEPT !.killed = TRUE].state = procs[i].state
      /\ [procs[i] EXCEPT !.interrupted = TRUE].state = procs[i].state
      /\ [procs[i] EXCEPT !.portTaken = TRUE].state = procs[i].state
      /\ [procs[i] EXCEPT !.state = "exited"].state = "exited"
  BY <1>1 DEF Process
<1>4. Touched(procs, [procs EXCEPT ![i] = [procs[i] EXCEPT !.killed = TRUE]])
  BY <1>1, <1>2, <1>3, TouchOne
<1>5. Touched(procs, [procs EXCEPT ![i] = [procs[i] EXCEPT !.interrupted = TRUE]])
  BY <1>1, <1>2, <1>3, TouchOne
<1>6. Touched(procs, [procs EXCEPT ![i] = [procs[i] EXCEPT !.portTaken = TRUE]])
  BY <1>1, <1>2, <1>3, TouchOne
<1>7. Touched(procs, [procs EXCEPT ![i] = [procs[i] EXCEPT !.state = "exited"]])
  BY <1>1, <1>2, <1>3, TouchOne
<1>8. ASSUME ~Gone(i)
      PROVE  Touched(procs, [procs EXCEPT ![i] = [procs[i] EXCEPT !.state = "serving"]])
  BY <1>1, <1>2, <1>3, <1>8, TouchOne DEF Gone
<1>. QED
  BY <1>4, <1>5, <1>6, <1>7, <1>8

\* A first wait for a process waits for that one only.
LEMMA Waits ==
  ASSUME TypeOK, NEW i \in DOMAIN procs, Waited(i) = 0
  PROVE  WaitedFor(procs, [procs EXCEPT ![i].waited = @ + 1], i)
<1> DEFINE r == [procs[i] EXCEPT !.waited = 1]
           q == [procs EXCEPT ![i] = r]
<1>1. procs \in Seq(Process) /\ procs[i] \in Process
  BY DEF TypeOK
<1>2. r \in Process /\ r.waited = 1 /\ r.state = procs[i].state
  BY <1>1 DEF Process
<1>3. [procs EXCEPT ![i].waited = @ + 1] = q
  BY DEF Waited
<1> HIDE DEF r
<1>4. /\ q \in Seq(Process) /\ Len(q) = Len(procs) /\ DOMAIN q = DOMAIN procs
      /\ \A j \in DOMAIN procs : q[j] = IF j = i THEN r ELSE procs[j]
  BY <1>1, <1>2, Replaced
<1> HIDE DEF q
<1>5. WaitedFor(procs, q, i)
  BY <1>2, <1>4 DEF WaitedFor
<1>. QED
  BY <1>3, <1>5

\* An interrupt from the terminal touches every process.
LEMMA InterruptAll ==
  ASSUME TypeOK
  PROVE  Touched(procs, [i \in DOMAIN procs |-> [procs[i] EXCEPT !.interrupted = TRUE]])
<1> DEFINE q == [i \in DOMAIN procs |-> [procs[i] EXCEPT !.interrupted = TRUE]]
<1>1. procs \in Seq(Process)
  BY DEF TypeOK
<1>2. \A i \in DOMAIN procs : /\ q[i] \in Process /\ q[i].waited = procs[i].waited
                              /\ q[i].state = procs[i].state
  <2>1. TAKE i \in DOMAIN procs
  <2>2. procs[i] \in Process
    BY <1>1
  <2>3. q[i] = [procs[i] EXCEPT !.interrupted = TRUE]
    OBVIOUS
  <2>. QED
    BY <2>2, <2>3 DEF Process
<1>3. DOMAIN q = 1 .. Len(procs) /\ Len(procs) \in Nat /\ DOMAIN procs = 1 .. Len(procs)
  BY <1>1
<1> HIDE DEF q
<1>4. q \in Seq(Process) /\ Len(q) = Len(procs)
  <2>1. q \in [1 .. Len(procs) -> Process]
    <3>1. \A i \in 1 .. Len(procs) : q[i] \in Process
      BY <1>2, <1>3
    <3>2. q = [i \in DOMAIN q |-> q[i]]
      BY DEF q
    <3>. QED
      BY <1>3, <3>1, <3>2
  <2>. QED
    BY <1>3, <2>1
<1>5. Touched(procs, q)
  BY <1>2, <1>3, <1>4 DEF Touched
<1>. QED
  BY <1>5 DEF q

-----------------------------------------------------------------------------
(***************************************************************************)
(* The steps, by what they change                                          *)
(***************************************************************************)
Kinds == {"native", "local", "anthropic", "other"}

\* The program goes on with the same process, or ends without one.
LEMMA Keeps ==
  ASSUME Invariant, Touched(procs, procs'),
         UNCHANGED <<machine, mode, fallback, provider, dropped>>,
         asked' \in Seq(Kinds), polls' \in 0 .. MaxPolls, pc' \in Labels, BudgetTypeOK',
         pc = "killed" => pc' = "killed",
         pc' = "exit" => pc = "exit" \/ Current = 0,
         pc' \notin {"exit", "killed"} => pc # "exit" /\ Current' = Current,
         pc' \in {"setup", "poll", "reap"} => provider = NoProvider,
         pc' \in {"setup", "poll", "reap", "check"} => asked' # <<>>,
         pc' \in {"poll", "reap"} => procs' # <<>>,
         pc' \in {"interrupt", "select", "await"} => provider.proc # 0
  PROVE  Invariant'
<1>1. /\ procs \in Seq(Process) /\ procs' \in Seq(Process) /\ Len(procs') = Len(procs)
      /\ DOMAIN procs' = DOMAIN procs
      /\ \A i \in DOMAIN procs : /\ procs'[i].waited = procs[i].waited
                                 /\ Gone(i) => procs'[i].state = "exited"
  BY DEF Touched, Invariant, TypeOK, Gone
<1>2. TypeOK'
  BY <1>1 DEF Invariant, TypeOK, Kinds, Gone
<1>3. Current \in 0 .. Len(procs)
  BY <1>1 DEF Invariant, TypeOK, Current
<1>4. ASSUME pc' \notin {"exit", "killed"}, Current' # 0 PROVE Waited(Current)' = 0
  <2>1. Current' = Current /\ pc \notin {"exit", "killed"} /\ Current \in DOMAIN procs
    BY <1>1, <1>3, <1>4
  <2>2. procs[Current].waited = 0
    BY <1>4, <2>1 DEF Invariant, OwnerKnown, Waited
  <2>. QED
    BY <1>1, <2>1, <2>2 DEF Waited
<1>5. OwnerKnown'
  BY <1>4 DEF OwnerKnown
<1>6. ASSUME pc' # "killed", NEW i \in DOMAIN procs'
      PROVE  procs'[i].waited = 1 \/ i \in dropped' \/ (pc' # "exit" /\ i = Current')
  <2>1. procs[i].waited = 1 \/ i \in dropped \/ (pc # "exit" /\ i = Current)
    BY <1>1, <1>6 DEF Invariant, EveryServerHasAnOwner
  <2>2. i # 0
    BY <1>1, <1>6
  <2>. QED
    BY <1>1, <1>6, <2>1, <2>2
<1>7. EveryServerHasAnOwner'
  BY <1>6 DEF EveryServerHasAnOwner
<1>. QED
  BY <1>2, <1>5, <1>7 DEF Invariant

\* A step that leaves the processes alone touches them trivially.
LEMMA SameProcesses == ASSUME TypeOK, procs' = procs PROVE Touched(procs, procs')
BY DEF TypeOK, Touched

\* A constructor has returned a provider whose process is the current one.
LEMMA CreatedKeeps ==
  ASSUME Invariant, pc \in {"setup", "poll"},
         NEW kind \in {"native", "local", "anthropic"}, NEW n \in 0 .. Len(procs),
         kind = "native" <=> n # 0, n = Current, Created(kind, n),
         UNCHANGED <<machine, mode, fallback, polls, procs, dropped, budgetVars>>
  PROVE  Invariant'
<1>1. /\ provider' = [kind |-> kind, proc |-> n] /\ asked' = asked /\ asked # <<>>
      /\ pc' \in {"check", "prompt", "task"}
  BY DEF Created, Open, Invariant, OwnerKnown
<1>2. Current' = n
  BY <1>1 DEF Current
<1>3. TypeOK'
  BY <1>1 DEF Invariant, TypeOK, BudgetTypeOK, budgetVars, Labels, Gone
<1>4. OwnerKnown'
  BY <1>1, <1>2 DEF Invariant, OwnerKnown, Waited
<1>5. EveryServerHasAnOwner'
  BY <1>1, <1>2 DEF Invariant, EveryServerHasAnOwner
<1>. QED
  BY <1>3, <1>4, <1>5 DEF Invariant

\* The current process, which is gone, has been waited for.
LEMMA WaitedKeeps ==
  ASSUME Invariant, pc \in {"reap", "select", "await"}, Gone(Current),
         Current \in DOMAIN procs, WaitedFor(procs, procs', Current),
         UNCHANGED <<machine, mode, fallback, provider, polls, dropped, budgetVars>>,
         asked' \in Seq(Kinds),
         \/ pc' = "exit"
         \/ pc' = "setup" /\ asked' # <<>> /\ provider = NoProvider
  PROVE  Invariant'
<1>1. /\ procs' \in Seq(Process) /\ Len(procs') = Len(procs)
      /\ DOMAIN procs' = DOMAIN procs /\ procs'[Current].waited = 1
      /\ \A j \in DOMAIN procs : /\ j # Current => procs'[j].waited = procs[j].waited
                                 /\ procs'[j].state = procs[j].state
  BY DEF WaitedFor
<1>2. ASSUME NEW i \in DOMAIN procs', procs'[i].waited = 1 PROVE procs'[i].state = "exited"
  BY <1>1, <1>2 DEF Invariant, TypeOK, Gone
<1>3. TypeOK'
  BY <1>1, <1>2 DEF Invariant, TypeOK, BudgetTypeOK, budgetVars, Labels, Gone, Kinds
<1>4. OwnerKnown'
  BY DEF OwnerKnown, Current, NoProvider
<1>5. ASSUME NEW i \in DOMAIN procs' PROVE procs'[i].waited = 1 \/ i \in dropped'
  <2>1. CASE i = Current
    BY <1>1, <2>1
  <2>2. CASE i # Current
    BY <1>1, <2>2 DEF Invariant, EveryServerHasAnOwner
  <2>. QED
    BY <2>1, <2>2
<1>6. EveryServerHasAnOwner'
  BY <1>5 DEF EveryServerHasAnOwner
<1>. QED
  BY <1>3, <1>4, <1>6 DEF Invariant

-----------------------------------------------------------------------------
\* The commands' budget keeps its type.
LEMMA BudgetStep == ASSUME BudgetTypeOK, ExecuteShell PROVE BudgetTypeOK'
BY BudgetConstants
DEF BudgetTypeOK, ExecuteShell, RefuseCommand, RefuseExhausted, RunCommand, Replies

\* The inductive invariant of a session (the factory of providers, the native
\* server and its shutdown, and the shell budget).
LEMMA InvariantHolds == Spec => []Invariant
<1>1. Init => Invariant
  <2> SUFFICES ASSUME Init PROVE Invariant
    OBVIOUS
  <2>1. asked \in Seq(Kinds) /\ asked # <<>>
    BY SessionConstants DEF Init, Kinds
  <2>2. procs = <<>> /\ procs \in Seq(Process) /\ DOMAIN procs = {} /\ Len(procs) = 0
    BY EmptySeq DEF Init
  <2>3. polls \in 0 .. MaxPolls
    BY SessionConstants DEF Init
  <2>4. TypeOK
    BY <2>1, <2>2, <2>3
    DEF Init, TypeOK, Kinds, Labels, NoProvider, BudgetInit, BudgetTypeOK, Replies
  <2>5. OwnerKnown
    BY <2>1 DEF Init, OwnerKnown, Current, NoProvider
  <2>. QED
    BY <2>2, <2>4, <2>5 DEF Invariant, EveryServerHasAnOwner
<1>2. Invariant /\ [Next]_vars => Invariant'
  <2> SUFFICES ASSUME Invariant, [Next]_vars PROVE Invariant'
    OBVIOUS
  <2>0. /\ TypeOK /\ OwnerKnown /\ BudgetTypeOK /\ asked \in Seq(Kinds)
        /\ polls \in 0 .. MaxPolls /\ pc \in Labels /\ procs \in Seq(Process)
        /\ (asked # <<>> => Tail(asked) \in Seq(Kinds))
    <3>1. asked \in Seq(Kinds)
      BY DEF Invariant, TypeOK, Kinds
    <3>. QED
      BY <3>1 DEF Invariant, TypeOK
  <2>b. (UNCHANGED budgetVars) => BudgetTypeOK'
    BY <2>0 DEF BudgetTypeOK, budgetVars
  <2>c. pc \in {"poll", "reap", "interrupt", "select", "await"}
          => Current \in DOMAIN procs /\ Waited(Current) = 0 /\ Current # 0
    BY <2>0, EmptySeq DEF OwnerKnown, TypeOK, Current
  <2>1. CASE MakeRemote
    <3>1. PICK kind \in {"local", "anthropic"} : Created(kind, 0)
      BY <2>1 DEF MakeRemote
    <3>2. Current = 0 /\ 0 \in 0 .. Len(procs)
      BY <2>0, <2>1 DEF MakeRemote, OwnerKnown, Current, NoProvider
    <3>. QED
      BY <2>1, <3>1, <3>2, CreatedKeeps DEF MakeRemote
  <2>2. CASE MakeFails
    <3>1. /\ pc = "setup" /\ asked # <<>> /\ provider = NoProvider /\ Current = 0
          /\ asked' = Tail(asked) /\ pc' \in {"setup", "exit"}
          /\ (pc' = "setup" => asked' # <<>> /\ Current' = 0)
      BY <2>0, <2>2 DEF MakeFails, NextProvider, OwnerKnown, Current, NoProvider
    <3>2. UNCHANGED <<machine, mode, fallback, provider, polls, procs, dropped, budgetVars>>
      BY <2>2 DEF MakeFails
    <3>. QED
      BY <2>0, <2>b, <3>1, <3>2, Keeps, SameProcesses DEF Labels
  <2>3. CASE StartServer
    <3>1. /\ pc = "setup" /\ provider = NoProvider /\ asked # <<>> /\ Current = 0
          /\ procs' = Append(procs, NewProcess) /\ polls' = 0 /\ pc' = "poll"
          /\ UNCHANGED <<machine, mode, fallback, asked, provider, dropped, budgetVars>>
      BY <2>0, <2>3 DEF StartServer, OwnerKnown, Current, NoProvider
    <3>2. NewProcess \in Process /\ NewProcess.waited = 0
      BY DEF NewProcess, Process
    <3> HIDE DEF NewProcess
    <3>3. /\ procs' \in Seq(Process) /\ Len(procs) \in Nat /\ Len(procs') = Len(procs) + 1
          /\ DOMAIN procs = 1 .. Len(procs) /\ DOMAIN procs' = 1 .. Len(procs) + 1
          /\ procs'[Len(procs) + 1] = NewProcess
          /\ \A i \in 1 .. Len(procs) : procs'[i] = procs[i]
      BY <2>0, <3>1, <3>2
    <3>4. Current' = Len(procs) + 1
      BY <3>1, <3>3 DEF Current
    <3>5. ASSUME NEW i \in DOMAIN procs', procs'[i].waited = 1
          PROVE  procs'[i].state = "exited"
      BY <2>0, <3>2, <3>3, <3>5 DEF TypeOK, Gone
    <3>6. polls' \in 0 .. MaxPolls /\ BudgetTypeOK'
      BY <2>b, <3>1, SessionConstants
    <3>7. TypeOK'
      BY <2>0, <3>1, <3>3, <3>5, <3>6 DEF TypeOK, Gone, Labels, NoProvider
    <3>8. OwnerKnown'
      BY <3>1, <3>2, <3>3, <3>4, EmptySeq DEF OwnerKnown, Waited
    <3>9. ASSUME NEW i \in DOMAIN procs'
          PROVE  procs'[i].waited = 1 \/ i \in dropped' \/ i = Current'
      BY <3>1, <3>3, <3>4, <3>9 DEF Invariant, EveryServerHasAnOwner
    <3>. QED
      BY <3>1, <3>7, <3>8, <3>9 DEF Invariant, EveryServerHasAnOwner
  <2>4. ASSUME NEW ok \in BOOLEAN, CheckAvailable(ok) PROVE Invariant'
    <3>1. pc = "check" /\ asked # <<>> /\ Current = provider.proc
          /\ UNCHANGED <<machine, mode, fallback, polls, procs, budgetVars>>
      BY <2>0, <2>4 DEF CheckAvailable, OwnerKnown, Current
    <3>2. CASE ok
      <4>1. pc' \in {"prompt", "task"} /\ UNCHANGED <<asked, provider, dropped>>
        BY <2>4, <3>2 DEF CheckAvailable, Open
      <4>2. Current' = Current
        BY <3>1, <4>1 DEF Current
      <4>. QED
        BY <2>0, <2>b, <3>1, <4>1, <4>2, Keeps, SameProcesses DEF Labels
    <3>3. CASE ~ok
      <4>1. /\ asked' = Tail(asked) /\ pc' \in {"setup", "exit"}
            /\ pc' = "setup" => asked' # <<>>
            /\ provider' = NoProvider /\ dropped' = dropped \cup ({provider.proc} \ {0})
        BY <2>4, <3>3 DEF CheckAvailable, NextProvider, Drop
      <4>2. provider.proc \in 0 .. Len(procs) /\ DOMAIN procs = 1 .. Len(procs)
        BY <2>0 DEF TypeOK
      <4>3. TypeOK'
        BY <2>0, <2>b, <3>1, <4>1, <4>2 DEF TypeOK, Gone, Labels, NoProvider, Kinds
      <4>4. OwnerKnown'
        BY <4>1 DEF OwnerKnown, Current, NoProvider
      <4>5. EveryServerHasAnOwner'
        BY <3>1, <4>1, <4>2 DEF Invariant, EveryServerHasAnOwner
      <4>. QED
        BY <4>3, <4>4, <4>5 DEF Invariant
    <3>. QED
      BY <3>2, <3>3
  <2>5. CASE PollAnswered
    <3>1. Current \in 0 .. Len(procs) /\ Current # 0
      BY <2>0, <2>5, <2>c DEF PollAnswered
    <3>. QED
      BY <2>5, <3>1, CreatedKeeps DEF PollAnswered
  <2>6. CASE PollFails
    <3>1. polls' \in 0 .. MaxPolls
      BY <2>0, <2>6, SessionConstants DEF PollFails, MayPoll
    <3>2. /\ pc = "poll" /\ pc' = pc /\ Current' = Current
          /\ UNCHANGED <<machine, mode, fallback, asked, provider, procs, dropped, budgetVars>>
      BY <2>6 DEF PollFails, Current
    <3>. QED
      BY <2>0, <2>b, <3>1, <3>2, Keeps, SameProcesses DEF OwnerKnown
  <2>7. CASE DeadlinePasses
    <3>1. /\ pc = "poll" /\ pc' = "reap" /\ procs' = [procs EXCEPT ![Current].killed = TRUE]
          /\ UNCHANGED <<machine, mode, fallback, asked, provider, polls, dropped, budgetVars>>
      BY <2>7 DEF DeadlinePasses, GiveUp, Killed
    <3>2. Touched(procs, procs')
      BY <2>0, <2>c, <3>1, Touches
    <3>3. Current' = Current /\ procs' # <<>>
      BY <2>0, <3>1, <3>2, EmptySeq DEF Current, Touched, OwnerKnown
    <3>. QED
      BY <2>0, <2>b, <3>1, <3>2, <3>3, Keeps DEF OwnerKnown, Labels
  <2>8. CASE StartFailed
    <3>1. /\ pc = "reap" /\ Gone(Current) /\ procs' = [procs EXCEPT ![Current].waited = @ + 1]
          /\ asked # <<>> /\ asked' = Tail(asked) /\ provider = NoProvider
          /\ pc' = "exit" \/ (pc' = "setup" /\ asked' # <<>>)
          /\ UNCHANGED <<machine, mode, fallback, provider, polls, dropped, budgetVars>>
      BY <2>0, <2>8 DEF StartFailed, NextProvider, OwnerKnown
    <3>2. WaitedFor(procs, procs', Current)
      BY <2>0, <2>c, <3>1, Waits
    <3>. QED
      BY <2>0, <2>c, <3>1, <3>2, WaitedKeeps
  <2>9. CASE Quit \/ EnterTask \/ EndTask
    <3>1. /\ pc \in {"prompt", "task"} /\ Current = provider.proc
          /\ pc' \in {"prompt", "task", "interrupt", "exit"}
          /\ pc' = "interrupt" => provider.kind = "native"
          /\ pc' = "exit" => provider.kind # "native"
          /\ UNCHANGED <<machine, mode, fallback, asked, provider, polls, procs, dropped,
                         budgetVars>>
      BY <2>9 DEF Quit, EnterTask, EndTask, Close, Current
    <3>2. provider.kind = "native" <=> provider.proc # 0
      BY <2>0 DEF TypeOK
    <3>3. Current' = Current
      BY <3>1 DEF Current
    <3>. QED
      BY <2>0, <2>b, <3>1, <3>2, <3>3, Keeps, SameProcesses DEF Labels
  <2>10. CASE UseShell
    <3>1. /\ pc = "task" /\ ExecuteShell /\ pc' = pc /\ Current' = Current
          /\ UNCHANGED <<machine, mode, fallback, asked, provider, polls, procs, dropped>>
      BY <2>10 DEF UseShell, sessionVars, Current
    <3>2. BudgetTypeOK'
      BY <2>0, <3>1, BudgetStep
    <3>. QED
      BY <2>0, <3>1, <3>2, Keeps, SameProcesses
  <2>11. CASE Interrupt
    <3>1. /\ pc = "interrupt" /\ pc' \in {"await", "select"}
          /\ \/ procs' = [procs EXCEPT ![Current].killed = TRUE]
             \/ procs' = [procs EXCEPT ![Current].interrupted = TRUE]
          /\ UNCHANGED <<machine, mode, fallback, asked, provider, polls, dropped, budgetVars>>
      BY <2>11 DEF Interrupt, Killed
    <3>2. Touched(procs, procs')
      BY <2>0, <2>c, <3>1, Touches
    <3>3. Current' = Current /\ provider.proc # 0
      BY <2>0, <3>1 DEF Current, OwnerKnown
    <3>. QED
      BY <2>0, <2>b, <3>1, <3>2, <3>3, Keeps DEF Labels
  <2>12. CASE GraceEnds
    <3>1. /\ pc = "select" /\ pc' = "await" /\ procs' = [procs EXCEPT ![Current].killed = TRUE]
          /\ UNCHANGED <<machine, mode, fallback, asked, provider, polls, dropped, budgetVars>>
      BY <2>12 DEF GraceEnds, Insist, Killed
    <3>2. Touched(procs, procs')
      BY <2>0, <2>c, <3>1, Touches
    <3>3. Current' = Current /\ provider.proc # 0
      BY <2>0, <3>1 DEF Current, OwnerKnown
    <3>. QED
      BY <2>0, <2>b, <3>1, <3>2, <3>3, Keeps DEF Labels
  <2>13. CASE ServerGone
    <3>1. /\ pc \in {"select", "await"} /\ Gone(Current) /\ pc' = "exit"
          /\ procs' = [procs EXCEPT ![Current].waited = @ + 1] /\ asked' = asked
          /\ UNCHANGED <<machine, mode, fallback, provider, polls, dropped, budgetVars>>
      BY <2>13 DEF ServerGone
    <3>2. WaitedFor(procs, procs', Current)
      BY <2>0, <2>c, <3>1, Waits
    <3>. QED
      BY <2>0, <2>c, <3>1, <3>2, WaitedKeeps
  <2>14. ASSUME NEW terminal \in BOOLEAN, KillProgram(terminal) PROVE Invariant'
    <3>1. /\ pc' = "killed"
          /\ UNCHANGED <<machine, mode, fallback, asked, provider, polls, dropped, budgetVars>>
      BY <2>14 DEF KillProgram
    <3>2. Touched(procs, procs')
      BY <2>0, <2>14, InterruptAll, SameProcesses DEF KillProgram
    <3>. QED
      BY <2>0, <2>b, <3>1, <3>2, Keeps DEF Labels
  <2>15. ASSUME NEW i \in DOMAIN procs, ServerListens(i) \/ OtherTakesPort(i) \/ ServerExits(i)
         PROVE  Invariant'
    <3>1. /\ pc' = pc
          /\ UNCHANGED <<machine, mode, fallback, asked, provider, polls, dropped, budgetVars>>
      BY <2>15 DEF ServerListens, OtherTakesPort, ServerExits
    <3>2. Touched(procs, procs')
      BY <2>0, <2>15, Touches DEF ServerListens, OtherTakesPort, ServerExits, Gone
    <3>3. Current' = Current /\ (procs # <<>> => procs' # <<>>)
      BY <2>0, <3>1, <3>2, EmptySeq DEF Current, Touched
    <3>. QED
      BY <2>0, <2>b, <3>1, <3>2, <3>3, Keeps DEF OwnerKnown
  <2>16. CASE UNCHANGED vars
    BY <2>16 DEF Invariant, TypeOK, OwnerKnown, EveryServerHasAnOwner, Current, Waited,
                 Gone, BudgetTypeOK, vars, sessionVars, budgetVars
  <2>. QED
    BY <2>1, <2>2, <2>3, <2>4, <2>5, <2>6, <2>7, <2>8, <2>9, <2>10, <2>11, <2>12, <2>13,
       <2>14, <2>15, <2>16
    DEF Next, ProgramStep
<1>. QED
  BY <1>1, <1>2, PTL DEF Spec

\* The types hold, and no process is waited for before it is gone, or twice.
THEOREM TypeCorrect == Spec => []TypeOK
<1>1. Invariant => TypeOK
  BY DEF Invariant
<1>. QED
  BY <1>1, InvariantHolds, PTL

\* No server process is lost track of, whatever exits, fails or times out first.
THEOREM OwnersHold == Spec => []EveryServerHasAnOwner
<1>1. Invariant => EveryServerHasAnOwner
  BY DEF Invariant
<1>. QED
  BY <1>1, InvariantHolds, PTL

-----------------------------------------------------------------------------
\* The budget is overrun by the last command at most: one is run only while
\* something is left.
THEOREM BudgetHolds == Spec => []OverrunIsOneCommand
<1> USE BudgetConstants
<1>1. Init => OverrunIsOneCommand
  BY DEF Init, BudgetInit, OverrunIsOneCommand
<1>2. TypeOK /\ OverrunIsOneCommand /\ [Next]_vars => OverrunIsOneCommand'
  <2> SUFFICES ASSUME TypeOK, OverrunIsOneCommand, [Next]_vars
               PROVE  OverrunIsOneCommand'
    OBVIOUS
  <2>0. consumed \in Nat /\ lastCommand \in Nat
    BY DEF TypeOK, BudgetTypeOK
  <2>1. CASE UNCHANGED budgetVars
    BY <2>1 DEF OverrunIsOneCommand, budgetVars
  <2>2. CASE UseShell
    <3>1. CASE RefuseCommand \/ RefuseExhausted
      BY <3>1 DEF RefuseCommand, RefuseExhausted, OverrunIsOneCommand
    <3>2. ASSUME NEW d \in Durations, RunCommand(d) PROVE OverrunIsOneCommand'
      BY <2>0, <3>2 DEF RunCommand, Exhausted, Remaining, OverrunIsOneCommand
    <3>. QED
      BY <2>2, <3>1, <3>2 DEF UseShell, ExecuteShell
  <2>3. UNCHANGED budgetVars \/ UseShell
    BY DEF Next, ProgramStep, MakeRemote, MakeFails, StartServer, CheckAvailable, PollAnswered,
           PollFails, DeadlinePasses, StartFailed, EndTask, Interrupt, GraceEnds, ServerGone,
           Quit, EnterTask, KillProgram, ServerListens, OtherTakesPort, ServerExits,
           vars
  <2>. QED
    BY <2>1, <2>2, <2>3
<1>. QED
  BY <1>1, <1>2, TypeCorrect, PTL DEF Spec

=============================================================================
