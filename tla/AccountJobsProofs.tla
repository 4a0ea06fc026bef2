------------------------- MODULE AccountJobsProofs -------------------------
(***************************************************************************)
(* Theorems of AccountJobs: each of its properties, for every number of    *)
(* accounts, tasks and services, and for every bound.                      *)
(*                                                                         *)
(*   1. The inductive invariants: Core, of all the properties, and one     *)
(*      more for each of them (CopyInv, CoverageInv, BillsInv, SheetInv    *)
(*      and MasterInv).                                                    *)
(*   2. Moves: what a step of a task may do to itself, the jobs, the rows, *)
(*      the reports and the files; WorkMoves shows it of each of them.     *)
(*      Beyond the tasks' steps there are Begun, the ingestion and Tick.   *)
(*   3. A lemma for each invariant, which goes through those cases.        *)
(*   4. The theorems.                                                      *)
(***************************************************************************)
EXTENDS AccountJobs, FiniteSetTheorems, SequenceTheorems, TLAPS

-----------------------------------------------------------------------------
(* The tasks and their jobs *)

Owing   == {"bills", "dates", "register"}
Working == {"cost", "exists", "import"}
Covering == {"daily", "bills"} \cup Working

\* Where each task may be, and when it has a job.
Shape(x) ==
    \/ x = Idle
    \/ /\ x.account \in Accounts
       /\ \/ x.task = "process" /\ x.pc \in {"daily", "bills", "plan", "complete"} \cup Working
          \/ x.task = "plugins" /\ x.pc \in {"run", "plan", "complete"}
          \/ x.task = "sheet" /\ x.pc \in {"bills", "dates", "register", "generate", "upload", "stamp", "read", "write"}
          \/ /\ x.task = "master" /\ x.account \in Masters
             /\ x.pc \in {"dates", "register", "accounts", "generate", "upload", "stamp", "read", "write"}
          \/ x.task = "anomalies" /\ x.pc \in {"detect", "write"}
       /\ x.created => x.task = "process"
       /\ x.pc \in Working => x.svc \in 1 .. Coverage
       /\ x.pc \in {"exists", "import"} => x.seen \subseteq Service(x.account, x.svc)
       /\ x.job = 0 <=> (x.task = "anomalies" \/ (x.task \in {"sheet", "master"} /\ x.pc \in Owing))

\* The job of a task is its own, and completed after its stamp only.
JobsInv ==
    /\ \A w \in Workers : worker[w].job # 0 =>
          /\ jobs[worker[w].job].account = worker[w].account
          /\ jobs[worker[w].job].kind = worker[w].task
          /\ jobs[worker[w].job].completed = 0 <=> worker[w].pc \notin {"read", "write"}
    /\ \A v, w \in Workers : v # w /\ worker[v].job = worker[w].job => worker[v].job = 0

\* Nothing is dated after now.
Clocked ==
    /\ \A w \in Workers : /\ worker[w].month <= monthStart /\ worker[w].date <= now
                          /\ \A c \in Columns : worker[w].copy[c] <= now
    /\ \A a \in Accounts, c \in Columns : row[a][c] <= now

\* Each task makes one job and one coverage report at most.
ToRegister == {w \in Workers : worker[w].task \in {"sheet", "master"} /\ worker[w].job = 0}
ToCover(a) == {w \in Workers : /\ worker[w].task = "process" /\ worker[w].account = a
                               /\ worker[w].pc \in Covering}
Counted ==
    /\ Len(jobs) + Cardinality(ToRegister) <= starts
    /\ \A a \in Accounts : coverage[a] + Cardinality(ToCover(a)) <= starts

\* Tasks that are at work on an account have met.
Overlap ==
    \A v, w \in Workers : v # w /\ worker[v].task # "idle" /\ worker[w].task # "idle" =>
        \A a \in WorksOn(worker[v].task, worker[v].account) \cap WorksOn(worker[w].task, worker[w].account) :
            {worker[v].task, worker[w].task} \in met[a]

-----------------------------------------------------------------------------
(* What the properties need *)

Written(a, k) == \E writer \in RowWriters : {writer, k} \in met[a]

\* A row that a task holds is as the other tasks wrote it.
CopyInv ==
    \A w \in Workers, k \in Tasks :
        worker[w].pc \in {"detect", "write"} /\ k # worker[w].task =>
            \/ worker[w].copy[ColumnOf(k)] = wrote[worker[w].account][ColumnOf(k)]
            \/ Written(worker[w].account, k)

\* A task that is about to import the coverage has found none.
CoverageInv ==
    \A w \in Workers :
        worker[w].pc = "import" /\ worker[w].svc = Coverage /\ worker[w].month = monthStart =>
            coverage[worker[w].account] = 0 \/ {"process"} \in met[worker[w].account]

\* Bills that were complete remain so, and are all paid for.
BillsInv ==
    \A w \in Workers : LET x == worker[w] IN
        x.pc \in Working /\ x.month = monthStart =>
            \/ "incomplete" \in spoilt[x.account]
            \/ /\ AllFinal(x.account)
               /\ x.pc # "cost" => x.seen = Service(x.account, x.svc)

\* A spreadsheet of date s is due; a job is about to make it so.
Due(a, s) ==
    \/ s < monthStart
    \/ \E i \in DOMAIN jobs : /\ jobs[i].kind = "process" /\ jobs[i].account = a
                              /\ jobs[i].monthly /\ s < jobs[i].completed
Making(a) == \E w \in Workers : worker[w].account = a /\ worker[w].created

Misses == {"unrecorded", "upload", "second", "misnamed"}
SheetExcused(a)  == {"process", "sheet"} \in met[a] \/ spoilt[a] \cap Misses # {}
MasterExcused(m) == \E a \in AccountsOf(m) : {"sheet", "master"} \in met[a] \/ spoilt[a] \cap Misses # {}

\* The dates of its spreadsheet, and the tasks that make it.
SheetDated(a) == \A s \in Dates(a, "sheet") : Due(a, s) \/ Making(a) \/ MonthlyOf({a}) \subseteq file[a]
SheetHeld(a)  == \A w \in Workers : worker[w].task = "sheet" /\ worker[w].account = a =>
    /\ worker[w].pc = "upload" =>
        /\ MonthlyOf({a}) \subseteq worker[w].seen
        /\ worker[w].month = monthStart \/ MonthlyOf({a}) = {}
    /\ worker[w].pc \in {"stamp", "read", "write"} => MonthlyOf({a}) \subseteq file[a]

SheetInv == \A a \in Accounts : SheetExcused(a) \/ (SheetDated(a) /\ SheetHeld(a))

\* The same for the master spreadsheet m, and one of its accounts a.
MasterDated(m, a) == \A s \in Dates(a, "sheet"), t \in Dates(m, "master") :
    t < monthStart \/ t < s \/ Due(a, s) \/ Making(a) \/ MonthlyOf({a}) \subseteq masterFile[m]
MasterLater(m, a) == \A w \in Workers :
    worker[w].task = "sheet" /\ worker[w].account = a /\ worker[w].pc \in {"read", "write"} =>
        \A t \in Dates(m, "master") : t <= worker[w].date
MasterHeld(m, a)  == \A w \in Workers, s \in Dates(a, "sheet") : worker[w].task = "master" /\ worker[w].account = m =>
    /\ worker[w].pc = "upload" =>
        \/ Due(a, s) \/ Making(a)
        \/ worker[w].month = monthStart /\ MonthlyOf({a}) \subseteq worker[w].seen
    /\ worker[w].pc \in {"stamp", "read", "write"} =>
        Due(a, s) \/ Making(a) \/ MonthlyOf({a}) \subseteq masterFile[m]

MasterInv == \A m \in Masters : \/ MasterExcused(m)
                                \/ \A a \in AccountsOf(m) : MasterDated(m, a) /\ MasterLater(m, a) /\ MasterHeld(m, a)

ShapeInv == \A w \in Workers : Shape(worker[w])

-----------------------------------------------------------------------------
(* Constants and records *)

LEMMA Constants ==
    /\ Coverage \in Nat \ {0}
    /\ MaxNow \in Nat \ {0} /\ MaxStarts \in Nat /\ MaxFaults \in Nat
    /\ Idle \in WorkerState /\ NoRow \in Row
    /\ \A k \in Tasks : ColumnOf(k) \in Columns
    /\ \A k, l \in Tasks : ColumnOf(k) = ColumnOf(l) => k = l
<1>1. Coverage \in Nat \ {0} /\ MaxNow \in Nat \ {0} /\ MaxStarts \in Nat /\ MaxFaults \in Nat
  BY AccountJobsAssumption DEF Coverage
<1>2. NoRow \in Row
  BY <1>1 DEF NoRow, Row, Times
<1>3. Idle \in WorkerState
  BY <1>1, <1>2 DEF Idle, WorkerState, Tasks, Step, Times
<1>4. \A k \in Tasks : ColumnOf(k) \in Columns
  BY DEF Tasks, ColumnOf, Columns
<1>5. \A k, l \in Tasks : ColumnOf(k) = ColumnOf(l) => k = l
  BY DEF Tasks, ColumnOf
<1> QED BY <1>1, <1>2, <1>3, <1>4, <1>5

\* One worker moves.
LEMMA OneMoves ==
    ASSUME NEW Q \in [Workers -> WorkerState], NEW w \in Workers, NEW y \in WorkerState
    PROVE  /\ [Q EXCEPT ![w] = y] \in [Workers -> WorkerState]
           /\ [Q EXCEPT ![w] = y][w] = y
           /\ \A v \in Workers \ {w} : [Q EXCEPT ![w] = y][v] = Q[v]
OBVIOUS

-----------------------------------------------------------------------------
(* What a task may do in one step *)

Holding == {"detect", "write"}
Stamped == {"read", "write"}

\* Itself: x before and y after it.
Goes(w) ==
    LET x == worker[w]
        y == worker'[w]
    IN /\ worker' = [worker EXCEPT ![w] = y]
       /\ y \in WorkerState /\ Shape(y) /\ x # Idle
       /\ y = Idle \/ (y.task = x.task /\ y.account = x.account)
       /\ y.month \in {0, x.month, monthStart}
       /\ y.date \in {0, x.date, now}
       /\ UNCHANGED <<now, monthStart, billVars, starts, met>>
       /\ faults' \in 0 .. MaxFaults
       /\ spoilt' \in [Accounts -> SUBSET Causes] /\ \A a \in Accounts : spoilt[a] \subseteq spoilt'[a]

\* The jobs; x is the task before the step and y after it, here and below.  A job that is
\* left is completed or abandoned, and what was created is told or not recorded.
JobStays(x, y) ==
    /\ jobs' = jobs
    /\ y = Idle \/ (y.job = x.job /\ (x.job = 0 \/ (y.pc \in Stamped <=> x.pc \in Stamped)))
    /\ y = Idle => \/ x.job = 0 \/ x.pc \in Stamped \/ jobs[x.job].completed # 0
                   \/ "abandoned" \in spoilt'[x.account]
    /\ x.created => y.created \/ "unrecorded" \in spoilt'[x.account]

JobBegins(x, y) ==
    /\ x.pc = "register" /\ y.pc \in {"generate", "accounts"} /\ y.job = Len(jobs) + 1
    /\ jobs' = Append(jobs, Pending(x.task, x.account))

JobEnds(x, y) ==
    /\ x.pc = "complete" /\ y = Idle
    /\ jobs' = [jobs EXCEPT ![x.job] = Completed(x, @)]
    /\ x.created => now \notin Dates(x.account, "sheet") \/ "second" \in spoilt'[x.account]

JobStamped(x, y) ==
    /\ x.pc = "stamp"
    /\ y = Idle \/ (y.job = x.job /\ y.pc = "read" /\ y.date = now)
    /\ jobs' = [jobs EXCEPT ![x.job].completed = now]

JobsMove(w) ==
    LET x == worker[w]
        y == worker'[w]
    IN JobStays(x, y) \/ JobBegins(x, y) \/ JobEnds(x, y) \/ JobStamped(x, y)

\* The rows of the accounts.
RowsStay(x, y) ==
    /\ UNCHANGED <<row, wrote>>
    /\ \/ y = Idle
       \/ y.copy = x.copy /\ (y.pc \in Holding => x.pc \in Holding)
       \/ x.pc = "read" /\ y.copy = row[x.account]

RowPlanned(x, y) ==
    /\ x.task \in {"process", "plugins"} /\ y.copy = x.copy /\ y.pc \notin Holding
    /\ row' = [row EXCEPT ![x.account][ColumnOf(x.task)] = now]
    /\ wrote' = [wrote EXCEPT ![x.account][ColumnOf(x.task)] = now]

RowWritten(x, y) ==
    /\ x.pc = "write" /\ y = Idle
    /\ row' = [row EXCEPT ![x.account] = RowToWrite(x)]
    /\ wrote' = [wrote EXCEPT ![x.account][ColumnOf(x.task)] = x.date]
    /\ x.task = "sheet" => \A m \in Masters :
          x.account \in AccountsOf(m) /\ x.date \in Dates(m, "master") => "second" \in spoilt'[x.account]

RowsMove(w) ==
    LET x == worker[w]
        y == worker'[w]
    IN RowsStay(x, y) \/ RowPlanned(x, y) \/ RowWritten(x, y)

\* The reports of last month.
ReportsWritten(x, y) ==
    /\ x.pc = "import" /\ x.month = monthStart /\ y.created
    /\ \E ls \in SUBSET x.seen : /\ monthly' = monthly \cup ls
                                 /\ ls = x.seen \/ "bulk" \in spoilt'[x.account]
    /\ coverage' = IF x.svc = Coverage /\ x.account \in Reserved
                   THEN [coverage EXCEPT ![x.account] = @ + 1] ELSE coverage
    /\ x.svc = Coverage => y.pc = "plan"

ReportsMove(w) == UNCHANGED esVars \/ ReportsWritten(worker[w], worker'[w])

\* The spreadsheets of last month, on the way from the reports to the date.
Missed(a) == spoilt'[a] \cap Misses # {}

FileUploaded(x, y) ==
    /\ x.pc = "upload" /\ x.month = monthStart /\ y.pc = "stamp"
    /\ \/ x.task = "sheet" /\ file' = [file EXCEPT ![x.account] = x.seen] /\ UNCHANGED masterFile
       \/ x.task = "master" /\ masterFile' = [masterFile EXCEPT ![x.account] = x.seen] /\ UNCHANGED file

SheetMoves(x, y) ==
    /\ y.pc = "upload" => x.pc = "generate" /\
          \/ Missed(x.account)
          \/ /\ y.month = monthStart
             /\ y.seen = monthly \cap (WorksOn(x.task, x.account) \X Resources)
    /\ y.pc = "stamp" => x.pc = "upload"
    /\ y.pc \in Stamped /\ x.task # "anomalies" =>
          \/ x.pc \in Stamped /\ y.date = x.date
          \/ x.pc = "stamp" /\ y.date = now

FilesMove(w) ==
    LET x == worker[w]
        y == worker'[w]
    IN /\ SheetMoves(x, y)
       /\ \/ FileUploaded(x, y)
          \/ UNCHANGED files /\ (x.pc = "upload" => y = Idle \/ x.month # monthStart \/ Missed(x.account))

\* The bills of last month and what is made of them.
BillsMove(w) ==
    LET x == worker[w]
        y == worker'[w]
    IN /\ y.pc \in Covering => x.pc \in Covering
       /\ y.pc \in Working /\ y.month = monthStart =>
            \/ /\ x.pc = "bills" /\ y.pc = "cost"
               /\ AllFinal(x.account) \/ "incomplete" \in spoilt'[x.account]
            \/ /\ x.pc \in Working /\ x.month = monthStart
               /\ \/ y.pc = "cost"
                  \/ y.pc = "exists" /\ y.svc = Coverage /\ y.seen = {}
                  \/ y.pc = "exists" /\ x.pc = "cost" /\ y.svc = x.svc /\ y.seen = PaidFor(x.account, x.svc)
                  \/ /\ y.pc = "import" /\ x.pc = "exists" /\ y.svc = x.svc /\ y.seen = x.seen
                     /\ ~ReportExists(x.account, x.svc)

Moves(w) == Goes(w) /\ JobsMove(w) /\ RowsMove(w) /\ ReportsMove(w) /\ FilesMove(w) /\ BillsMove(w)

-----------------------------------------------------------------------------
(* Each step of a task does no more *)

\* What the step of a task leaves alone, whatever it is.
Around == /\ UNCHANGED <<now, monthStart, billVars, starts, met>>
          /\ faults' \in 0 .. MaxFaults
          /\ spoilt' \in [Accounts -> SUBSET Causes]
          /\ \A a \in Accounts : spoilt[a] \subseteq spoilt'[a]

LEMMA Faulty == ASSUME TypeOK, Fault PROVE faults' \in 0 .. MaxFaults
BY Constants DEF TypeOK, Fault

LEMMA Spoiling ==
    ASSUME TypeOK, NEW a \in Accounts, NEW why \in Causes, Spoil(a, why)
    PROVE  /\ spoilt' \in [Accounts -> SUBSET Causes] /\ \A b \in Accounts : spoilt[b] \subseteq spoilt'[b]
           /\ why \in spoilt'[a]
BY DEF TypeOK, Spoil

LEMMA Unspoilt ==
    ASSUME TypeOK, UNCHANGED spoilt
    PROVE  spoilt' \in [Accounts -> SUBSET Causes] /\ \A b \in Accounts : spoilt[b] \subseteq spoilt'[b]
BY DEF TypeOK

LEMMA Abandoning ==
    ASSUME TypeOK, NEW x \in WorkerState, x.account \in Accounts, Abandon(x)
    PROVE  /\ spoilt' \in [Accounts -> SUBSET Causes] /\ \A b \in Accounts : spoilt[b] \subseteq spoilt'[b]
           /\ x.job = 0 \/ jobs[x.job].completed # 0 \/ "abandoned" \in spoilt'[x.account]
           /\ x.created => "unrecorded" \in spoilt'[x.account]
<1> DEFINE lost == IF x.job # 0 /\ jobs[x.job].completed = 0 THEN {"abandoned"} ELSE {}
           untold == IF x.created THEN {"unrecorded"} ELSE {}
           why == lost \cup untold
<1>1. spoilt' = [spoilt EXCEPT ![x.account] = @ \cup why]
  BY DEF Abandon
<1>2. lost \subseteq Causes /\ untold \subseteq Causes
  BY DEF Causes
<1>3. x.job = 0 \/ jobs[x.job].completed # 0 \/ "abandoned" \in why
  OBVIOUS
<1>4. x.created => "unrecorded" \in why
  OBVIOUS
<1> HIDE DEF lost, untold
<1>5. spoilt'[x.account] = spoilt[x.account] \cup why
  BY <1>1 DEF TypeOK
<1>6. spoilt' \in [Accounts -> SUBSET Causes] /\ \A b \in Accounts : spoilt[b] \subseteq spoilt'[b]
  BY <1>1, <1>2 DEF TypeOK
<1> QED BY <1>3, <1>4, <1>5, <1>6

\* A task at work is of an account, and of no other shape than these.
LEMMA AtWork ==
    ASSUME TypeOK, ShapeInv, NEW w \in Workers, worker[w].pc # "idle" \/ worker[w] # Idle
    PROVE  /\ worker[w] # Idle /\ worker[w].account \in Accounts /\ worker[w].task \in Tasks
           /\ worker[w].pc # "idle" /\ worker[w] \in WorkerState /\ Shape(worker[w])
<1>1. worker[w] # Idle /\ Shape(worker[w]) /\ worker[w] \in WorkerState
  BY DEF Idle, ShapeInv, TypeOK
<1> QED BY <1>1 DEF Shape, Tasks, Working

\* A step that only moves the task, and not to or from where it holds a row or a file.
LEMMA QuietMoves ==
    ASSUME TypeOK, ShapeInv, NEW w \in Workers, NEW y \in WorkerState, Around,
           worker[w].pc # "idle", worker' = [worker EXCEPT ![w] = y],
           Shape(y), y.pc \notin {"idle", "upload", "stamp", "read", "write", "detect"},
           worker[w].pc \notin {"upload", "stamp", "read", "write", "detect"},
           y.task = worker[w].task, y.account = worker[w].account, y.month \in {0, worker[w].month, monthStart},
           y.date = worker[w].date, y.job = worker[w].job, worker[w].created => y.created, y.copy = worker[w].copy,
           UNCHANGED <<jobs, row, wrote, esVars, files>>, BillsMove(w)
    PROVE  Moves(w)
<1> DEFINE x == worker[w]
<1>1. worker'[w] = y /\ x # Idle /\ y # Idle
  BY OneMoves DEF TypeOK, Idle
<1>2. Goes(w)
  BY <1>1 DEF Goes, Around
<1>3. JobsMove(w)
  BY <1>1 DEF JobsMove, JobStays, Stamped
<1>4. RowsMove(w)
  BY <1>1 DEF RowsMove, RowsStay, Holding
<1>5. ReportsMove(w) /\ FilesMove(w)
  BY <1>1 DEF ReportsMove, FilesMove, SheetMoves, Stamped
<1> QED BY <1>2, <1>3, <1>4, <1>5 DEF Moves

\* A task that ends, or dies.
LEMMA EndMoves ==
    ASSUME TypeOK, ShapeInv, NEW w \in Workers, worker[w].pc # "idle", Around,
           worker' = [worker EXCEPT ![w] = Idle],
           \/ worker[w].job = 0 \/ worker[w].pc \in Stamped \/ jobs[worker[w].job].completed # 0
           \/ "abandoned" \in spoilt'[worker[w].account],
           worker[w].created => "unrecorded" \in spoilt'[worker[w].account],
           UNCHANGED <<jobs, row, wrote, esVars, files>>
    PROVE  Moves(w)
<1> DEFINE x == worker[w]
<1>1. worker'[w] = Idle /\ x # Idle /\ Idle \in WorkerState
  BY OneMoves, Constants DEF TypeOK, Idle
<1>2. Idle.month = 0 /\ Idle.date = 0 /\ Idle.pc = "idle"
  BY DEF Idle
<1>3. Goes(w)
  BY <1>1, <1>2 DEF Goes, Around, Shape
<1>4. JobsMove(w)
  BY <1>1 DEF JobsMove, JobStays
<1>5. RowsMove(w)
  BY <1>1 DEF RowsMove, RowsStay
<1>6. ReportsMove(w) /\ FilesMove(w) /\ BillsMove(w)
  BY <1>1, <1>2 DEF ReportsMove, FilesMove, SheetMoves, BillsMove, Covering, Stamped, Working
<1> QED BY <1>3, <1>4, <1>5, <1>6 DEF Moves

LEMMA DailyReportsMoves ==
    ASSUME TypeOK, ShapeInv, NEW w \in Workers, DailyReports(w)
    PROVE  Moves(w)
<1> DEFINE x == worker[w]
           y == [x EXCEPT !.pc = "bills"]
<1>1. x \in WorkerState /\ worker' = [worker EXCEPT ![w] = y] /\ x.pc = "daily" /\ Shape(x)
  BY DEF TypeOK, ShapeInv, DailyReports, Go, At
<1>2. /\ y \in WorkerState /\ y.pc = "bills"
      /\ y.task = x.task /\ y.account = x.account /\ y.month = x.month /\ y.date = x.date /\ y.job = x.job
      /\ (x.created => y.created) /\ y.copy = x.copy
  BY <1>1 DEF WorkerState, Step
<1>3. Shape(y)
  BY <1>1, <1>2 DEF Shape, Working, Owing, Idle
<1> HIDE DEF y
<1>4. BillsMove(w)
  BY <1>1, <1>2, OneMoves DEF BillsMove, Covering, Working, TypeOK
<1>5. Around /\ UNCHANGED <<jobs, row, wrote, esVars, files>>
  BY DEF DailyReports, TypeOK, history, Around
<1> QED BY <1>1, <1>2, <1>3, <1>4, <1>5, QuietMoves

LEMMA RunPluginsMoves ==
    ASSUME TypeOK, ShapeInv, NEW w \in Workers, RunPlugins(w)
    PROVE  Moves(w)
<1> DEFINE x == worker[w]
           y == [x EXCEPT !.pc = "plan"]
<1>1. x \in WorkerState /\ worker' = [worker EXCEPT ![w] = y] /\ x.pc = "run" /\ Shape(x)
  BY DEF TypeOK, ShapeInv, RunPlugins, Go, At
<1>2. /\ y \in WorkerState /\ y.pc = "plan"
      /\ y.task = x.task /\ y.account = x.account /\ y.month = x.month /\ y.date = x.date /\ y.job = x.job
      /\ (x.created => y.created) /\ y.copy = x.copy
  BY <1>1 DEF WorkerState, Step
<1>3. Shape(y)
  BY <1>1, <1>2 DEF Shape, Working, Owing, Idle
<1> HIDE DEF y
<1>4. BillsMove(w)
  BY <1>1, <1>2, OneMoves DEF BillsMove, Covering, Working, TypeOK
<1>5. Around /\ UNCHANGED <<jobs, row, wrote, esVars, files>>
  BY DEF RunPlugins, TypeOK, history, Around
<1> QED BY <1>1, <1>2, <1>3, <1>4, <1>5, QuietMoves

LEMMA CrashMoves ==
    ASSUME TypeOK, ShapeInv, NEW w \in Workers, Crash(w)
    PROVE  Moves(w)
<1>1. worker[w] # Idle /\ Fault /\ worker' = [worker EXCEPT ![w] = Idle] /\ Abandon(worker[w])
  BY DEF Crash, End
<1>2. worker[w] \in WorkerState /\ worker[w].account \in Accounts /\ worker[w].pc # "idle"
  BY <1>1, AtWork
<1>3. Around /\ UNCHANGED <<jobs, row, wrote, esVars, files>>
  BY <1>1, <1>2, Faulty, Abandoning DEF Crash, Around, billVars
<1> QED BY <1>1, <1>2, <1>3, Abandoning, EndMoves

LEMMA NextServiceIs ==
    ASSUME NEW x \in WorkerState, Shape(x), x.pc \in Working
    PROVE  LET y == NextService(x) IN
           /\ y \in WorkerState /\ Shape(y)
           /\ y.task = x.task /\ y.account = x.account /\ y.date = x.date /\ y.job = x.job /\ y.copy = x.copy
           /\ x.created <=> y.created
           /\ y.month \in {0, x.month}
           /\ \/ y.pc = "cost" /\ y.month = x.month
              \/ y.pc = "exists" /\ y.svc = Coverage /\ y.seen = {} /\ y.month = x.month
              \/ y.pc = "plan" /\ x.svc = Coverage
<1> DEFINE pc == IF x.svc + 1 < Coverage THEN "cost" ELSE IF x.svc + 1 = Coverage THEN "exists" ELSE "plan"
           svc == IF x.svc + 1 <= Coverage THEN x.svc + 1 ELSE 0
           month == IF x.svc + 1 <= Coverage THEN x.month ELSE 0
           y == NextService(x)
<1>1. x.task = "process" /\ x.account \in Accounts /\ x.svc \in 1 .. Coverage /\ Coverage \in Nat \ {0}
  BY Constants DEF Shape, Working, Idle
<1>2. y = [x EXCEPT !.pc = pc, !.svc = svc, !.month = month, !.seen = {}]
  BY DEF NextService
<1>3. \/ pc = "cost" /\ svc \in 1 .. Coverage /\ month = x.month
      \/ pc = "exists" /\ svc = Coverage /\ month = x.month
      \/ pc = "plan" /\ svc = 0 /\ month = 0 /\ x.svc = Coverage
  BY <1>1
<1>4. svc \in 0 .. Coverage /\ pc \in Step /\ month \in {0, x.month} /\ month \in Times
  BY <1>1, <1>3, Constants DEF Step, Times, WorkerState
<1> HIDE DEF pc, svc, month, y
<1>5. y \in WorkerState
  BY <1>2, <1>4 DEF WorkerState
<1>6. /\ y.task = x.task /\ y.account = x.account /\ y.date = x.date /\ y.job = x.job /\ y.copy = x.copy
      /\ y.pc = pc /\ y.svc = svc /\ y.month = month /\ y.seen = {}
  BY <1>2 DEF WorkerState
<1>7. x.created <=> y.created
  BY <1>2 DEF WorkerState
<1>8. Shape(y)
  <2>1. x.job # 0
    BY <1>1 DEF Shape, Owing, Idle
  <2> QED BY <1>1, <1>3, <1>6, <2>1 DEF Shape, Working, Owing
<1> QED BY <1>3, <1>4, <1>5, <1>6, <1>7, <1>8 DEF y

LEMMA NextServiceMoves ==
    ASSUME TypeOK, ShapeInv, NEW w \in Workers, worker[w].pc \in Working, Around,
           worker' = [worker EXCEPT ![w] = NextService(worker[w])], UNCHANGED <<jobs, row, wrote, esVars, files>>
    PROVE  Moves(w)
<1> DEFINE x == worker[w]
           y == NextService(x)
<1>1. x \in WorkerState /\ Shape(x) /\ x.month <= x.month
  BY DEF TypeOK, ShapeInv, WorkerState, Times
<1>2. /\ y \in WorkerState /\ Shape(y)
      /\ y.task = x.task /\ y.account = x.account /\ y.date = x.date /\ y.job = x.job /\ y.copy = x.copy
      /\ x.created <=> y.created
      /\ y.month \in {0, x.month}
      /\ \/ y.pc = "cost" /\ y.month = x.month
         \/ y.pc = "exists" /\ y.svc = Coverage /\ y.seen = {} /\ y.month = x.month
         \/ y.pc = "plan" /\ x.svc = Coverage
  BY <1>1, NextServiceIs
<1> HIDE DEF y
<1>3. worker'[w] = y /\ worker' = [worker EXCEPT ![w] = y]
  BY <1>2, OneMoves DEF TypeOK, y
<1>4. BillsMove(w)
  BY <1>2, <1>3 DEF BillsMove, Covering, Working
<1>5. x.pc \notin {"idle", "upload", "stamp", "read", "write", "detect"}
  BY DEF Working
<1> QED BY <1>2, <1>3, <1>4, <1>5, QuietMoves

LEMMA CheckBillsMoves ==
    ASSUME TypeOK, ShapeInv, NEW w \in Workers, CheckBills(w)
    PROVE  Moves(w)
<1> DEFINE x == worker[w]
           a == x.account
           planned == [x EXCEPT !.pc = "plan"]
           dated   == [x EXCEPT !.pc = "dates", !.month = monthStart]
           costed  == [x EXCEPT !.pc = "cost", !.month = monthStart, !.svc = 1]
           Same(y) == /\ y \in WorkerState
                      /\ y.task = x.task /\ y.account = x.account /\ y.date = x.date
                      /\ y.job = x.job /\ (x.created <=> y.created) /\ y.copy = x.copy
<1>1. x.pc = "bills" /\ UNCHANGED <<jobs, row, wrote, esVars, files>>
  BY DEF CheckBills, At
<1>2. /\ x \in WorkerState /\ Shape(x) /\ a \in Accounts /\ x.task \in {"process", "sheet"}
      /\ x.task = "sheet" => x.job = 0 /\ ~x.created
      /\ x.task = "process" => x.job # 0
  BY <1>1, AtWork DEF Shape, Owing, Working, Idle
<1>3. Coverage \in Nat \ {0} /\ monthStart \in Times /\ 1 \in 0 .. Coverage
  BY Constants DEF TypeOK, Times
<1>4. Same(planned) /\ planned.pc = "plan" /\ planned.month = x.month
  BY <1>2 DEF WorkerState, Step
<1>5. Same(dated) /\ dated.pc = "dates" /\ dated.month = monthStart
  BY <1>2, <1>3 DEF WorkerState, Step
<1>6. Same(costed) /\ costed.pc = "cost" /\ costed.month = monthStart /\ costed.svc = 1
  BY <1>2, <1>3 DEF WorkerState, Step
<1>7. /\ x.task = "process" => Shape(planned) /\ Shape(costed)
      /\ x.task = "sheet" => Shape(dated)
  <2> HIDE DEF planned, dated, costed
  <2> QED BY <1>2, <1>3, <1>4, <1>5, <1>6 DEF Shape, Working, Owing
<1>8. \/ worker' = [worker EXCEPT ![w] = IF x.task = "sheet" THEN dated ELSE costed]
      \/ worker' = [worker EXCEPT ![w] = IF x.task = "process" THEN planned ELSE Idle]
  <2>1. \/ worker' = [worker EXCEPT ![w] = IF x.task = "sheet" THEN [@ EXCEPT !.pc = "dates", !.month = monthStart]
                                             ELSE [@ EXCEPT !.pc = "cost", !.month = monthStart, !.svc = 1]]
        \/ worker' = [worker EXCEPT ![w] = IF x.task = "process" THEN planned ELSE Idle]
    BY DEF CheckBills
  <2> QED BY <2>1
<1>9. /\ UNCHANGED <<now, monthStart, billVars, starts, met>>
      /\ faults' \in 0 .. MaxFaults
  BY Faulty DEF CheckBills, TypeOK, billVars
<1>10. \/ Spoil(a, "incomplete")
       \/ UNCHANGED spoilt /\ x.task = "process" /\ AllFinal(a)
       \/ UNCHANGED spoilt /\ x.task # "process"
       \/ UNCHANGED spoilt /\ worker' = [worker EXCEPT ![w] = IF x.task = "process" THEN planned ELSE Idle]
  BY DEF CheckBills
<1> HIDE DEF planned, dated, costed
<1>11. Around /\ \/ "incomplete" \in spoilt'[a]
                 \/ x.task = "process" /\ AllFinal(a)
                 \/ x.task # "process"
                 \/ worker' = [worker EXCEPT ![w] = IF x.task = "process" THEN planned ELSE Idle]
  <2>1. CASE Spoil(a, "incomplete")
    BY <1>2, <1>9, <2>1, Spoiling DEF Around, Causes
  <2>2. CASE UNCHANGED spoilt /\ ~Spoil(a, "incomplete")
    BY <1>9, <1>10, <2>2, Unspoilt DEF Around
  <2> QED BY <1>10, <2>1, <2>2
<1>12. [worker EXCEPT ![w] = planned][w] = planned
  BY <1>4, OneMoves DEF TypeOK
<1>13. CASE worker' = [worker EXCEPT ![w] = costed] /\ x.task = "process"
  <2>1. worker'[w] = costed
    BY <1>6, <1>13, OneMoves DEF TypeOK
  <2>2. AllFinal(a) \/ "incomplete" \in spoilt'[a]
    BY <1>4, <1>6, <1>11, <1>12, <1>13, <2>1
  <2>3. BillsMove(w)
    BY <1>1, <1>6, <2>1, <2>2 DEF BillsMove, Covering, Working
  <2> QED BY <1>1, <1>2, <1>6, <1>7, <1>11, <1>13, <2>3, QuietMoves
<1>14. CASE worker' = [worker EXCEPT ![w] = planned] /\ x.task = "process"
  <2>1. BillsMove(w)
    BY <1>4, <1>12, <1>14 DEF BillsMove, Covering, Working
  <2> QED BY <1>1, <1>2, <1>4, <1>7, <1>11, <1>14, <2>1, QuietMoves
<1>15. CASE worker' = [worker EXCEPT ![w] = dated] /\ x.task = "sheet"
  <2>1. worker'[w] = dated
    BY <1>5, <1>15, OneMoves DEF TypeOK
  <2>2. BillsMove(w)
    BY <1>5, <2>1 DEF BillsMove, Covering, Working
  <2> QED BY <1>1, <1>2, <1>5, <1>7, <1>11, <1>15, <2>2, QuietMoves
<1>16. CASE worker' = [worker EXCEPT ![w] = Idle] /\ x.task = "sheet"
  BY <1>1, <1>2, <1>11, <1>16, EndMoves
<1> QED BY <1>2, <1>8, <1>13, <1>14, <1>15, <1>16

LEMMA ReadCostsMoves ==
    ASSUME TypeOK, ShapeInv, NEW w \in Workers, ReadCosts(w)
    PROVE  Moves(w)
<1> DEFINE x == worker[w]
           With(ls) == [x EXCEPT !.pc = "exists", !.seen = ls]
<1>1. x.pc = "cost" /\ UNCHANGED <<jobs, row, wrote, esVars, files>>
  BY DEF ReadCosts, At
<1>2. x \in WorkerState /\ Shape(x) /\ x.task = "process" /\ x.job # 0 /\ x.account \in Accounts
  BY <1>1, AtWork DEF Shape, Owing, Working, Idle
<1>3. Around
  BY Faulty, Unspoilt DEF ReadCosts, Around, TypeOK, billVars
<1>4. \/ worker' = [worker EXCEPT ![w] = NextService(x)]
      \/ ~Past(w) /\ worker' = [worker EXCEPT ![w] = With(PaidFor(x.account, x.svc))]
      \/ Past(w) /\ worker' = [worker EXCEPT ![w] = With(Service(x.account, x.svc))]
  BY DEF ReadCosts
<1>5. ASSUME NEW ls \in SUBSET Service(x.account, x.svc), worker' = [worker EXCEPT ![w] = With(ls)],
             Past(w) \/ ls = PaidFor(x.account, x.svc)
      PROVE  Moves(w)
  <2>1. ls \subseteq Lines
    BY <1>2 DEF Service, LinesOf, Lines
  <2>2. /\ With(ls) \in WorkerState /\ With(ls).pc = "exists" /\ With(ls).seen = ls
        /\ With(ls).task = x.task /\ With(ls).account = x.account /\ With(ls).date = x.date
        /\ With(ls).job = x.job /\ (x.created <=> With(ls).created) /\ With(ls).copy = x.copy
        /\ With(ls).month = x.month /\ With(ls).svc = x.svc
    BY <1>2, <2>1 DEF WorkerState, Step
  <2> HIDE DEF With
  <2>3. Shape(With(ls))
    BY <1>1, <1>2, <2>2 DEF Shape, Working, Owing, Idle
  <2>4. BillsMove(w)
    BY <1>1, <1>5, <2>2, OneMoves DEF BillsMove, Covering, TypeOK, Past, Working
  <2> QED BY <1>1, <1>2, <1>3, <1>5, <2>2, <2>3, <2>4, QuietMoves
<1>6. PaidFor(x.account, x.svc) \subseteq Service(x.account, x.svc)
  BY DEF PaidFor
<1> HIDE DEF With
<1>7. CASE worker' = [worker EXCEPT ![w] = NextService(x)]
  BY <1>1, <1>3, <1>7, NextServiceMoves DEF Working
<1> QED BY <1>4, <1>5, <1>6, <1>7

LEMMA CheckExistsMoves ==
    ASSUME TypeOK, ShapeInv, NEW w \in Workers, CheckExists(w)
    PROVE  Moves(w)
<1> DEFINE x == worker[w]
           y == [x EXCEPT !.pc = "import"]
<1>1. x.pc = "exists" /\ UNCHANGED <<jobs, row, wrote, esVars, files>>
  BY DEF CheckExists, At
<1>2. x \in WorkerState /\ Shape(x) /\ x.task = "process" /\ x.job # 0 /\ x.account \in Accounts
  BY <1>1, AtWork DEF Shape, Owing, Working, Idle
<1>3. Around
  BY Faulty, Unspoilt DEF CheckExists, Around, TypeOK, billVars
<1>4. \/ worker' = [worker EXCEPT ![w] = NextService(x)]
      \/ /\ Past(w) \/ ~ReportExists(x.account, x.svc)
         /\ worker' = [worker EXCEPT ![w] = y]
  BY DEF CheckExists, Go
<1>5. /\ y \in WorkerState /\ y.pc = "import" /\ y.seen = x.seen
      /\ y.task = x.task /\ y.account = x.account /\ y.date = x.date
      /\ y.job = x.job /\ (x.created <=> y.created) /\ y.copy = x.copy
      /\ y.month = x.month /\ y.svc = x.svc
  BY <1>2 DEF WorkerState, Step
<1> HIDE DEF y
<1>6. Shape(y)
  BY <1>1, <1>2, <1>5 DEF Shape, Working, Owing, Idle
<1>7. CASE worker' = [worker EXCEPT ![w] = NextService(x)]
  BY <1>1, <1>3, <1>7, NextServiceMoves DEF Working
<1>8. CASE (Past(w) \/ ~ReportExists(x.account, x.svc)) /\ worker' = [worker EXCEPT ![w] = y]
  <2>1. BillsMove(w)
    BY <1>1, <1>5, <1>8, OneMoves DEF BillsMove, Covering, TypeOK, Past, Working
  <2> QED BY <1>1, <1>2, <1>3, <1>5, <1>6, <1>8, <2>1, QuietMoves
<1> QED BY <1>4, <1>7, <1>8

LEMMA ImportReportMoves ==
    ASSUME TypeOK, ShapeInv, NEW w \in Workers, ImportReport(w)
    PROVE  Moves(w)
<1> DEFINE x == worker[w]
           a == x.account
           made == Imported(x)
<1>1. x.pc = "import" /\ UNCHANGED <<jobs, row, wrote, files>> /\ UNCHANGED <<now, monthStart, billVars, starts, met>>
  BY DEF ImportReport, At, billVars
<1>2. x \in WorkerState /\ Shape(x) /\ x.task = "process" /\ x.job # 0 /\ a \in Accounts
  BY <1>1, AtWork DEF Shape, Owing, Working, Idle
<1>3. \/ UNCHANGED esVars /\ worker' = [worker EXCEPT ![w] = NextService(x)] /\ UNCHANGED spoilt
      \/ worker' = [worker EXCEPT ![w] = made] /\ (UNCHANGED spoilt \/ Spoil(a, "bulk"))
  BY DEF ImportReport
<1>4. faults' \in 0 .. MaxFaults
  BY Faulty DEF ImportReport, TypeOK
<1>5. CASE UNCHANGED esVars /\ worker' = [worker EXCEPT ![w] = NextService(x)] /\ UNCHANGED spoilt
  BY <1>1, <1>4, <1>5, Unspoilt, NextServiceMoves DEF Working, Around
<1>6. CASE worker' = [worker EXCEPT ![w] = made] /\ (UNCHANGED spoilt \/ Spoil(a, "bulk"))
  <2> DEFINE y == NextService(x)
  <2>1. /\ y \in WorkerState /\ Shape(y)
        /\ y.task = x.task /\ y.account = x.account /\ y.date = x.date /\ y.job = x.job /\ y.copy = x.copy
        /\ x.created <=> y.created
        /\ y.month \in {0, x.month}
        /\ \/ y.pc = "cost" /\ y.month = x.month
           \/ y.pc = "exists" /\ y.svc = Coverage /\ y.seen = {} /\ y.month = x.month
           \/ y.pc = "plan" /\ x.svc = Coverage
    BY <1>1, <1>2, NextServiceIs DEF Working
  <2>2. made = [y EXCEPT !.created = TRUE]
    BY DEF Imported
  <2> HIDE DEF y, made
  <2>3. /\ made \in WorkerState /\ made.created
        /\ made.task = x.task /\ made.account = a /\ made.date = x.date /\ made.job = x.job /\ made.copy = x.copy
        /\ made.month = y.month /\ made.pc = y.pc /\ made.svc = y.svc /\ made.seen = y.seen
    BY <2>1, <2>2 DEF WorkerState
  <2>4. Shape(made)
    BY <1>2, <2>1, <2>3 DEF Shape, Working, Owing, Idle
  <2>5. Around
    BY <1>1, <1>2, <1>4, <1>6, Unspoilt, Spoiling DEF Around, Causes
  <2>6. worker'[w] = made /\ x # Idle /\ worker' = [worker EXCEPT ![w] = worker'[w]]
    BY <1>1, <1>6, <2>3, OneMoves DEF TypeOK, Idle
  <2>7. Goes(w)
    BY <2>1, <2>3, <2>4, <2>5, <2>6 DEF Goes, Around
  <2>8. JobsMove(w)
    <3>1. made # Idle /\ made.pc \notin Stamped
      BY <2>1, <2>3 DEF Idle, Stamped
    <3> QED BY <1>1, <2>3, <2>6, <3>1 DEF JobsMove, JobStays, Stamped
  <2>9. RowsMove(w)
    BY <1>1, <2>1, <2>3, <2>6 DEF RowsMove, RowsStay, Holding
  <2>10. FilesMove(w)
    BY <1>1, <2>1, <2>3, <2>6 DEF FilesMove, SheetMoves, Stamped
  <2>11. BillsMove(w)
    <3>1. ASSUME made.pc \in Working
          PROVE  /\ x.month = made.month
                 /\ made.pc = "cost" \/ (made.pc = "exists" /\ made.svc = Coverage /\ made.seen = {})
      <4>1. y.pc \in Working
        BY <2>3, <3>1
      <4>2. y.pc # "plan"
        BY <4>1 DEF Working
      <4> QED BY <2>1, <2>3, <4>2
    <3> QED BY <1>1, <2>6, <3>1 DEF BillsMove, Covering, Working
  <2>12. ReportsMove(w)
    <3>1. CASE UNCHANGED esVars
      BY <3>1 DEF ReportsMove
    <3>2. CASE x.month = monthStart /\ ~UNCHANGED esVars
      <4>1. /\ \E ls \in SUBSET x.seen : monthly' = monthly \cup ls /\ (ls = x.seen \/ Spoil(a, "bulk"))
            /\ coverage' = IF x.svc = Coverage /\ x.account \in Reserved
                           THEN [coverage EXCEPT ![x.account] = @ + 1] ELSE coverage
        BY <3>2 DEF ImportReport, Past
      <4>2. \E ls \in SUBSET x.seen : monthly' = monthly \cup ls /\ (ls = x.seen \/ "bulk" \in spoilt'[a])
        BY <1>2, <4>1, Spoiling DEF Causes
      <4>3. x.svc = Coverage => made.pc = "plan"
        <5>1. x.svc = Coverage => y.pc = "plan"
          BY Constants DEF NextService, y, WorkerState
        <5> QED BY <2>3, <5>1
      <4> QED BY <1>1, <2>3, <2>6, <3>2, <4>1, <4>2, <4>3 DEF ReportsMove, ReportsWritten
    <3>3. CASE x.month # monthStart
      BY <3>3 DEF ImportReport, Past, ReportsMove
    <3> QED BY <3>1, <3>2, <3>3
  <2> QED BY <2>7, <2>8, <2>9, <2>10, <2>11, <2>12 DEF Moves
<1> QED BY <1>3, <1>5, <1>6

LEMMA IdleIs == Idle \in WorkerState /\ Shape(Idle) /\ Idle.pc = "idle" /\ Idle.month = 0 /\ Idle.date = 0
BY Constants DEF Idle, Shape

LEMMA GoesOn ==
    ASSUME TypeOK, ShapeInv, NEW w \in Workers, NEW y \in WorkerState, Around,
           worker[w].pc # "idle", worker' = [worker EXCEPT ![w] = y], Shape(y),
           y = Idle \/ (y.task = worker[w].task /\ y.account = worker[w].account),
           y.month \in {0, worker[w].month, monthStart}, y.date \in {0, worker[w].date, now}
    PROVE  Goes(w) /\ worker'[w] = y /\ worker[w] # Idle
<1>1. worker'[w] = y /\ worker[w] # Idle
  BY OneMoves DEF TypeOK, Idle
<1> QED BY <1>1 DEF Goes, Around

LEMMA PlanUpdateMoves ==
    ASSUME TypeOK, ShapeInv, NEW w \in Workers, PlanUpdate(w)
    PROVE  Moves(w)
<1> DEFINE x == worker[w]
           y == [x EXCEPT !.pc = "complete"]
<1>1. x.pc = "plan" /\ UNCHANGED <<jobs, esVars, files>> /\ worker' = [worker EXCEPT ![w] = y]
  BY DEF PlanUpdate, At, Go
<1>2. x \in WorkerState /\ Shape(x) /\ x.task \in {"process", "plugins"} /\ x.job # 0 /\ x.account \in Accounts
  BY <1>1, AtWork DEF Shape, Owing, Working, Idle
<1>3. Around
  BY Faulty, Unspoilt DEF PlanUpdate, Around, TypeOK, billVars
<1>4. /\ y \in WorkerState /\ y.pc = "complete"
      /\ y.task = x.task /\ y.account = x.account /\ y.date = x.date
      /\ y.job = x.job /\ (x.created <=> y.created) /\ y.copy = x.copy /\ y.month = x.month
  BY <1>2 DEF WorkerState, Step
<1>5. \/ UNCHANGED <<row, wrote>>
      \/ /\ row' = [row EXCEPT ![x.account][ColumnOf(x.task)] = now]
         /\ wrote' = [wrote EXCEPT ![x.account][ColumnOf(x.task)] = now]
  BY DEF PlanUpdate
<1> HIDE DEF y
<1>6. Shape(y)
  BY <1>1, <1>2, <1>4 DEF Shape, Working, Owing, Idle
<1>7. Goes(w) /\ worker'[w] = y /\ y # Idle
  <2>1. y # Idle /\ x.pc # "idle"
    BY <1>1, <1>4, IdleIs
  <2>2. Goes(w) /\ worker'[w] = y
    BY <1>1, <1>3, <1>4, <1>6, <2>1, GoesOn
  <2> QED BY <2>1, <2>2
<1>8. JobsMove(w)
  BY <1>1, <1>4, <1>7 DEF JobsMove, JobStays, Stamped
<1>9. RowsMove(w)
  BY <1>2, <1>4, <1>5, <1>7 DEF RowsMove, RowsStay, RowPlanned, Holding
<1>10. ReportsMove(w) /\ FilesMove(w) /\ BillsMove(w)
  BY <1>1, <1>4, <1>7 DEF ReportsMove, FilesMove, SheetMoves, BillsMove, Covering, Stamped, Working
<1> QED BY <1>7, <1>8, <1>9, <1>10 DEF Moves

LEMMA CompleteJobMoves ==
    ASSUME TypeOK, ShapeInv, NEW w \in Workers, CompleteJob(w)
    PROVE  Moves(w)
<1> DEFINE x == worker[w]
<1>1. /\ x.pc = "complete" /\ UNCHANGED <<row, wrote, esVars, files>>
      /\ worker' = [worker EXCEPT ![w] = Idle] /\ UNCHANGED <<now, monthStart, billVars, starts, met>>
  BY DEF CompleteJob, At, End, billVars
<1>2. x \in WorkerState /\ x.account \in Accounts
  BY <1>1, AtWork
<1>3. faults' \in 0 .. MaxFaults
  BY Faulty DEF CompleteJob, TypeOK
<1>4. CASE Abandon(x) /\ UNCHANGED jobs
  BY <1>1, <1>2, <1>3, <1>4, Abandoning, EndMoves DEF Around
<1>5. CASE /\ jobs' = [jobs EXCEPT ![x.job] = Completed(x, @)]
           /\ IF x.created /\ now \in Dates(x.account, "sheet") THEN Spoil(x.account, "second") ELSE UNCHANGED spoilt
  <2>1. Spoil(x.account, "second") \/ (UNCHANGED spoilt /\ (x.created => now \notin Dates(x.account, "sheet")))
    BY <1>5
  <2>2. Around /\ (x.created => now \notin Dates(x.account, "sheet") \/ "second" \in spoilt'[x.account])
    <3>1. CASE Spoil(x.account, "second")
      BY <1>1, <1>2, <1>3, <3>1, Spoiling DEF Around, Causes
    <3>2. CASE UNCHANGED spoilt /\ (x.created => now \notin Dates(x.account, "sheet"))
      BY <1>1, <1>3, <3>2, Unspoilt DEF Around
    <3> QED BY <2>1, <3>1, <3>2
  <2>3. Goes(w) /\ worker'[w] = Idle
    BY <1>1, <2>2, IdleIs, GoesOn
  <2>4. JobsMove(w)
    BY <1>1, <1>5, <2>2, <2>3 DEF JobsMove, JobEnds
  <2>5. RowsMove(w)
    BY <1>1, <2>3 DEF RowsMove, RowsStay
  <2>6. ReportsMove(w) /\ FilesMove(w) /\ BillsMove(w)
    BY <1>1, <2>3, IdleIs DEF ReportsMove, FilesMove, SheetMoves, BillsMove, Covering, Stamped, Working
  <2> QED BY <2>3, <2>4, <2>5, <2>6 DEF Moves
<1> QED BY <1>4, <1>5 DEF CompleteJob

LEMMA CheckDatesMoves ==
    ASSUME TypeOK, ShapeInv, NEW w \in Workers, CheckDates(w)
    PROVE  Moves(w)
<1> DEFINE x == worker[w]
           y == [x EXCEPT !.pc = "register", !.month = 0]
<1>1. x.pc = "dates" /\ UNCHANGED <<jobs, row, wrote, esVars, files>>
  BY DEF CheckDates, At
<1>2. x \in WorkerState /\ Shape(x) /\ x.task \in {"sheet", "master"} /\ x.job = 0 /\ x.account \in Accounts /\ ~x.created
  BY <1>1, AtWork DEF Shape, Owing, Working, Idle
<1>3. Around
  BY Faulty, Unspoilt DEF CheckDates, Around, TypeOK, billVars
<1>4. /\ y \in WorkerState /\ y.pc = "register"
      /\ y.task = x.task /\ y.account = x.account /\ y.date = x.date
      /\ y.job = x.job /\ (x.created <=> y.created) /\ y.copy = x.copy /\ y.month = 0
  <2>1. 0 \in Times
    BY Constants DEF Times
  <2> QED BY <1>2, <2>1 DEF WorkerState, Step
<1>5. worker' = [worker EXCEPT ![w] = y] \/ worker' = [worker EXCEPT ![w] = Idle]
  BY DEF CheckDates, End
<1> HIDE DEF y
<1>6. Shape(y)
  BY <1>1, <1>2, <1>4 DEF Shape, Working, Owing, Idle
<1>7. CASE worker' = [worker EXCEPT ![w] = Idle]
  BY <1>1, <1>2, <1>3, <1>7, EndMoves
<1>8. CASE worker' = [worker EXCEPT ![w] = y]
  <2>1. BillsMove(w)
    BY <1>4, <1>8, OneMoves DEF BillsMove, Covering, Working, TypeOK
  <2> QED BY <1>1, <1>2, <1>3, <1>4, <1>6, <1>8, <2>1, QuietMoves
<1> QED BY <1>5, <1>7, <1>8

\* Those that still owe their job have room for it.
LEMMA Room ==
    ASSUME TypeOK, Counted, NEW w \in ToRegister
    PROVE  Len(jobs) < MaxStarts
<1>1. IsFiniteSet(ToRegister) /\ Cardinality(ToRegister) \in Nat
  BY AccountJobsAssumption, FS_Subset, FS_CardinalityType DEF ToRegister
<1>2. Cardinality(ToRegister) # 0
  BY <1>1, FS_EmptySet
<1>3. Len(jobs) + Cardinality(ToRegister) <= starts /\ starts \in 0 .. MaxStarts /\ Len(jobs) \in Nat
  BY DEF Counted, TypeOK
<1> QED BY <1>1, <1>2, <1>3, Constants

LEMMA RegisterSheetMoves ==
    ASSUME TypeOK, ShapeInv, Counted, NEW w \in Workers, RegisterSheet(w)
    PROVE  Moves(w)
<1> DEFINE x == worker[w]
           pc == IF x.task = "sheet" THEN "generate" ELSE "accounts"
           y == [[x EXCEPT !.job = Len(jobs) + 1] EXCEPT !.pc = pc]
<1>1. x.pc = "register" /\ UNCHANGED <<row, wrote, esVars, files>>
  BY DEF RegisterSheet, At
<1>2. x \in WorkerState /\ Shape(x) /\ x.task \in {"sheet", "master"} /\ x.job = 0 /\ x.account \in Accounts /\ ~x.created
  BY <1>1, AtWork DEF Shape, Owing, Working, Idle
<1>3. Around
  BY Faulty, Unspoilt DEF RegisterSheet, Around, TypeOK, billVars
<1>4. Len(jobs) + 1 \in 0 .. MaxStarts /\ Len(jobs) + 1 # 0
  <2>1. w \in ToRegister
    BY <1>2 DEF ToRegister
  <2>2. Len(jobs) < MaxStarts /\ Len(jobs) \in Nat
    BY <2>1, Room DEF TypeOK
  <2> QED BY <2>2, Constants
<1>5. /\ y \in WorkerState /\ y.pc = pc
      /\ y.task = x.task /\ y.account = x.account /\ y.date = x.date
      /\ y.job = Len(jobs) + 1 /\ (x.created <=> y.created) /\ y.copy = x.copy /\ y.month = x.month
  <2> DEFINE z == [x EXCEPT !.job = Len(jobs) + 1]
  <2>1. /\ z \in WorkerState /\ z.task = x.task /\ z.account = x.account /\ z.date = x.date
        /\ z.job = Len(jobs) + 1 /\ (x.created <=> z.created) /\ z.copy = x.copy /\ z.month = x.month
    BY <1>2, <1>4 DEF WorkerState
  <2>2. pc \in Step
    BY DEF Step
  <2> HIDE DEF z, pc, x
  <2>3. [z EXCEPT !.pc = pc] = y
    BY DEF z
  <2> QED BY <2>1, <2>2, <2>3 DEF WorkerState
<1>6. \/ /\ jobs' = Append(jobs, Pending(x.task, x.account))
         /\ worker' = [worker EXCEPT ![w] = y]
      \/ worker' = [worker EXCEPT ![w] = Idle] /\ UNCHANGED jobs
  <2>1. [worker EXCEPT ![w].job = Len(jobs) + 1, ![w].pc = pc] = [worker EXCEPT ![w] = y]
    BY DEF TypeOK
  <2> QED BY <2>1 DEF RegisterSheet, End
<1> HIDE DEF y
<1>7. Shape(y)
  BY <1>1, <1>2, <1>4, <1>5 DEF Shape, Working, Owing, Idle
<1>8. CASE worker' = [worker EXCEPT ![w] = Idle] /\ UNCHANGED jobs
  BY <1>1, <1>2, <1>3, <1>8, EndMoves
<1>9. CASE jobs' = Append(jobs, Pending(x.task, x.account)) /\ worker' = [worker EXCEPT ![w] = y]
  <2>1. y # Idle /\ x.pc # "idle"
    BY <1>1, <1>5, IdleIs
  <2>2. Goes(w) /\ worker'[w] = y
    BY <1>3, <1>5, <1>7, <1>9, <2>1, GoesOn
  <2>3. JobsMove(w)
    BY <1>1, <1>5, <1>9, <2>2 DEF JobsMove, JobBegins
  <2>4. RowsMove(w)
    BY <1>1, <1>5, <2>2 DEF RowsMove, RowsStay, Holding
  <2>5. ReportsMove(w) /\ FilesMove(w) /\ BillsMove(w)
    BY <1>1, <1>5, <2>2 DEF ReportsMove, FilesMove, SheetMoves, BillsMove, Covering, Stamped, Working
  <2> QED BY <2>2, <2>3, <2>4, <2>5 DEF Moves
<1> QED BY <1>6, <1>8, <1>9

LEMMA GetAccountsMoves ==
    ASSUME TypeOK, ShapeInv, NEW w \in Workers, GetAccounts(w)
    PROVE  Moves(w)
<1> DEFINE x == worker[w]
           y == [x EXCEPT !.pc = "generate"]
<1>1. /\ x.pc = "accounts" /\ UNCHANGED <<jobs, row, wrote, esVars, files>>
      /\ UNCHANGED <<now, monthStart, billVars, starts, met>>
  BY DEF GetAccounts, At, billVars
<1>2. x \in WorkerState /\ Shape(x) /\ x.task = "master" /\ x.job # 0 /\ x.account \in Accounts /\ ~x.created
  BY <1>1, AtWork DEF Shape, Owing, Working, Idle
<1>3. faults' \in 0 .. MaxFaults
  BY Faulty DEF GetAccounts, TypeOK
<1>4. /\ y \in WorkerState /\ y.pc = "generate"
      /\ y.task = x.task /\ y.account = x.account /\ y.date = x.date
      /\ y.job = x.job /\ (x.created <=> y.created) /\ y.copy = x.copy /\ y.month = x.month
  BY <1>2 DEF WorkerState, Step
<1>5. \/ worker' = [worker EXCEPT ![w] = y] /\ UNCHANGED spoilt
      \/ worker' = [worker EXCEPT ![w] = Idle] /\ Abandon(x)
  BY DEF GetAccounts, Go, End
<1> HIDE DEF y
<1>6. Shape(y)
  BY <1>1, <1>2, <1>4 DEF Shape, Working, Owing, Idle
<1>7. CASE worker' = [worker EXCEPT ![w] = Idle] /\ Abandon(x)
  BY <1>1, <1>2, <1>3, <1>7, Abandoning, EndMoves DEF Around
<1>8. CASE worker' = [worker EXCEPT ![w] = y] /\ UNCHANGED spoilt
  <2>1. BillsMove(w)
    BY <1>4, <1>8, OneMoves DEF BillsMove, Covering, Working, TypeOK
  <2>2. Around
    BY <1>1, <1>3, <1>8, Unspoilt DEF Around
  <2> QED BY <1>1, <1>2, <1>4, <1>6, <1>8, <2>1, <2>2, QuietMoves
<1> QED BY <1>5, <1>7, <1>8

LEMMA GenerateMoves ==
    ASSUME TypeOK, ShapeInv, NEW w \in Workers, Generate(w)
    PROVE  Moves(w)
<1> DEFINE x == worker[w]
           reports == monthly \cap (WorksOn(x.task, x.account) \X Resources)
           With(ls) == [x EXCEPT !.pc = "upload", !.month = FileMonth(x), !.seen = ls]
<1>1. /\ x.pc = "generate" /\ UNCHANGED <<jobs, row, wrote, esVars, files>>
      /\ UNCHANGED <<now, monthStart, billVars, starts, met>>
  BY DEF Generate, At, billVars
<1>2. x \in WorkerState /\ Shape(x) /\ x.task \in {"sheet", "master"} /\ x.job # 0 /\ x.account \in Accounts /\ ~x.created
  BY <1>1, AtWork DEF Shape, Owing, Working, Idle
<1>3. faults' \in 0 .. MaxFaults
  BY Faulty DEF Generate, TypeOK
<1>4. FileMonth(x) \in {0, monthStart} /\ FileMonth(x) \in Times /\ reports \subseteq Lines
  BY Constants DEF FileMonth, TypeOK, Times
<1>5. \E ls \in SUBSET reports :
        /\ worker' = [worker EXCEPT ![w] = With(ls)]
        /\ \/ Spoil(x.account, "misnamed") \/ Spoil(x.account, "upload")
           \/ UNCHANGED spoilt /\ FileMonth(x) # 0 /\ ls = reports
  BY DEF Generate
<1>6. PICK ls \in SUBSET reports :
        /\ worker' = [worker EXCEPT ![w] = With(ls)]
        /\ \/ Spoil(x.account, "misnamed") \/ Spoil(x.account, "upload")
           \/ UNCHANGED spoilt /\ FileMonth(x) # 0 /\ ls = reports
  BY <1>5
<1> DEFINE y == With(ls)
<1>7. /\ y \in WorkerState /\ y.pc = "upload" /\ y.seen = ls
      /\ y.task = x.task /\ y.account = x.account /\ y.date = x.date
      /\ y.job = x.job /\ (x.created <=> y.created) /\ y.copy = x.copy /\ y.month = FileMonth(x)
  BY <1>2, <1>4, <1>6 DEF WorkerState, Step
<1>8. worker' = [worker EXCEPT ![w] = y]
  BY <1>6
<1> HIDE DEF y
<1>9. Shape(y)
  BY <1>1, <1>2, <1>7 DEF Shape, Working, Owing, Idle
<1>10. Around /\ (Missed(x.account) \/ (FileMonth(x) # 0 /\ ls = reports))
  <2>1. CASE Spoil(x.account, "misnamed")
    BY <1>1, <1>2, <1>3, <2>1, Spoiling DEF Around, Missed, Misses, Causes
  <2>2. CASE Spoil(x.account, "upload")
    BY <1>1, <1>2, <1>3, <2>2, Spoiling DEF Around, Missed, Misses, Causes
  <2>3. CASE UNCHANGED spoilt /\ FileMonth(x) # 0 /\ ls = reports
    BY <1>1, <1>3, <2>3, Unspoilt DEF Around
  <2> QED BY <1>6, <2>1, <2>2, <2>3
<1>11. y # Idle /\ x.pc # "idle"
  BY <1>1, <1>7, IdleIs
<1>12. Goes(w) /\ worker'[w] = y
  <2>1. y \in WorkerState /\ y.month \in {0, x.month, monthStart} /\ y.date \in {0, x.date, now}
    BY <1>4, <1>7
  <2>2. y = Idle \/ (y.task = x.task /\ y.account = x.account)
    BY <1>7
  <2> HIDE DEF With, reports
  <2> QED BY <1>8, <1>9, <1>10, <1>11, <2>1, <2>2, GoesOn
<1>13. JobsMove(w)
  BY <1>1, <1>2, <1>7, <1>11, <1>12 DEF JobsMove, JobStays, Stamped
<1>14. RowsMove(w)
  BY <1>1, <1>7, <1>12 DEF RowsMove, RowsStay, Holding
<1>15. ReportsMove(w) /\ BillsMove(w)
  BY <1>1, <1>7, <1>12 DEF ReportsMove, BillsMove, Covering, Working
<1>16. FilesMove(w)
  BY <1>1, <1>4, <1>7, <1>10, <1>12 DEF FilesMove, SheetMoves, Stamped
<1> QED BY <1>12, <1>13, <1>14, <1>15, <1>16 DEF Moves

LEMMA UploadMoves ==
    ASSUME TypeOK, ShapeInv, NEW w \in Workers, Upload(w)
    PROVE  Moves(w)
<1> DEFINE x == worker[w]
           y == [x EXCEPT !.pc = "stamp", !.month = 0, !.seen = {}]
<1>1. /\ x.pc = "upload" /\ UNCHANGED <<jobs, row, wrote, esVars>>
      /\ UNCHANGED <<now, monthStart, billVars, starts, met>>
      /\ worker' = [worker EXCEPT ![w] = y]
  BY DEF Upload, At, billVars
<1>2. x \in WorkerState /\ Shape(x) /\ x.task \in {"sheet", "master"} /\ x.job # 0 /\ x.account \in Accounts /\ ~x.created
  BY <1>1, AtWork DEF Shape, Owing, Working, Idle
<1>3. faults' \in 0 .. MaxFaults
  BY Faulty DEF Upload, TypeOK
<1>4. /\ y \in WorkerState /\ y.pc = "stamp"
      /\ y.task = x.task /\ y.account = x.account /\ y.date = x.date
      /\ y.job = x.job /\ (x.created <=> y.created) /\ y.copy = x.copy /\ y.month = 0
  <2>1. 0 \in Times
    BY Constants DEF Times
  <2> QED BY <1>2, <2>1 DEF WorkerState, Step
<1>5. \/ Spoil(x.account, "upload") /\ UNCHANGED files
      \/ UNCHANGED spoilt /\ x.month # monthStart /\ UNCHANGED files
      \/ /\ UNCHANGED spoilt /\ x.month = monthStart
         /\ \/ x.task = "sheet" /\ file' = [file EXCEPT ![x.account] = x.seen] /\ UNCHANGED masterFile
            \/ x.task = "master" /\ masterFile' = [masterFile EXCEPT ![x.account] = x.seen] /\ UNCHANGED file
  BY <1>2 DEF Upload, Past
<1> HIDE DEF y
<1>6. Shape(y)
  BY <1>1, <1>2, <1>4 DEF Shape, Working, Owing, Idle
<1>7. Around /\ (UNCHANGED spoilt \/ Missed(x.account))
  <2>1. CASE Spoil(x.account, "upload")
    BY <1>1, <1>2, <1>3, <2>1, Spoiling DEF Around, Missed, Misses, Causes
  <2>2. CASE UNCHANGED spoilt
    BY <1>1, <1>3, <2>2, Unspoilt DEF Around
  <2> QED BY <1>5, <2>1, <2>2
<1>8. y # Idle /\ x.pc # "idle"
  BY <1>1, <1>4, IdleIs
<1>9. Goes(w) /\ worker'[w] = y
  BY <1>1, <1>4, <1>6, <1>7, <1>8, GoesOn
<1>10. JobsMove(w)
  BY <1>1, <1>2, <1>4, <1>8, <1>9 DEF JobsMove, JobStays, Stamped
<1>11. RowsMove(w)
  BY <1>1, <1>4, <1>9 DEF RowsMove, RowsStay, Holding
<1>12. ReportsMove(w) /\ BillsMove(w)
  BY <1>1, <1>4, <1>9 DEF ReportsMove, BillsMove, Covering, Working
<1>13. FilesMove(w)
  <2>1. SheetMoves(x, y)
    BY <1>1, <1>4 DEF SheetMoves, Stamped
  <2>2. CASE Spoil(x.account, "upload") /\ UNCHANGED files
    <3>1. Missed(x.account)
      BY <1>2, <2>2, Spoiling DEF Missed, Misses, Causes
    <3> QED BY <1>9, <2>1, <2>2, <3>1 DEF FilesMove
  <2>3. CASE x.month # monthStart /\ UNCHANGED files
    BY <1>9, <2>1, <2>3 DEF FilesMove
  <2>4. CASE /\ x.month = monthStart
             /\ \/ x.task = "sheet" /\ file' = [file EXCEPT ![x.account] = x.seen] /\ UNCHANGED masterFile
                \/ x.task = "master" /\ masterFile' = [masterFile EXCEPT ![x.account] = x.seen] /\ UNCHANGED file
    BY <1>1, <1>4, <1>9, <2>1, <2>4 DEF FilesMove, FileUploaded
  <2> QED BY <1>5, <2>2, <2>3, <2>4
<1> QED BY <1>9, <1>10, <1>11, <1>12, <1>13 DEF Moves

LEMMA StampMoves ==
    ASSUME TypeOK, ShapeInv, NEW w \in Workers, Stamp(w)
    PROVE  Moves(w)
<1> DEFINE x == worker[w]
           y == [x EXCEPT !.pc = "read", !.date = now]
<1>1. /\ x.pc = "stamp" /\ UNCHANGED <<row, wrote, esVars, files>>
      /\ UNCHANGED <<now, monthStart, billVars, starts, met>>
  BY DEF Stamp, At, billVars
<1>2. x \in WorkerState /\ Shape(x) /\ x.task \in {"sheet", "master"} /\ x.job # 0 /\ x.account \in Accounts /\ ~x.created
  BY <1>1, AtWork DEF Shape, Owing, Working, Idle
<1>3. faults' \in 0 .. MaxFaults
  BY Faulty DEF Stamp, TypeOK
<1>4. /\ y \in WorkerState /\ y.pc = "read"
      /\ y.task = x.task /\ y.account = x.account /\ y.date = now
      /\ y.job = x.job /\ (x.created <=> y.created) /\ y.copy = x.copy /\ y.month = x.month
  BY <1>2 DEF WorkerState, Step, TypeOK
<1>5. \/ /\ jobs' = [jobs EXCEPT ![x.job].completed = now] /\ UNCHANGED spoilt
         /\ worker' = [worker EXCEPT ![w] = y] \/ worker' = [worker EXCEPT ![w] = Idle]
      \/ worker' = [worker EXCEPT ![w] = Idle] /\ Abandon(x) /\ UNCHANGED jobs
  BY DEF Stamp, End
<1> HIDE DEF y
<1>6. Shape(y)
  BY <1>1, <1>2, <1>4 DEF Shape, Working, Owing, Idle
<1>7. CASE worker' = [worker EXCEPT ![w] = Idle] /\ Abandon(x) /\ UNCHANGED jobs
  BY <1>1, <1>2, <1>3, <1>7, Abandoning, EndMoves DEF Around
<1>8. ASSUME NEW z \in {y, Idle}, worker' = [worker EXCEPT ![w] = z],
             jobs' = [jobs EXCEPT ![x.job].completed = now], UNCHANGED spoilt
      PROVE  Moves(w)
  <2>1. Around
    BY <1>1, <1>3, <1>8, Unspoilt DEF Around
  <2>2. Goes(w) /\ worker'[w] = z /\ x.pc # "idle"
    <3>1. CASE z = y
      BY <1>1, <1>4, <1>6, <1>8, <2>1, <3>1, GoesOn
    <3>2. CASE z = Idle
      BY <1>1, <1>8, <2>1, <3>2, IdleIs, GoesOn
    <3> QED BY <1>8, <3>1, <3>2
  <2>3. JobsMove(w)
    BY <1>1, <1>4, <1>8, <2>2 DEF JobsMove, JobStamped
  <2>4. RowsMove(w)
    BY <1>1, <1>4, <1>8, <2>2 DEF RowsMove, RowsStay, Holding
  <2>5. ReportsMove(w) /\ FilesMove(w) /\ BillsMove(w)
    BY <1>1, <1>4, <1>8, <2>2, IdleIs DEF ReportsMove, FilesMove, SheetMoves, BillsMove, Covering, Stamped, Working
  <2> QED BY <2>2, <2>3, <2>4, <2>5 DEF Moves
<1> QED BY <1>5, <1>7, <1>8

LEMMA ReadRowMoves ==
    ASSUME TypeOK, ShapeInv, NEW w \in Workers, ReadRow(w)
    PROVE  Moves(w)
<1> DEFINE x == worker[w]
           y == [x EXCEPT !.pc = "write", !.copy = row[x.account]]
<1>1. x.pc = "read" /\ UNCHANGED <<jobs, row, wrote, esVars, files>>
  BY DEF ReadRow, At
<1>2. x \in WorkerState /\ Shape(x) /\ x.task \in {"sheet", "master"} /\ x.job # 0 /\ x.account \in Accounts /\ ~x.created
  BY <1>1, AtWork DEF Shape, Owing, Working, Idle
<1>3. Around
  BY Faulty, Unspoilt DEF ReadRow, Around, TypeOK, billVars
<1>4. /\ y \in WorkerState /\ y.pc = "write"
      /\ y.task = x.task /\ y.account = x.account /\ y.date = x.date
      /\ y.job = x.job /\ (x.created <=> y.created) /\ y.copy = row[x.account] /\ y.month = x.month
  <2>1. row[x.account] \in Row
    BY <1>2 DEF TypeOK
  <2> QED BY <1>2, <2>1 DEF WorkerState, Step
<1>5. worker' = [worker EXCEPT ![w] = y] \/ worker' = [worker EXCEPT ![w] = Idle]
  BY DEF ReadRow, End
<1> HIDE DEF y
<1>6. Shape(y)
  BY <1>1, <1>2, <1>4 DEF Shape, Working, Owing, Idle
<1>7. CASE worker' = [worker EXCEPT ![w] = Idle]
  BY <1>1, <1>2, <1>3, <1>7, EndMoves DEF Stamped
<1>8. CASE worker' = [worker EXCEPT ![w] = y]
  <2>1. Goes(w) /\ worker'[w] = y /\ y # Idle
    <3>1. y # Idle /\ x.pc # "idle"
      BY <1>1, <1>4, IdleIs
    <3>2. Goes(w) /\ worker'[w] = y
      BY <1>3, <1>4, <1>6, <1>8, <3>1, GoesOn
    <3> QED BY <3>1, <3>2
  <2>2. JobsMove(w)
    BY <1>1, <1>2, <1>4, <2>1 DEF JobsMove, JobStays, Stamped
  <2>3. RowsMove(w)
    BY <1>1, <1>4, <2>1 DEF RowsMove, RowsStay
  <2>4. ReportsMove(w) /\ FilesMove(w) /\ BillsMove(w)
    BY <1>1, <1>4, <2>1 DEF ReportsMove, FilesMove, SheetMoves, BillsMove, Covering, Stamped, Working
  <2> QED BY <2>1, <2>2, <2>3, <2>4 DEF Moves
<1> QED BY <1>5, <1>7, <1>8

LEMMA DetectMoves ==
    ASSUME TypeOK, ShapeInv, NEW w \in Workers, Detect(w)
    PROVE  Moves(w)
<1> DEFINE x == worker[w]
           y == [x EXCEPT !.pc = "write", !.date = now]
<1>1. x.pc = "detect" /\ UNCHANGED <<jobs, row, wrote, esVars, files>>
  BY DEF Detect, At, history
<1>2. x \in WorkerState /\ Shape(x) /\ x.task = "anomalies" /\ x.job = 0 /\ x.account \in Accounts /\ ~x.created
  BY <1>1, AtWork DEF Shape, Owing, Working, Idle
<1>3. Around
  BY Faulty, Unspoilt DEF Detect, Around, TypeOK, billVars, history
<1>4. /\ y \in WorkerState /\ y.pc = "write"
      /\ y.task = x.task /\ y.account = x.account /\ y.date = now
      /\ y.job = x.job /\ (x.created <=> y.created) /\ y.copy = x.copy /\ y.month = x.month
  BY <1>2 DEF WorkerState, Step, TypeOK
<1>5. worker' = [worker EXCEPT ![w] = y] \/ worker' = [worker EXCEPT ![w] = Idle]
  BY DEF Detect
<1> HIDE DEF y
<1>6. Shape(y)
  BY <1>1, <1>2, <1>4 DEF Shape, Working, Owing, Idle
<1>7. CASE worker' = [worker EXCEPT ![w] = Idle]
  BY <1>1, <1>2, <1>3, <1>7, EndMoves
<1>8. CASE worker' = [worker EXCEPT ![w] = y]
  <2>1. Goes(w) /\ worker'[w] = y /\ y # Idle
    <3>1. y # Idle /\ x.pc # "idle"
      BY <1>1, <1>4, IdleIs
    <3>2. Goes(w) /\ worker'[w] = y
      BY <1>3, <1>4, <1>6, <1>8, <3>1, GoesOn
    <3> QED BY <3>1, <3>2
  <2>2. JobsMove(w)
    BY <1>1, <1>2, <1>4, <2>1 DEF JobsMove, JobStays, Stamped
  <2>3. RowsMove(w)
    BY <1>1, <1>4, <2>1 DEF RowsMove, RowsStay, Holding
  <2>4. ReportsMove(w) /\ FilesMove(w) /\ BillsMove(w)
    BY <1>1, <1>2, <1>4, <2>1 DEF ReportsMove, FilesMove, SheetMoves, BillsMove, Covering, Stamped, Working
  <2> QED BY <2>1, <2>2, <2>3, <2>4 DEF Moves
<1> QED BY <1>5, <1>7, <1>8

LEMMA WriteRowMoves ==
    ASSUME TypeOK, ShapeInv, NEW w \in Workers, WriteRow(w)
    PROVE  Moves(w)
<1> DEFINE x == worker[w]
           seconds == {m \in Masters : x.account \in AccountsOf(m) /\ x.date \in Dates(m, "master")}
<1>1. /\ x.pc = "write" /\ UNCHANGED <<jobs, esVars, files>>
      /\ UNCHANGED <<now, monthStart, billVars, starts, met>>
      /\ worker' = [worker EXCEPT ![w] = Idle]
  BY DEF WriteRow, At, End, billVars
<1>2. x \in WorkerState /\ x.account \in Accounts /\ ~x.created
  BY <1>1, AtWork DEF Shape, Owing, Working, Idle
<1>3. faults' \in 0 .. MaxFaults
  BY Faulty DEF WriteRow, TypeOK
<1>4. \/ UNCHANGED <<row, wrote, spoilt>>
      \/ /\ row' = [row EXCEPT ![x.account] = RowToWrite(x)]
         /\ wrote' = [wrote EXCEPT ![x.account][ColumnOf(x.task)] = x.date]
         /\ Spoil(x.account, "second") \/ (UNCHANGED spoilt /\ (x.task # "sheet" \/ seconds = {}))
  BY DEF WriteRow
<1>5. CASE UNCHANGED <<row, wrote, spoilt>>
  <2>1. Around
    BY <1>1, <1>3, <1>5, Unspoilt DEF Around
  <2> QED BY <1>1, <1>2, <1>5, <2>1, EndMoves DEF Stamped
<1>6. CASE /\ row' = [row EXCEPT ![x.account] = RowToWrite(x)]
           /\ wrote' = [wrote EXCEPT ![x.account][ColumnOf(x.task)] = x.date]
           /\ Spoil(x.account, "second") \/ (UNCHANGED spoilt /\ (x.task # "sheet" \/ seconds = {}))
  <2>1. Around /\ ("second" \in spoilt'[x.account] \/ x.task # "sheet" \/ seconds = {})
    <3>1. CASE Spoil(x.account, "second")
      BY <1>1, <1>2, <1>3, <3>1, Spoiling DEF Around, Causes
    <3>2. CASE UNCHANGED spoilt /\ (x.task # "sheet" \/ seconds = {})
      BY <1>1, <1>3, <3>2, Unspoilt DEF Around
    <3> QED BY <1>6, <3>1, <3>2
  <2>2. Goes(w) /\ worker'[w] = Idle
    BY <1>1, <2>1, IdleIs, GoesOn
  <2>3. JobsMove(w)
    BY <1>1, <1>2, <2>2 DEF JobsMove, JobStays, Stamped
  <2>4. RowsMove(w)
    BY <1>1, <1>6, <2>1, <2>2 DEF RowsMove, RowWritten
  <2>5. ReportsMove(w) /\ FilesMove(w) /\ BillsMove(w)
    BY <1>1, <2>2, IdleIs DEF ReportsMove, FilesMove, SheetMoves, BillsMove, Covering, Stamped, Working
  <2> QED BY <2>2, <2>3, <2>4, <2>5 DEF Moves
<1> QED BY <1>4, <1>5, <1>6

\* All that a task does is in Moves.
LEMMA WorkMoves ==
    ASSUME TypeOK, ShapeInv, Counted, NEW w \in Workers, Work(w) \/ Crash(w)
    PROVE  Moves(w)
BY DailyReportsMoves, CheckBillsMoves, ReadCostsMoves, CheckExistsMoves, ImportReportMoves,
   RunPluginsMoves, PlanUpdateMoves, CompleteJobMoves, CheckDatesMoves, RegisterSheetMoves,
   GetAccountsMoves, GenerateMoves, UploadMoves, StampMoves, ReadRowMoves, DetectMoves, WriteRowMoves,
   CrashMoves DEF Work

-----------------------------------------------------------------------------
(* A new task *)

Begun(w) ==
    LET y == worker'[w] IN
    /\ worker[w] = Idle /\ worker' = [worker EXCEPT ![w] = y]
    /\ y \in WorkerState /\ Shape(y) /\ y # Idle /\ ~y.created /\ y.month = 0 /\ y.date = 0
    /\ y.pc \in {"daily", "run", "bills", "dates", "register", "detect"}
    /\ y.copy = IF y.pc = "detect" THEN row[y.account] ELSE NoRow
    /\ \/ jobs' = jobs /\ y.job = 0
       \/ /\ jobs' = Append(jobs, Pending(y.task, y.account)) /\ y.job = Len(jobs) + 1
          /\ y.task \in {"process", "plugins"}
    /\ starts < MaxStarts /\ starts' = starts + 1 /\ Meet(y.task, y.account)
    /\ UNCHANGED <<now, monthStart, billVars, esVars, row, files, faults, spoilt, wrote>>

LEMMA JobsFit ==
    ASSUME TypeOK, Counted, starts < MaxStarts
    PROVE  Len(jobs) + 1 \in 0 .. MaxStarts /\ Len(jobs) + 1 # 0
<1>1. IsFiniteSet(ToRegister) /\ Cardinality(ToRegister) \in Nat
  BY AccountJobsAssumption, FS_Subset, FS_CardinalityType DEF ToRegister
<1>2. Len(jobs) + Cardinality(ToRegister) <= starts /\ starts \in 0 .. MaxStarts /\ Len(jobs) \in Nat
  BY DEF Counted, TypeOK
<1> QED BY <1>1, <1>2, Constants

LEMMA Starting ==
    ASSUME TypeOK, NEW w \in Workers, NEW a \in Accounts, NEW k \in Tasks, NEW y \in WorkerState, Start(w, k, a, y),
           Shape(y), y.task = k, y.account = a, ~y.created, y.month = 0, y.date = 0,
           y.pc \in {"daily", "run", "bills", "dates", "register", "detect"},
           y.copy = IF y.pc = "detect" THEN row[a] ELSE NoRow,
           \/ jobs' = jobs /\ y.job = 0
           \/ jobs' = Append(jobs, Pending(k, a)) /\ y.job = Len(jobs) + 1 /\ k \in {"process", "plugins"}
    PROVE  Begun(w)
<1>1. worker'[w] = y /\ worker' = [worker EXCEPT ![w] = y] /\ worker[w] = Idle
  BY OneMoves DEF Start, TypeOK
<1>2. y # Idle
  BY IdleIs
<1> QED BY <1>1, <1>2 DEF Start, Begun

LEMMA Begins ==
    ASSUME TypeOK, Counted, NEW w \in Workers, Begin(w)
    PROVE  Begun(w)
<1>1. PICK a \in Accounts :
        \/ StartProcess(w, a) \/ StartPlugins(w, a) \/ StartAnomalies(w, a)
        \/ \E forced \in BOOLEAN : StartSheet(w, a, forced) \/ StartMaster(w, a, forced)
  BY DEF Begin
<1>2. Idle \in WorkerState /\ Idle.month = 0 /\ Idle.date = 0 /\ ~Idle.created /\ Idle.job = 0 /\ Idle.copy = NoRow
  BY IdleIs DEF Idle
<1>3. starts < MaxStarts => Len(jobs) + 1 \in 0 .. MaxStarts /\ Len(jobs) + 1 # 0
  BY JobsFit
<1>4. CASE StartProcess(w, a)
  <2> DEFINE y == [Idle EXCEPT !.task = "process", !.account = a, !.pc = "daily", !.job = Len(jobs) + 1]
  <2>1. /\ Start(w, "process", a, y) /\ jobs' = Append(jobs, Pending("process", a))
        /\ Len(jobs) + 1 \in 0 .. MaxStarts /\ Len(jobs) + 1 # 0
    BY <1>3, <1>4 DEF StartProcess, Start
  <2>2. /\ y \in WorkerState /\ y.task = "process" /\ y.account = a /\ y.pc = "daily" /\ y.job = Len(jobs) + 1
        /\ ~y.created /\ y.month = 0 /\ y.date = 0 /\ y.copy = NoRow
    BY <1>2, <2>1 DEF WorkerState, Tasks, Step
  <2> HIDE DEF y
  <2>3. Shape(y) /\ "process" \in Tasks
    BY <2>1, <2>2 DEF Shape, Working, Owing, Tasks
  <2> QED BY <2>1, <2>2, <2>3, Starting
<1>5. CASE StartPlugins(w, a)
  <2> DEFINE y == [Idle EXCEPT !.task = "plugins", !.account = a, !.pc = "run", !.job = Len(jobs) + 1]
  <2>1. /\ Start(w, "plugins", a, y) /\ jobs' = Append(jobs, Pending("plugins", a))
        /\ Len(jobs) + 1 \in 0 .. MaxStarts /\ Len(jobs) + 1 # 0
    BY <1>3, <1>5 DEF StartPlugins, Start
  <2>2. /\ y \in WorkerState /\ y.task = "plugins" /\ y.account = a /\ y.pc = "run" /\ y.job = Len(jobs) + 1
        /\ ~y.created /\ y.month = 0 /\ y.date = 0 /\ y.copy = NoRow
    BY <1>2, <2>1 DEF WorkerState, Tasks, Step
  <2> HIDE DEF y
  <2>3. Shape(y) /\ "plugins" \in Tasks
    BY <2>1, <2>2 DEF Shape, Working, Owing, Tasks
  <2> QED BY <2>1, <2>2, <2>3, Starting
<1>6. CASE StartAnomalies(w, a)
  <2> DEFINE y == [Idle EXCEPT !.task = "anomalies", !.account = a, !.pc = "detect", !.copy = row[a]]
  <2>1. Start(w, "anomalies", a, y) /\ jobs' = jobs /\ row[a] \in Row
    BY <1>6 DEF StartAnomalies, TypeOK
  <2>2. /\ y \in WorkerState /\ y.task = "anomalies" /\ y.account = a /\ y.pc = "detect" /\ y.job = 0
        /\ ~y.created /\ y.month = 0 /\ y.date = 0 /\ y.copy = row[a]
    BY <1>2, <2>1 DEF WorkerState, Tasks, Step
  <2> HIDE DEF y
  <2>3. Shape(y) /\ "anomalies" \in Tasks
    BY <2>1, <2>2 DEF Shape, Working, Owing, Tasks
  <2> QED BY <2>1, <2>2, <2>3, Starting
<1>7. ASSUME NEW forced \in BOOLEAN, StartSheet(w, a, forced)
      PROVE  Begun(w)
  <2> DEFINE pc == IF forced THEN "register" ELSE "bills"
             y == [Idle EXCEPT !.task = "sheet", !.account = a, !.forced = forced, !.pc = pc]
  <2>1. Start(w, "sheet", a, y) /\ jobs' = jobs /\ pc \in {"register", "bills"}
    BY <1>7 DEF StartSheet
  <2> HIDE DEF pc
  <2>2. /\ y \in WorkerState /\ y.task = "sheet" /\ y.account = a /\ y.pc = pc /\ y.job = 0
        /\ ~y.created /\ y.month = 0 /\ y.date = 0 /\ y.copy = NoRow
    BY <1>2, <2>1 DEF WorkerState, Tasks, Step
  <2> HIDE DEF y
  <2>3. Shape(y) /\ "sheet" \in Tasks
    BY <2>1, <2>2 DEF Shape, Working, Owing, Tasks
  <2> QED BY <2>1, <2>2, <2>3, Starting
<1>8. ASSUME NEW forced \in BOOLEAN, StartMaster(w, a, forced)
      PROVE  Begun(w)
  <2> DEFINE pc == IF forced THEN "register" ELSE "dates"
             y == [Idle EXCEPT !.task = "master", !.account = a, !.forced = forced, !.pc = pc]
  <2>1. Start(w, "master", a, y) /\ jobs' = jobs /\ pc \in {"register", "dates"} /\ a \in Masters
    BY <1>8 DEF StartMaster
  <2> HIDE DEF pc
  <2>2. /\ y \in WorkerState /\ y.task = "master" /\ y.account = a /\ y.pc = pc /\ y.job = 0
        /\ ~y.created /\ y.month = 0 /\ y.date = 0 /\ y.copy = NoRow
    BY <1>2, <2>1 DEF WorkerState, Tasks, Step
  <2> HIDE DEF y
  <2>3. Shape(y) /\ "master" \in Tasks
    BY <2>1, <2>2 DEF Shape, Working, Owing, Tasks
  <2> QED BY <2>1, <2>2, <2>3, Starting
<1> QED BY <1>1, <1>4, <1>5, <1>6, <1>7, <1>8

-----------------------------------------------------------------------------
(* The rows of jobs *)

\* What a step of the task x does to them; its own is completed now or left.
JobsAfter(x, y) ==
    /\ jobs' \in Seq(Job)
    /\ \A i \in 1 .. Len(jobs) : jobs'[i].kind = jobs[i].kind /\ jobs'[i].account = jobs[i].account
    /\ \A i \in 1 .. Len(jobs) : jobs'[i] = jobs[i] \/ i = x.job
    /\ \/ Len(jobs') = Len(jobs)
       \/ /\ Len(jobs') = Len(jobs) + 1 /\ y.job = Len(jobs') /\ x.job = 0 /\ x.pc = "register"
          /\ jobs'[Len(jobs')] = Pending(x.task, x.account) /\ y.pc \notin Stamped
    /\ x.job # 0 =>
          \/ jobs'[x.job] = jobs[x.job] /\ JobStays(x, y)
          \/ /\ x.pc = "stamp" /\ jobs'[x.job].completed = now /\ (jobs'[x.job].monthly <=> jobs[x.job].monthly)
             /\ y = Idle \/ (y.pc \in Stamped /\ y.job = x.job)
          \/ /\ x.pc = "complete" /\ jobs'[x.job].completed = now /\ (jobs'[x.job].monthly <=> x.created)
             /\ y = Idle /\ (x.created => now \notin Dates(x.account, "sheet") \/ "second" \in spoilt'[x.account])

LEMMA JobTyped ==
    ASSUME TypeOK
    PROVE  /\ \A k \in Tasks, a \in Accounts : Pending(k, a) \in Job
           /\ \A j \in Job : /\ [j EXCEPT !.completed = now] \in Job
                             /\ [j EXCEPT !.completed = now].completed = now
                             /\ [j EXCEPT !.completed = now].kind = j.kind
                             /\ [j EXCEPT !.completed = now].account = j.account
                             /\ [j EXCEPT !.completed = now].monthly <=> j.monthly
           /\ \A j \in Job, x \in WorkerState :
                 /\ Completed(x, j) \in Job /\ Completed(x, j).completed = now
                 /\ Completed(x, j).kind = j.kind /\ Completed(x, j).account = j.account
                 /\ Completed(x, j).monthly <=> x.created
<1>1. now \in Times /\ 0 \in Times
  BY Constants DEF TypeOK, Times
<1>2. \A k \in Tasks, a \in Accounts : Pending(k, a) \in Job
  BY <1>1 DEF Pending, Job
<1>3. ASSUME NEW j \in Job
      PROVE  /\ [j EXCEPT !.completed = now] \in Job
             /\ [j EXCEPT !.completed = now].completed = now
             /\ [j EXCEPT !.completed = now].kind = j.kind
             /\ [j EXCEPT !.completed = now].account = j.account
             /\ [j EXCEPT !.completed = now].monthly <=> j.monthly
  BY <1>1, <1>3 DEF Job
<1>4. ASSUME NEW j \in Job, NEW x \in WorkerState
      PROVE  /\ Completed(x, j) \in Job /\ Completed(x, j).completed = now
             /\ Completed(x, j).kind = j.kind /\ Completed(x, j).account = j.account
             /\ Completed(x, j).monthly <=> x.created
  <2>1. x.created \in BOOLEAN
    BY DEF WorkerState
  <2> QED BY <1>1, <2>1 DEF Job, Completed
<1> QED BY <1>2, <1>3, <1>4

LEMMA JobsMoved ==
    ASSUME TypeOK, ShapeInv, NEW w \in Workers, Goes(w), JobsMove(w)
    PROVE  JobsAfter(worker[w], worker'[w])
<1> DEFINE x == worker[w]
           y == worker'[w]
<1>1. x \in WorkerState /\ Shape(x) /\ x # Idle /\ x.account \in Accounts /\ x.task \in Tasks
  BY AtWork DEF Goes
<1>2. jobs \in Seq(Job) /\ Len(jobs) \in Nat /\ x.job \in Nat /\ x.job <= Len(jobs) /\ Pending(x.task, x.account) \in Job
  BY <1>1, JobTyped DEF TypeOK, WorkerState
<1>3. CASE JobStays(x, y)
  BY <1>2, <1>3 DEF JobsAfter, JobStays
<1>4. CASE JobBegins(x, y)
  <2>1. x.job = 0
    BY <1>1, <1>4 DEF JobBegins, Shape, Owing, Working, Idle
  <2>2. /\ jobs' \in Seq(Job) /\ Len(jobs') = Len(jobs) + 1
        /\ \A i \in 1 .. Len(jobs) : jobs'[i] = jobs[i]
        /\ jobs'[Len(jobs')] = Pending(x.task, x.account)
    BY <1>2, <1>4 DEF JobBegins
  <2> QED BY <1>4, <2>1, <2>2 DEF JobsAfter, JobBegins, Stamped
<1>5. CASE JobEnds(x, y)
  <2>1. x.job \in 1 .. Len(jobs)
    BY <1>1, <1>2, <1>5 DEF JobEnds, Shape, Owing, Working, Idle
  <2> DEFINE j == jobs[x.job]
             e == Completed(x, j)
  <2>2. j \in Job
    BY <1>2, <2>1, ElementOfSeq
  <2>3. e \in Job /\ e.completed = now /\ e.kind = j.kind /\ e.account = j.account /\ (e.monthly <=> x.created)
    BY <1>1, <2>2, JobTyped
  <2>4. jobs' = [jobs EXCEPT ![x.job] = e]
    BY <1>5 DEF JobEnds
  <2> HIDE DEF e
  <2>5. /\ jobs' \in Seq(Job) /\ Len(jobs') = Len(jobs)
        /\ \A i \in 1 .. Len(jobs) : jobs'[i] = IF i = x.job THEN e ELSE jobs[i]
    BY <1>2, <2>1, <2>3, <2>4, ExceptSeq
  <2> QED BY <1>5, <2>1, <2>3, <2>5 DEF JobsAfter, JobEnds
<1>6. CASE JobStamped(x, y)
  <2>1. x.job \in 1 .. Len(jobs)
    BY <1>1, <1>2, <1>6 DEF JobStamped, Shape, Owing, Working, Idle
  <2> DEFINE j == jobs[x.job]
             e == [j EXCEPT !.completed = now]
  <2>2. j \in Job
    BY <1>2, <2>1, ElementOfSeq
  <2>3. e \in Job /\ e.completed = now /\ e.kind = j.kind /\ e.account = j.account /\ (e.monthly <=> j.monthly)
    BY <2>2, JobTyped
  <2>4. jobs' = [jobs EXCEPT ![x.job] = e]
    BY <1>6 DEF JobStamped
  <2> HIDE DEF e
  <2>5. /\ jobs' \in Seq(Job) /\ Len(jobs') = Len(jobs)
        /\ \A i \in 1 .. Len(jobs) : jobs'[i] = IF i = x.job THEN e ELSE jobs[i]
    BY <1>2, <2>1, <2>3, <2>4, ExceptSeq
  <2> QED BY <1>6, <2>1, <2>3, <2>5 DEF JobsAfter, JobStamped, Stamped
<1> QED BY <1>3, <1>4, <1>5, <1>6 DEF JobsMove

-----------------------------------------------------------------------------
(* The types *)

LEMMA Dating ==
    ASSUME NEW R \in [Accounts -> Row], NEW a \in Accounts, NEW c \in Columns, NEW t \in Times
    PROVE  /\ [R EXCEPT ![a][c] = t] \in [Accounts -> Row]
           /\ [R EXCEPT ![a][c] = t][a][c] = t
           /\ \A d \in Columns \ {c} : [R EXCEPT ![a][c] = t][a][d] = R[a][d]
           /\ \A b \in Accounts \ {a} : [R EXCEPT ![a][c] = t][b] = R[b]
BY DEF Row

LEMMA Writing ==
    ASSUME TypeOK, NEW x \in WorkerState, x.task \in Tasks
    PROVE  /\ RowToWrite(x) \in Row /\ RowToWrite(x)[ColumnOf(x.task)] = x.date
           /\ \A d \in Columns \ {ColumnOf(x.task)} : RowToWrite(x)[d] = x.copy[d]
<1>1. ColumnOf(x.task) \in Columns /\ x.copy \in Row /\ x.date \in Times
  BY Constants DEF WorkerState
<1> QED BY <1>1 DEF RowToWrite, Row

LEMMA CoverageFits ==
    ASSUME TypeOK, Counted, NEW a \in Accounts, NEW w \in ToCover(a)
    PROVE  coverage[a] + 1 \in 0 .. MaxStarts /\ coverage[a] < starts
<1>1. IsFiniteSet(ToCover(a)) /\ Cardinality(ToCover(a)) \in Nat
  BY AccountJobsAssumption, FS_Subset, FS_CardinalityType DEF ToCover, Covering
<1>2. Cardinality(ToCover(a)) # 0
  BY <1>1, FS_EmptySet
<1>3. coverage[a] + Cardinality(ToCover(a)) <= starts /\ starts \in 0 .. MaxStarts /\ coverage[a] \in Nat
  BY DEF Counted, TypeOK
<1> QED BY <1>1, <1>2, <1>3, Constants

LEMMA MovesTyped ==
    ASSUME TypeOK, ShapeInv, Counted, NEW w \in Workers, Moves(w)
    PROVE  TypeOK'
<1> DEFINE x == worker[w]
           y == worker'[w]
           a == x.account
<1>1. Goes(w) /\ JobsMove(w) /\ RowsMove(w) /\ ReportsMove(w) /\ FilesMove(w)
  BY DEF Moves
<1>2. x \in WorkerState /\ Shape(x) /\ a \in Accounts /\ x.task \in Tasks /\ now \in Times
  BY <1>1, AtWork DEF Goes, TypeOK
<1>3. UNCHANGED <<now, monthStart, bills, ingesting, starts, met>> /\ faults' \in 0 .. MaxFaults /\ spoilt' \in [Accounts -> SUBSET Causes]
  BY <1>1 DEF Goes, billVars
<1>4. worker' \in [Workers -> WorkerState]
  BY <1>1, OneMoves DEF Goes, TypeOK
<1>5. jobs' \in Seq(Job) /\ \A v \in Workers : worker'[v].job <= Len(jobs')
  <2>1. JobsAfter(x, y)
    BY <1>1, JobsMoved
  <2>2. jobs' \in Seq(Job) /\ Len(jobs') >= Len(jobs) /\ Len(jobs) \in Nat /\ Len(jobs') \in Nat
    BY <2>1 DEF JobsAfter, TypeOK
  <2>3. \A v \in Workers \ {w} : worker'[v] = worker[v]
    BY <1>1, OneMoves DEF Goes, TypeOK
  <2>4. \A v \in Workers : worker[v].job \in Nat /\ worker[v].job <= Len(jobs)
    BY DEF TypeOK, WorkerState
  <2>5. y.job <= Len(jobs')
    <3>1. y.job \in {0, x.job, Len(jobs')}
      <4>1. y = Idle => y.job = 0
        BY DEF Idle
      <4>2. CASE JobBegins(x, y)
        BY <1>2, <4>2 DEF JobBegins, TypeOK
      <4> QED BY <1>1, <4>1, <4>2 DEF JobsMove, JobStays, JobEnds, JobStamped
    <3> QED BY <2>2, <2>4, <3>1
  <2> QED BY <2>2, <2>3, <2>4, <2>5
<1>6. row' \in [Accounts -> Row] /\ wrote' \in [Accounts -> Row]
  <2>1. ColumnOf(x.task) \in Columns /\ x.date \in Times
    BY <1>2, Constants DEF WorkerState
  <2>2. CASE RowsStay(x, y)
    BY <2>2 DEF RowsStay, TypeOK
  <2> DEFINE c == ColumnOf(x.task)
  <2>3. CASE RowPlanned(x, y)
    <3>1. row' = [row EXCEPT ![a][c] = now] /\ wrote' = [wrote EXCEPT ![a][c] = now]
      BY <2>3 DEF RowPlanned
    <3>2. row \in [Accounts -> Row] /\ wrote \in [Accounts -> Row]
      BY DEF TypeOK
    <3> HIDE DEF c
    <3> QED BY <1>2, <2>1, <3>1, <3>2, Dating DEF c
  <2>4. CASE RowWritten(x, y)
    <3>1. RowToWrite(x) \in Row
      BY <1>2, Writing
    <3>2. row' \in [Accounts -> Row]
      BY <1>2, <2>4, <3>1 DEF RowWritten, TypeOK
    <3>3. wrote' \in [Accounts -> Row]
      <4>1. wrote' = [wrote EXCEPT ![a][c] = x.date] /\ wrote \in [Accounts -> Row] /\ c \in Columns
        BY <2>1, <2>4 DEF RowWritten, TypeOK
      <4> HIDE DEF c
      <4> QED BY <1>2, <2>1, <4>1, Dating
    <3> QED BY <3>2, <3>3
  <2> QED BY <1>1, <2>2, <2>3, <2>4 DEF RowsMove
<1>7. monthly' \subseteq Lines /\ coverage' \in [Accounts -> 0 .. MaxStarts]
  <2>1. CASE UNCHANGED esVars
    BY <2>1 DEF esVars, TypeOK
  <2>2. CASE ReportsWritten(x, y)
    <3>1. monthly' \subseteq Lines
      BY <1>2, <2>2 DEF ReportsWritten, WorkerState, TypeOK
    <3>2. w \in ToCover(a)
      BY <1>2, <2>2 DEF ReportsWritten, ToCover, Shape, Working, Idle, Covering
    <3>3. coverage[a] + 1 \in 0 .. MaxStarts
      BY <1>2, <3>2, CoverageFits
    <3> QED BY <1>2, <2>2, <3>1, <3>3 DEF ReportsWritten, TypeOK
  <2> QED BY <1>1, <2>1, <2>2 DEF ReportsMove
<1>8. file' \in [Accounts -> SUBSET Lines] /\ masterFile' \in [Accounts -> SUBSET Lines]
  <2>1. x.seen \in SUBSET Lines
    BY <1>2 DEF WorkerState
  <2>2. CASE UNCHANGED files
    BY <2>2 DEF files, TypeOK
  <2>3. CASE FileUploaded(x, y)
    BY <1>2, <2>1, <2>3 DEF FileUploaded, TypeOK
  <2> QED BY <1>1, <2>2, <2>3 DEF FilesMove
<1> QED BY <1>3, <1>4, <1>5, <1>6, <1>7, <1>8 DEF TypeOK

LEMMA BegunTyped ==
    ASSUME TypeOK, Counted, NEW w \in Workers, Begun(w)
    PROVE  TypeOK'
<1> DEFINE y == worker'[w]
<1>1. y \in WorkerState /\ y.task \in Tasks /\ y.account \in Accounts
  <2>1. y \in WorkerState /\ Shape(y) /\ y # Idle
    BY DEF Begun
  <2> QED BY <2>1 DEF Shape, Tasks, WorkerState
<1>2. worker' \in [Workers -> WorkerState] /\ \A v \in Workers \ {w} : worker'[v] = worker[v]
  <2>1. worker' = [worker EXCEPT ![w] = y] /\ worker \in [Workers -> WorkerState]
    BY DEF Begun, TypeOK
  <2> HIDE DEF y
  <2> QED BY <1>1, <2>1, OneMoves
<1>3. jobs' \in Seq(Job) /\ \A v \in Workers : worker'[v].job <= Len(jobs')
  <2>1. Pending(y.task, y.account) \in Job /\ Len(jobs) \in Nat
    BY <1>1, JobTyped DEF TypeOK
  <2>2. \A v \in Workers : worker[v].job \in Nat /\ worker[v].job <= Len(jobs)
    BY DEF TypeOK, WorkerState
  <2>3. \/ jobs' = jobs /\ y.job = 0
        \/ jobs' = Append(jobs, Pending(y.task, y.account)) /\ y.job = Len(jobs) + 1
    BY DEF Begun
  <2> DEFINE j == Pending(y.task, y.account)
  <2> HIDE DEF j, y
  <2>4. jobs' \in Seq(Job) /\ Len(jobs') >= Len(jobs) /\ y.job <= Len(jobs')
    <3>1. jobs \in Seq(Job) /\ j \in Job
      BY <2>1 DEF TypeOK, j
    <3>2. CASE jobs' = jobs /\ y.job = 0
      BY <2>1, <3>1, <3>2
    <3>3. CASE jobs' = Append(jobs, j) /\ y.job = Len(jobs) + 1
      BY <2>1, <3>1, <3>3
    <3> QED BY <2>3, <3>2, <3>3 DEF j
  <2>5. \A v \in Workers : worker'[v] = y \/ worker'[v] = worker[v]
    BY <1>2 DEF y
  <2>6. Len(jobs') \in Nat /\ Len(jobs) \in Nat
    BY <2>1, <2>4, LenProperties
  <2> QED BY <2>2, <2>4, <2>5, <2>6
<1>4. starts' \in 0 .. MaxStarts
  BY Constants DEF Begun, TypeOK
<1>5. met' \in [Accounts -> SUBSET SUBSET Tasks]
  <2>1. \A v \in Workers : worker[v].task # "idle" => worker[v].task \in Tasks
    BY DEF TypeOK, WorkerState
  <2>2. Meet(y.task, y.account)
    BY DEF Begun
  <2> DEFINE more(x) == {{y.task, worker[v].task} : v \in {u \in Overlapping(y.task, y.account) :
                            x \in WorksOn(y.task, y.account) \cap WorksOn(worker[u].task, worker[u].account)}}
  <2>3. met' = [x \in Accounts |-> met[x] \cup more(x)]
    BY <2>2 DEF Meet
  <2>4. \A x \in Accounts : more(x) \subseteq SUBSET Tasks
    BY <1>1, <2>1 DEF Overlapping
  <2> HIDE DEF more
  <2> QED BY <2>3, <2>4 DEF TypeOK
<1>6. UNCHANGED <<now, monthStart, bills, ingesting, monthly, coverage, row, file, masterFile, faults, spoilt, wrote>>
  BY DEF Begun, billVars, esVars, files
<1> QED BY <1>2, <1>3, <1>4, <1>5, <1>6 DEF TypeOK

-----------------------------------------------------------------------------
(* The tasks and their jobs are as they should be *)

Core == TypeOK /\ ShapeInv /\ JobsInv /\ Clocked /\ Counted /\ Overlap

\* The others stay where they are.
LEMMA Others ==
    ASSUME TypeOK, NEW w \in Workers, Moves(w) \/ Begun(w)
    PROVE  \A v \in Workers \ {w} : worker'[v] = worker[v]
<1>1. worker \in [Workers -> WorkerState] /\ worker' = [worker EXCEPT ![w] = worker'[w]]
  BY DEF TypeOK, Moves, Goes, Begun
<1> QED BY <1>1

LEMMA MovesShape ==
    ASSUME TypeOK, ShapeInv, NEW w \in Workers, Moves(w) \/ Begun(w)
    PROVE  ShapeInv'
<1>1. Shape(worker'[w])
  BY DEF Moves, Goes, Begun
<1>2. \A v \in Workers \ {w} : worker'[v] = worker[v]
  BY Others
<1>3. \A v \in Workers : Shape(worker'[v])
  BY <1>1, <1>2 DEF ShapeInv
<1> QED BY <1>3 DEF ShapeInv, Shape

LEMMA MovesJobs ==
    ASSUME TypeOK, ShapeInv, JobsInv, NEW w \in Workers, Moves(w)
    PROVE  JobsInv'
<1> DEFINE x == worker[w]
           y == worker'[w]
<1>1. JobsAfter(x, y)
  BY JobsMoved DEF Moves
<1>2. \A v \in Workers \ {w} : worker'[v] = worker[v]
  BY Others
<1>3. \A v \in Workers : worker[v].job \in 0 .. Len(jobs)
  BY DEF TypeOK, WorkerState
<1>4. /\ x.account \in Accounts /\ x.task \in Tasks /\ now # 0
      /\ y = Idle \/ (y.task = x.task /\ y.account = x.account)
      /\ y = Idle => y.job = 0
  BY AtWork DEF Moves, Goes, TypeOK, Idle
<1>5. \/ y.job = 0 \/ (y.job = x.job /\ y # Idle)
      \/ y.job = Len(jobs) + 1 /\ Len(jobs') = Len(jobs) + 1 /\ y # Idle
  <2>1. CASE y = Idle
    BY <1>4, <2>1
  <2>2. CASE y # Idle /\ x.job # 0
    BY <1>1, <2>2 DEF JobsAfter, JobStays
  <2>3. CASE y # Idle /\ x.job = 0
    <3>1. JobsMove(w)
      BY DEF Moves
    <3>2. JobStays(x, y) => y.job = 0
      BY <2>3 DEF JobStays
    <3>3. JobBegins(x, y) => y.job = Len(jobs) + 1 /\ Len(jobs') = Len(jobs) + 1
      BY DEF JobBegins, TypeOK
    <3>4. JobStamped(x, y) => y.job = 0
      BY <2>3 DEF JobStamped
    <3> QED BY <2>3, <3>1, <3>2, <3>3, <3>4 DEF JobsMove, JobEnds
  <2> QED BY <2>1, <2>2, <2>3
<1>6. ASSUME NEW v \in Workers, worker'[v].job # 0
      PROVE  /\ jobs'[worker'[v].job].account = worker'[v].account
             /\ jobs'[worker'[v].job].kind = worker'[v].task
             /\ jobs'[worker'[v].job].completed = 0 <=> worker'[v].pc \notin Stamped
  <2>1. CASE v # w
    <3>1. worker'[v] = worker[v] /\ worker[v].job # x.job /\ worker[v].job \in 1 .. Len(jobs)
      BY <1>2, <1>3, <1>6, <2>1 DEF JobsInv
    <3>2. jobs'[worker[v].job] = jobs[worker[v].job]
      BY <1>1, <3>1 DEF JobsAfter
    <3> QED BY <1>6, <3>1, <3>2 DEF JobsInv, Stamped
  <2>2. CASE v = w /\ y.job = x.job /\ y # Idle
    <3>1. /\ x.job \in 1 .. Len(jobs) /\ jobs[x.job].account = x.account /\ jobs[x.job].kind = x.task
          /\ jobs[x.job].completed = 0 <=> x.pc \notin Stamped
      BY <1>3, <1>6, <2>2 DEF JobsInv, Stamped
    <3>2. jobs'[x.job].kind = jobs[x.job].kind /\ jobs'[x.job].account = jobs[x.job].account
      BY <1>1, <3>1 DEF JobsAfter
    <3>3. jobs'[x.job].completed = 0 <=> y.pc \notin Stamped
      BY <1>1, <1>4, <2>2, <3>1 DEF JobsAfter, JobStays
    <3> QED BY <1>4, <2>2, <3>1, <3>2, <3>3
  <2>3. CASE v = w /\ y.job = Len(jobs) + 1 /\ Len(jobs') = Len(jobs) + 1 /\ y # Idle
    <3>1. jobs'[y.job] = Pending(x.task, x.account) /\ y.pc \notin Stamped
      BY <1>1, <2>3 DEF JobsAfter, TypeOK
    <3> QED BY <1>4, <2>3, <3>1 DEF Pending
  <2> QED BY <1>5, <1>6, <2>1, <2>2, <2>3
<1>7. ASSUME NEW u \in Workers, NEW v \in Workers, u # v, worker'[u].job = worker'[v].job
      PROVE  worker'[u].job = 0
  <2>1. CASE u # w /\ v # w
    BY <1>2, <1>7, <2>1 DEF JobsInv
  <2>2. ASSUME NEW t \in Workers \ {w}, worker[t].job = y.job
        PROVE  y.job = 0
    BY <1>3, <1>5, <2>2 DEF JobsInv, TypeOK
  <2> QED BY <1>2, <1>7, <2>1, <2>2
<1> QED BY <1>6, <1>7 DEF JobsInv, Stamped

LEMMA MovesClocked ==
    ASSUME TypeOK, ShapeInv, Clocked, NEW w \in Workers, Moves(w)
    PROVE  Clocked'
<1> DEFINE x == worker[w]
           y == worker'[w]
           a == x.account
<1>1. Goes(w) /\ RowsMove(w) /\ x \in WorkerState /\ a \in Accounts /\ x.task \in Tasks
  BY AtWork DEF Moves, Goes
<1>2. \A v \in Workers \ {w} : worker'[v] = worker[v]
  BY Others
<1>3. now \in Nat /\ monthStart \in Nat /\ now' = now /\ monthStart' = monthStart
  BY <1>1, Constants DEF Goes, TypeOK, Times
<1>4. x.month <= monthStart /\ x.date <= now /\ (\A c \in Columns : x.copy[c] <= now /\ row[a][c] <= now)
  BY <1>1 DEF Clocked
<1>5. y.month <= monthStart /\ y.date <= now
  BY <1>1, <1>3, <1>4 DEF Goes
<1>6. \A c \in Columns : y.copy[c] <= now
  <2>1. \A c \in Columns : Idle.copy[c] <= now
    BY <1>3 DEF Idle, NoRow
  <2>2. y = Idle \/ y.copy = x.copy \/ y.copy = row[a]
    BY <1>1 DEF RowsMove, RowsStay, RowPlanned, RowWritten
  <2> QED BY <1>4, <2>1, <2>2
<1>7. ASSUME NEW b \in Accounts, NEW c \in Columns
      PROVE  row'[b][c] <= now
  <2>1. row[b][c] <= now /\ row \in [Accounts -> Row] /\ now \in Times
    BY DEF Clocked, TypeOK
  <2>2. CASE RowsStay(x, y)
    BY <2>1, <2>2 DEF RowsStay
  <2>3. CASE RowPlanned(x, y)
    <3> DEFINE d == ColumnOf(x.task)
    <3>1. row' = [row EXCEPT ![a][d] = now] /\ d \in Columns
      BY <1>1, <2>3, Constants DEF RowPlanned
    <3> HIDE DEF d
    <3>2. row'[b][c] \in {now, row[b][c]}
      BY <1>1, <2>1, <3>1, Dating
    <3> QED BY <1>3, <2>1, <3>2
  <2>4. CASE RowWritten(x, y)
    <3>1. row' = [row EXCEPT ![a] = RowToWrite(x)]
      BY <2>4 DEF RowWritten
    <3>2. RowToWrite(x)[c] \in {x.date, x.copy[c]}
      BY <1>1, Writing
    <3>3. row'[b][c] \in {x.date, x.copy[c], row[b][c]}
      BY <1>1, <2>1, <3>1, <3>2
    <3> QED BY <1>4, <2>1, <3>3
  <2> QED BY <1>1, <2>2, <2>3, <2>4 DEF RowsMove
<1> QED BY <1>2, <1>3, <1>5, <1>6, <1>7 DEF Clocked

LEMMA MovesOverlap ==
    ASSUME TypeOK, Overlap, NEW w \in Workers, Moves(w)
    PROVE  Overlap'
<1>1. /\ worker'[w] = Idle \/ (worker'[w].task = worker[w].task /\ worker'[w].account = worker[w].account)
      /\ met' = met
  BY DEF Moves, Goes
<1>2. \A v \in Workers \ {w} : worker'[v] = worker[v]
  BY Others
<1>3. Idle.task = "idle"
  BY DEF Idle
<1>4. \A v \in Workers : worker'[v].task = "idle" \/ (worker'[v].task = worker[v].task /\ worker'[v].account = worker[v].account)
  BY <1>1, <1>2, <1>3
<1> QED BY <1>1, <1>4 DEF Overlap, WorksOn

LEMMA Counting ==
    ASSUME NEW S \in SUBSET Workers, NEW T \in SUBSET Workers, NEW w
    PROVE  /\ IsFiniteSet(S) /\ Cardinality(S) \in Nat
           /\ S \subseteq T => Cardinality(S) <= Cardinality(T)
           /\ S \subseteq T \ {w} /\ w \in T => Cardinality(S) + 1 <= Cardinality(T)
           /\ S \subseteq T \cup {w} => Cardinality(S) <= Cardinality(T) + 1
<1>1. IsFiniteSet(S) /\ IsFiniteSet(T) /\ Cardinality(S) \in Nat /\ Cardinality(T) \in Nat
  BY AccountJobsAssumption, FS_Subset, FS_CardinalityType
<1>2. S \subseteq T => Cardinality(S) <= Cardinality(T)
  BY <1>1, FS_Subset
<1>3. S \subseteq T \ {w} /\ w \in T => Cardinality(S) + 1 <= Cardinality(T)
  <2>1. w \in T => IsFiniteSet(T \ {w}) /\ Cardinality(T \ {w}) = Cardinality(T) - 1
    BY <1>1, FS_RemoveElement
  <2>2. w \in T /\ S \subseteq T \ {w} => Cardinality(S) <= Cardinality(T \ {w})
    BY <2>1, FS_Subset
  <2> QED BY <1>1, <2>1, <2>2
<1>4. S \subseteq T \cup {w} => Cardinality(S) <= Cardinality(T) + 1
  <2>1. IsFiniteSet(T \cup {w}) /\ Cardinality(T \cup {w}) = (IF w \in T THEN Cardinality(T) ELSE Cardinality(T) + 1)
    BY <1>1, FS_AddElement
  <2>2. S \subseteq T \cup {w} => Cardinality(S) <= Cardinality(T \cup {w})
    BY <2>1, FS_Subset
  <2> QED BY <1>1, <2>1, <2>2
<1> QED BY <1>1, <1>2, <1>3, <1>4

LEMMA MovesCounted ==
    ASSUME TypeOK, ShapeInv, Counted, NEW w \in Workers, Moves(w)
    PROVE  Counted'
<1> DEFINE x == worker[w]
           y == worker'[w]
<1>1. JobsAfter(x, y)
  BY JobsMoved DEF Moves
<1>2. \A v \in Workers \ {w} : worker'[v] = worker[v]
  BY Others
<1>3. /\ y = Idle \/ (y.task = x.task /\ y.account = x.account)
      /\ x.account \in Accounts /\ Shape(x) /\ x # Idle /\ starts' = starts
  BY AtWork DEF Moves, Goes
<1>4. Idle.task = "idle"
  BY DEF Idle
<1>5. /\ Len(jobs) \in Nat /\ Len(jobs') \in Nat /\ starts \in Nat
      /\ \A a \in Accounts : coverage[a] \in Nat
  BY <1>1 DEF TypeOK, JobsAfter
<1>6. Len(jobs') + Cardinality(ToRegister') <= starts
  <2>1. ToRegister \in SUBSET Workers /\ ToRegister' \in SUBSET Workers
    BY DEF ToRegister
  <2>2. CASE Len(jobs') = Len(jobs)
    <3>1. y.job = 0 /\ y # Idle => x.job = 0
      BY <1>1 DEF JobsAfter, JobStays
    <3>2. ToRegister' \subseteq ToRegister
      BY <1>2, <1>3, <1>4, <3>1 DEF ToRegister
    <3>3. Cardinality(ToRegister') <= Cardinality(ToRegister) /\ Cardinality(ToRegister') \in Nat /\ Cardinality(ToRegister) \in Nat
      BY <2>1, <3>2, Counting
    <3> QED BY <1>5, <2>2, <3>3 DEF Counted
  <2>3. CASE Len(jobs') = Len(jobs) + 1 /\ y.job = Len(jobs') /\ x.job = 0 /\ x.pc = "register"
    <3>1. w \in ToRegister
      BY <1>3, <2>3 DEF ToRegister, Shape, Working
    <3>2. ToRegister' \subseteq ToRegister \ {w}
      BY <1>2, <1>5, <2>3 DEF ToRegister
    <3>3. Cardinality(ToRegister') + 1 <= Cardinality(ToRegister) /\ Cardinality(ToRegister') \in Nat /\ Cardinality(ToRegister) \in Nat
      BY <2>1, <3>1, <3>2, Counting
    <3> QED BY <1>5, <2>3, <3>3 DEF Counted
  <2> QED BY <1>1, <2>2, <2>3 DEF JobsAfter
<1>7. ASSUME NEW a \in Accounts
      PROVE  coverage'[a] + Cardinality(ToCover(a)') <= starts
  <2>1. ToCover(a) \in SUBSET Workers /\ ToCover(a)' \in SUBSET Workers
    BY DEF ToCover
  <2>2. y.pc \in Covering => x.pc \in Covering
    BY DEF Moves, BillsMove
  <2>3. ToCover(a)' \subseteq ToCover(a)
    BY <1>2, <1>3, <1>4, <2>2 DEF ToCover
  <2>4. /\ Cardinality(ToCover(a)') <= Cardinality(ToCover(a))
        /\ Cardinality(ToCover(a)') \in Nat /\ Cardinality(ToCover(a)) \in Nat
    BY <2>1, <2>3, Counting
  <2>5. CASE coverage'[a] = coverage[a]
    BY <1>5, <2>4, <2>5 DEF Counted
  <2>6. CASE coverage'[a] # coverage[a]
    <3>1. ReportsWritten(x, y) /\ coverage \in [Accounts -> 0 .. MaxStarts]
      BY <2>6 DEF Moves, ReportsMove, esVars, TypeOK
    <3>2. a = x.account /\ x.svc = Coverage /\ coverage'[a] = coverage[a] + 1
      BY <1>3, <2>6, <3>1 DEF ReportsWritten
    <3>3. y.pc = "plan" /\ x.pc = "import"
      BY <3>1, <3>2 DEF ReportsWritten
    <3>4. w \in ToCover(a) /\ w \notin ToCover(a)'
      BY <1>3, <3>2, <3>3 DEF ToCover, Covering, Working, Shape
    <3>5. Cardinality(ToCover(a)') + 1 <= Cardinality(ToCover(a))
      BY <2>1, <2>3, <3>4, Counting
    <3> QED BY <1>5, <2>4, <3>2, <3>5 DEF Counted
  <2> QED BY <2>5, <2>6
<1> QED BY <1>3, <1>6, <1>7 DEF Counted

LEMMA MovesCore ==
    ASSUME Core, NEW w \in Workers, Moves(w)
    PROVE  Core'
<1>1. TypeOK /\ ShapeInv /\ JobsInv /\ Clocked /\ Counted /\ Overlap
  BY DEF Core
<1>2. TypeOK' /\ ShapeInv' /\ JobsInv' /\ Clocked' /\ Counted' /\ Overlap'
  BY <1>1, MovesTyped, MovesShape, MovesJobs, MovesClocked, MovesCounted, MovesOverlap
<1> QED BY <1>2 DEF Core

LEMMA BegunJobs ==
    ASSUME TypeOK, NEW w \in Workers, Begun(w)
    PROVE  LET y == worker'[w] IN
           /\ y.task \in Tasks /\ y.account \in Accounts /\ jobs' \in Seq(Job) /\ y.pc \notin Stamped
           /\ \A i \in 1 .. Len(jobs) : jobs'[i] = jobs[i]
           /\ \/ Len(jobs') = Len(jobs) /\ y.job = 0
              \/ /\ Len(jobs') = Len(jobs) + 1 /\ y.job = Len(jobs') /\ y.task \in {"process", "plugins"}
                 /\ jobs'[Len(jobs')] = Pending(y.task, y.account)
<1> DEFINE y == worker'[w]
           j == Pending(y.task, y.account)
<1>1. y.task \in Tasks /\ y.account \in Accounts /\ y.pc \notin Stamped
  <2>1. y \in WorkerState /\ Shape(y) /\ y # Idle /\ y.pc \notin Stamped
    BY DEF Begun, Stamped
  <2> QED BY <2>1 DEF Shape, Tasks, WorkerState
<1>2. j \in Job /\ jobs \in Seq(Job)
  BY <1>1, JobTyped DEF TypeOK
<1>3. \/ jobs' = jobs /\ y.job = 0
      \/ jobs' = Append(jobs, j) /\ y.job = Len(jobs) + 1 /\ y.task \in {"process", "plugins"}
  BY DEF Begun
<1> HIDE DEF j
<1>4. CASE jobs' = jobs /\ y.job = 0
  BY <1>1, <1>2, <1>4
<1>5. CASE jobs' = Append(jobs, j) /\ y.job = Len(jobs) + 1 /\ y.task \in {"process", "plugins"}
  <2>1. jobs' \in Seq(Job) /\ Len(jobs') = Len(jobs) + 1 /\ jobs'[Len(jobs) + 1] = j
        /\ \A i \in 1 .. Len(jobs) : jobs'[i] = jobs[i]
    BY <1>2, <1>5
  <2> QED BY <1>1, <1>5, <2>1 DEF j
<1> QED BY <1>3, <1>4, <1>5

LEMMA BegunCore ==
    ASSUME Core, NEW w \in Workers, Begun(w)
    PROVE  Core'
<1> DEFINE y == worker'[w]
           k == y.task
           a == y.account
<1>1. TypeOK /\ ShapeInv /\ JobsInv /\ Clocked /\ Counted /\ Overlap
  BY DEF Core
<1>2. TypeOK' /\ ShapeInv'
  BY <1>1, BegunTyped, MovesShape
<1>3. /\ \A v \in Workers \ {w} : worker'[v] = worker[v]
      /\ UNCHANGED <<now, monthStart, row, coverage>> /\ worker[w] = Idle /\ y # Idle /\ starts' = starts + 1
  BY <1>1, Others DEF Begun, esVars
<1>4. /\ k \in Tasks /\ a \in Accounts /\ jobs' \in Seq(Job) /\ y.pc \notin Stamped
      /\ \A i \in 1 .. Len(jobs) : jobs'[i] = jobs[i]
      /\ \/ Len(jobs') = Len(jobs) /\ y.job = 0
         \/ /\ Len(jobs') = Len(jobs) + 1 /\ y.job = Len(jobs') /\ k \in {"process", "plugins"}
            /\ jobs'[Len(jobs')] = Pending(k, a)
  BY <1>1, BegunJobs
<1>5. /\ \A v \in Workers : worker[v].job \in 0 .. Len(jobs)
      /\ now \in Nat /\ monthStart \in Nat /\ Len(jobs) \in Nat /\ Len(jobs') \in Nat /\ starts \in Nat
      /\ \A b \in Accounts : coverage[b] \in Nat
  BY <1>1, <1>4, Constants DEF TypeOK, WorkerState, Times
<1>6. JobsInv'
  <2>1. ASSUME NEW v \in Workers, worker'[v].job # 0
        PROVE  /\ jobs'[worker'[v].job].account = worker'[v].account
               /\ jobs'[worker'[v].job].kind = worker'[v].task
               /\ jobs'[worker'[v].job].completed = 0 <=> worker'[v].pc \notin Stamped
    <3>1. CASE v # w
      <4>1. worker'[v] = worker[v] /\ worker[v].job \in 1 .. Len(jobs)
        BY <1>3, <1>5, <2>1, <3>1
      <4>2. jobs'[worker[v].job] = jobs[worker[v].job]
        BY <1>4, <4>1
      <4> QED BY <1>1, <2>1, <4>1, <4>2 DEF JobsInv, Stamped
    <3>2. CASE v = w
      BY <1>4, <2>1, <3>2 DEF Pending
    <3> QED BY <3>1, <3>2
  <2>2. ASSUME NEW u \in Workers, NEW v \in Workers, u # v, worker'[u].job = worker'[v].job
        PROVE  worker'[u].job = 0
    <3>1. \A t \in Workers \ {w} : worker[t].job # y.job \/ y.job = 0
      BY <1>4, <1>5
    <3> QED BY <1>1, <1>3, <2>2, <3>1 DEF JobsInv
  <2> QED BY <2>1, <2>2 DEF JobsInv, Stamped
<1>7. Clocked'
  <2>1. y.month = 0 /\ y.date = 0 /\ (y.copy = row[a] \/ y.copy = NoRow)
    BY DEF Begun
  <2>2. \A c \in Columns : y.copy[c] <= now
    BY <1>1, <1>4, <1>5, <2>1 DEF NoRow, Clocked
  <2> QED BY <1>1, <1>3, <1>5, <2>1, <2>2 DEF Clocked
<1>8. Counted'
  <2>1. Len(jobs') + Cardinality(ToRegister') <= starts'
    <3>1. ToRegister \in SUBSET Workers /\ ToRegister' \in SUBSET Workers
      BY DEF ToRegister
    <3>2. CASE Len(jobs') = Len(jobs)
      <4>1. ToRegister' \subseteq ToRegister \cup {w}
        BY <1>3 DEF ToRegister
      <4>2. Cardinality(ToRegister') <= Cardinality(ToRegister) + 1 /\ Cardinality(ToRegister') \in Nat /\ Cardinality(ToRegister) \in Nat
        BY <3>1, <4>1, Counting
      <4> QED BY <1>1, <1>3, <1>5, <3>2, <4>2 DEF Counted
    <3>3. CASE Len(jobs') = Len(jobs) + 1 /\ y.job = Len(jobs')
      <4>1. ToRegister' \subseteq ToRegister
        BY <1>3, <1>5, <3>3 DEF ToRegister
      <4>2. Cardinality(ToRegister') <= Cardinality(ToRegister) /\ Cardinality(ToRegister') \in Nat /\ Cardinality(ToRegister) \in Nat
        BY <3>1, <4>1, Counting
      <4> QED BY <1>1, <1>3, <1>5, <3>3, <4>2 DEF Counted
    <3> QED BY <1>4, <3>2, <3>3
  <2>2. ASSUME NEW b \in Accounts
        PROVE  coverage'[b] + Cardinality(ToCover(b)') <= starts'
    <3>1. ToCover(b) \in SUBSET Workers /\ ToCover(b)' \in SUBSET Workers
      BY DEF ToCover
    <3>2. ToCover(b)' \subseteq ToCover(b) \cup {w}
      BY <1>3 DEF ToCover
    <3>3. Cardinality(ToCover(b)') <= Cardinality(ToCover(b)) + 1 /\ Cardinality(ToCover(b)') \in Nat /\ Cardinality(ToCover(b)) \in Nat
      BY <3>1, <3>2, Counting
    <3> QED BY <1>1, <1>3, <1>5, <3>3 DEF Counted
  <2> QED BY <2>1, <2>2 DEF Counted
<1>9. Overlap'
  <2>1. /\ \A b \in Accounts : met[b] \subseteq met'[b]
        /\ \A v \in Workers \ {w} : worker[v].task # "idle" =>
              \A b \in WorksOn(k, a) \cap WorksOn(worker[v].task, worker[v].account) :
                 b \in Accounts => {k, worker[v].task} \in met'[b]
    BY DEF Begun, Meet, Overlapping
  <2>2. \A b \in WorksOn(k, a) : b \in Accounts
    BY <1>4 DEF WorksOn, AccountsOf
  <2>3. ASSUME NEW u \in Workers, NEW v \in Workers, u # v, worker'[u].task # "idle", worker'[v].task # "idle",
               NEW b \in WorksOn(worker'[u].task, worker'[u].account) \cap WorksOn(worker'[v].task, worker'[v].account)
        PROVE  {worker'[u].task, worker'[v].task} \in met'[b]
    <3>1. CASE u # w /\ v # w
      <4>1. worker'[u] = worker[u] /\ worker'[v] = worker[v]
        BY <1>3, <3>1
      <4>2. {worker[u].task, worker[v].task} \in met[b]
        BY <1>1, <2>3, <4>1 DEF Overlap
      <4>3. b \in Accounts
        <5>1. Shape(worker[u]) /\ worker[u] # Idle
          BY <1>1, <2>3, <4>1 DEF ShapeInv, Idle
        <5> QED BY <2>3, <4>1, <5>1 DEF Shape, WorksOn, AccountsOf
      <4> QED BY <2>1, <4>1, <4>2, <4>3
    <3>2. CASE u = w
      <4>1. worker'[v] = worker[v] /\ v # w
        BY <1>3, <2>3, <3>2
      <4> QED BY <2>1, <2>2, <2>3, <3>2, <4>1
    <3>3. CASE v = w
      <4>1. worker'[u] = worker[u] /\ u # w
        BY <1>3, <2>3, <3>3
      <4>2. {k, worker[u].task} \in met'[b]
        BY <2>1, <2>2, <2>3, <3>3, <4>1
      <4>3. {k, worker[u].task} = {worker'[u].task, worker'[v].task}
        BY <3>3, <4>1
      <4> QED BY <4>2, <4>3
    <3> QED BY <3>1, <3>2, <3>3
  <2> QED BY <2>3 DEF Overlap, WorksOn
<1> QED BY <1>2, <1>6, <1>7, <1>8, <1>9 DEF Core

\* The steps of no task.
Ingests == \/ \E a \in Accounts, kind \in {"open", "final"} : BeginIngest(a, kind)
           \/ \E l \in Lines : IngestLine(l)
Fails   == \E k \in {"process", "plugins"}, a \in Accounts : RegistrationFails(k, a)

\* Bills that are not absent are kept, unless they are open.
LEMMA IngestsAre ==
    ASSUME TypeOK, Ingests
    PROVE  /\ bills' \in [Lines -> {"absent", "open", "final"}] /\ ingesting' \in [Accounts -> {"no", "open", "final"}]
           /\ \A l \in Lines : bills[l] = "final" => bills'[l] = "final"
           /\ UNCHANGED <<now, monthStart, esVars, jobs, row, files, worker, history>>
<1>1. CASE \E a \in Accounts, kind \in {"open", "final"} : BeginIngest(a, kind)
  BY <1>1 DEF BeginIngest, TypeOK
<1>2. ASSUME NEW l \in Lines, IngestLine(l)
      PROVE  /\ bills' \in [Lines -> {"absent", "open", "final"}] /\ ingesting' \in [Accounts -> {"no", "open", "final"}]
             /\ \A k \in Lines : bills[k] = "final" => bills'[k] = "final"
             /\ UNCHANGED <<now, monthStart, esVars, jobs, row, files, worker, history>>
  <2>1. l[1] \in Accounts /\ ingesting[l[1]] \in {"open", "final"} /\ bills[l] = "absent"
    BY <1>2 DEF IngestLine, Lines, TypeOK
  <2>2. bills' = [bills EXCEPT ![l] = ingesting[l[1]]]
    BY <1>2 DEF IngestLine
  <2>3. ingesting' = [ingesting EXCEPT ![l[1]] = "no"] \/ ingesting' = ingesting
    BY <1>2 DEF IngestLine
  <2>4. UNCHANGED <<now, monthStart, esVars, jobs, row, files, worker, history>>
    BY <1>2 DEF IngestLine
  <2> QED BY <2>1, <2>2, <2>3, <2>4 DEF TypeOK
<1> QED BY <1>1, <1>2 DEF Ingests

\* The registration of a task of account a fails: its column gets the date, nothing else moves.
FailsOn(k, a) ==
    /\ faults' \in 0 .. MaxFaults
    /\ row' = [row EXCEPT ![a][ColumnOf(k)] = now] /\ row' \in [Accounts -> Row]
    /\ wrote' = [wrote EXCEPT ![a][ColumnOf(k)] = now] /\ wrote' \in [Accounts -> Row]
    /\ \A b \in Accounts : \A c \in Columns :
          /\ row'[b][c] = IF b = a /\ c = ColumnOf(k) THEN now ELSE row[b][c]
          /\ wrote'[b][c] = IF b = a /\ c = ColumnOf(k) THEN now ELSE wrote[b][c]
    /\ met' \in [Accounts -> SUBSET SUBSET Tasks] /\ \A b \in Accounts : met[b] \subseteq met'[b]
    /\ \A v \in Workers : worker[v].task # "idle" /\ worker[v].account = a => {worker[v].task, k} \in met'[a]
    /\ UNCHANGED <<now, monthStart, billVars, esVars, jobs, files, worker, starts, spoilt>>

LEMMA FailsIs ==
    ASSUME TypeOK, Fails
    PROVE  \E k \in {"process", "plugins"}, a \in Accounts : FailsOn(k, a)
<1>1. PICK k \in {"process", "plugins"}, a \in Accounts : RegistrationFails(k, a)
  BY DEF Fails
<1> DEFINE c == ColumnOf(k)
<1>2. k \in Tasks /\ c \in Columns /\ now \in Times
  BY <1>1, Constants DEF Tasks, TypeOK
<1>3. /\ row' = [row EXCEPT ![a][c] = now] /\ wrote' = [wrote EXCEPT ![a][c] = now] /\ Fault /\ Meet(k, a)
      /\ UNCHANGED <<now, monthStart, billVars, esVars, jobs, files, worker, starts, spoilt>>
  BY <1>1 DEF RegistrationFails
<1>4. row \in [Accounts -> Row] /\ wrote \in [Accounts -> Row] /\ a \in Accounts
  BY <1>1 DEF TypeOK
<1>5. /\ met' \in [Accounts -> SUBSET SUBSET Tasks] /\ \A b \in Accounts : met[b] \subseteq met'[b]
      /\ \A v \in Workers : worker[v].task # "idle" /\ worker[v].account = a => {worker[v].task, k} \in met'[a]
  <2> DEFINE more(x) == {{k, worker[v].task} : v \in {u \in Overlapping(k, a) :
                            x \in WorksOn(k, a) \cap WorksOn(worker[u].task, worker[u].account)}}
  <2>1. met' = [x \in Accounts |-> met[x] \cup more(x)]
    BY <1>3 DEF Meet
  <2>2. \A v \in Workers : worker[v].task # "idle" => worker[v].task \in Tasks
    BY DEF TypeOK, WorkerState
  <2>3. \A x \in Accounts : more(x) \subseteq SUBSET Tasks
    BY <1>2, <2>2 DEF Overlapping
  <2>4. ASSUME NEW v \in Workers, worker[v].task # "idle", worker[v].account = a
        PROVE  {worker[v].task, k} \in more(a)
    <3>1. a \in WorksOn(k, a) \cap WorksOn(worker[v].task, worker[v].account)
      BY <1>4, <2>4 DEF WorksOn, AccountsOf
    <3>2. v \in Overlapping(k, a)
      BY <2>4, <3>1 DEF Overlapping
    <3>3. {k, worker[v].task} \in more(a)
      BY <3>1, <3>2
    <3> QED BY <3>3
  <2> HIDE DEF more
  <2> QED BY <1>4, <2>1, <2>3, <2>4 DEF TypeOK
<1>6. faults' \in 0 .. MaxFaults
  BY <1>3, Faulty
<1> HIDE DEF c
<1>7. /\ row' \in [Accounts -> Row] /\ wrote' \in [Accounts -> Row]
      /\ \A b \in Accounts : \A d \in Columns :
            /\ row'[b][d] = IF b = a /\ d = c THEN now ELSE row[b][d]
            /\ wrote'[b][d] = IF b = a /\ d = c THEN now ELSE wrote[b][d]
  <2>1. ASSUME NEW R \in [Accounts -> Row]
        PROVE  /\ [R EXCEPT ![a][c] = now] \in [Accounts -> Row]
               /\ \A b \in Accounts : \A d \in Columns :
                     [R EXCEPT ![a][c] = now][b][d] = IF b = a /\ d = c THEN now ELSE R[b][d]
    <3> DEFINE Q == [R EXCEPT ![a][c] = now]
    <3>1. /\ Q \in [Accounts -> Row] /\ Q[a][c] = now
          /\ \A d \in Columns \ {c} : Q[a][d] = R[a][d]
          /\ \A b \in Accounts \ {a} : Q[b] = R[b]
      BY <1>2, <1>4, Dating
    <3> HIDE DEF Q
    <3>2. \A b \in Accounts : \A d \in Columns : Q[b][d] = IF b = a /\ d = c THEN now ELSE R[b][d]
      BY <3>1
    <3> QED BY <3>1, <3>2 DEF Q
  <2>2. \A R \in [Accounts -> Row] :
           /\ [R EXCEPT ![a][c] = now] \in [Accounts -> Row]
           /\ \A b \in Accounts : \A d \in Columns :
                 [R EXCEPT ![a][c] = now][b][d] = IF b = a /\ d = c THEN now ELSE R[b][d]
    BY <2>1
  <2>3. /\ row' \in [Accounts -> Row]
        /\ \A b \in Accounts : \A d \in Columns : row'[b][d] = IF b = a /\ d = c THEN now ELSE row[b][d]
    <3>1. row' = [row EXCEPT ![a][c] = now]
      BY <1>3
    <3> QED BY <1>4, <2>2, <3>1, ZenonT(60)
  <2>4. /\ wrote' \in [Accounts -> Row]
        /\ \A b \in Accounts : \A d \in Columns : wrote'[b][d] = IF b = a /\ d = c THEN now ELSE wrote[b][d]
    <3>1. wrote' = [wrote EXCEPT ![a][c] = now]
      BY <1>3
    <3> QED BY <1>4, <2>2, <3>1
  <2> QED BY <2>3, <2>4
<1>8. FailsOn(k, a)
  BY <1>3, <1>5, <1>6, <1>7 DEF c, FailsOn
<1> QED BY <1>1, <1>8

LEMMA FailsLeave ==
    ASSUME TypeOK, Fails
    PROVE  /\ UNCHANGED <<now, monthStart, bills, ingesting, monthly, coverage, jobs, file, masterFile, worker, starts, spoilt>>
           /\ \A b \in Accounts : met[b] \subseteq met'[b]
           /\ \A b \in Accounts, c \in Columns : row'[b][c] \in {row[b][c], now}
           /\ faults' \in 0 .. MaxFaults
           /\ row' \in [Accounts -> Row] /\ wrote' \in [Accounts -> Row]
           /\ met' \in [Accounts -> SUBSET SUBSET Tasks]
<1>1. PICK k \in {"process", "plugins"}, a \in Accounts : FailsOn(k, a)
  BY FailsIs
<1> QED BY <1>1 DEF FailsOn, billVars, esVars, files

\* A tick leaves all as it is, or begins a month: nothing is billed or reported.
LEMMA TickIs ==
    ASSUME TypeOK, Tick
    PROVE  /\ now' \in Times \ {0} /\ now' = now + 1 /\ monthStart' \in 1 .. now'
           /\ UNCHANGED <<jobs, row, worker, history>>
           /\ \/ UNCHANGED <<monthStart, billVars, esVars, files>>
              \/ /\ monthStart' = now' /\ monthly' = {} /\ coverage' = [a \in Accounts |-> 0]
                 /\ bills' \in [Lines -> {"absent", "open", "final"}]
                 /\ ingesting' \in [Accounts -> {"no", "open", "final"}]
                 /\ file' = [a \in Accounts |-> {}] /\ masterFile' = [a \in Accounts |-> {}]
<1>1. /\ now < MaxNow /\ now' = now + 1 /\ now \in Nat /\ now # 0 /\ monthStart \in 1 .. now /\ MaxNow \in Nat
      /\ UNCHANGED <<jobs, row, worker, history>>
  BY Constants DEF Tick, TypeOK, Times
<1>2. now' \in Times \ {0}
  BY <1>1 DEF Times
<1>3. CASE now + 1 \in MonthStarts
  <2>1. /\ monthStart' = now + 1 /\ monthly' = {} /\ coverage' = [a \in Accounts |-> 0]
        /\ \E s \in {"absent", "open"} : bills' = [l \in Lines |-> s]
        /\ ingesting' = [a \in Accounts |-> "no"]
        /\ file' = [a \in Accounts |-> {}] /\ masterFile' = [a \in Accounts |-> {}]
    BY <1>3 DEF Tick
  <2> QED BY <1>1, <1>2, <2>1
<1>4. CASE now + 1 \notin MonthStarts
  <2>1. UNCHANGED <<monthStart, billVars, esVars, files>>
    BY <1>4 DEF Tick
  <2> QED BY <1>1, <1>2, <2>1
<1> QED BY <1>3, <1>4

LEMMA OtherCore ==
    ASSUME Core, Tick \/ Ingests \/ Fails
    PROVE  Core'
<1>1. TypeOK /\ ShapeInv /\ JobsInv /\ Clocked /\ Counted /\ Overlap
  BY DEF Core
<1>2. /\ TypeOK' /\ UNCHANGED <<jobs, worker, starts>>
      /\ \A a \in Accounts : met[a] \subseteq met'[a]
      /\ \A a \in Accounts : coverage'[a] \in {0, coverage[a]}
      /\ now' \in {now, now + 1} /\ monthStart' \in {monthStart, now'}
      /\ \A a \in Accounts, c \in Columns : row'[a][c] \in {row[a][c], now}
  <2>1. CASE Tick
    <3>1. /\ now' \in Times \ {0} /\ now' = now + 1 /\ monthStart' \in 1 .. now'
          /\ UNCHANGED <<jobs, row, worker, starts, faults, met, spoilt, wrote>>
      BY <1>1, <2>1, TickIs DEF history
    <3>2. CASE UNCHANGED <<monthStart, billVars, esVars, files>>
      BY <1>1, <3>1, <3>2 DEF TypeOK, billVars, esVars, files
    <3>3. CASE /\ monthStart' = now' /\ monthly' = {} /\ coverage' = [a \in Accounts |-> 0]
               /\ bills' \in [Lines -> {"absent", "open", "final"}]
               /\ ingesting' \in [Accounts -> {"no", "open", "final"}]
               /\ file' = [a \in Accounts |-> {}] /\ masterFile' = [a \in Accounts |-> {}]
      BY <1>1, <3>1, <3>3, Constants DEF TypeOK
    <3> QED BY <1>1, <2>1, <3>2, <3>3, TickIs
  <2>2. CASE Ingests
    <3>1. /\ bills' \in [Lines -> {"absent", "open", "final"}] /\ ingesting' \in [Accounts -> {"no", "open", "final"}]
          /\ UNCHANGED <<now, monthStart, monthly, coverage, jobs, row, file, masterFile, worker, starts, faults, met, spoilt, wrote>>
      BY <1>1, <2>2, IngestsAre DEF history, esVars, files
    <3> QED BY <1>1, <3>1 DEF TypeOK
  <2>3. CASE Fails
    BY <1>1, <2>3, FailsLeave DEF TypeOK
  <2> QED BY <2>1, <2>2, <2>3
<1>3. ShapeInv'
  BY <1>1, <1>2 DEF ShapeInv
<1>4. JobsInv'
  BY <1>1, <1>2 DEF JobsInv
<1>5. Clocked'
  <2>1. now \in Nat /\ monthStart \in 1 .. now
    BY <1>1, Constants DEF TypeOK, Times
  <2>2. \A w \in Workers : /\ worker[w].month \in Nat /\ worker[w].date \in Nat
                           /\ \A c \in Columns : worker[w].copy[c] \in Nat
    <3>1. \A w \in Workers : worker[w] \in WorkerState
      BY <1>1 DEF TypeOK
    <3>2. \A w \in Workers : worker[w].month \in Times /\ worker[w].date \in Times /\ worker[w].copy \in Row
      BY <3>1 DEF WorkerState
    <3>3. \A n \in Times : n \in Nat
      BY Constants DEF Times
    <3> QED BY <3>2, <3>3 DEF Row
  <2>3. \A a \in Accounts, c \in Columns : row[a][c] \in Nat
    BY <1>1, Constants DEF TypeOK, Row, Times
  <2> QED BY <1>1, <1>2, <2>1, <2>2, <2>3 DEF Clocked
<1>6. Counted'
  <2>1. ToRegister' = ToRegister /\ \A a \in Accounts : ToCover(a)' = ToCover(a)
    BY <1>2 DEF ToRegister, ToCover
  <2>2. \A a \in Accounts : Cardinality(ToCover(a)) \in Nat /\ coverage[a] \in Nat
    <3>1. ASSUME NEW S \in SUBSET Workers
          PROVE  Cardinality(S) \in Nat
      BY Counting
    <3>2. \A a \in Accounts : ToCover(a) \in SUBSET Workers /\ coverage[a] \in Nat
      BY <1>1 DEF ToCover, TypeOK
    <3> QED BY <3>1, <3>2
  <2>3. starts \in Nat
    BY <1>1 DEF TypeOK
  <2> QED BY <1>1, <1>2, <2>1, <2>2, <2>3 DEF Counted
<1>7. Overlap'
  <2>1. ASSUME NEW u \in Workers, NEW v \in Workers, u # v, worker[u].task # "idle", worker[v].task # "idle",
               NEW b \in WorksOn(worker[u].task, worker[u].account) \cap WorksOn(worker[v].task, worker[v].account)
        PROVE  {worker[u].task, worker[v].task} \in met'[b]
    <3>1. {worker[u].task, worker[v].task} \in met[b]
      BY <1>1, <2>1 DEF Overlap
    <3>2. Shape(worker[u]) /\ worker[u] # Idle
      BY <1>1, <2>1 DEF ShapeInv, Idle
    <3>3. b \in Accounts
      BY <2>1, <3>2 DEF Shape, WorksOn, AccountsOf
    <3> QED BY <1>2, <3>1, <3>3
  <2> QED BY <1>2, <2>1 DEF Overlap, WorksOn
<1> QED BY <1>2, <1>3, <1>4, <1>5, <1>6, <1>7 DEF Core

LEMMA InitCore == Init => Core
<1> SUFFICES ASSUME Init PROVE Core
  OBVIOUS
<1>1. Idle \in WorkerState /\ NoRow \in Row /\ MaxNow \in Nat \ {0} /\ MaxStarts \in Nat /\ MaxFaults \in Nat
  BY Constants
<1>2. Idle.job = 0 /\ Idle.task = "idle" /\ Idle.month = 0 /\ Idle.date = 0 /\ Idle.copy = NoRow
  BY DEF Idle
<1>3. TypeOK
  BY <1>1, <1>2 DEF Init, TypeOK, Times
<1>4. ShapeInv /\ JobsInv /\ Overlap
  BY <1>2 DEF Init, ShapeInv, Shape, JobsInv, Overlap
<1>5. Clocked
  BY <1>2 DEF Init, Clocked, NoRow
<1>6. Counted
  <2>1. ToRegister = {} /\ \A a \in Accounts : ToCover(a) = {}
    BY <1>2 DEF Init, ToRegister, ToCover
  <2>2. Cardinality(ToRegister) = 0 /\ \A a \in Accounts : Cardinality(ToCover(a)) = 0
    BY <2>1, FS_EmptySet
  <2>3. Len(jobs) = 0 /\ starts = 0 /\ \A a \in Accounts : coverage[a] = 0
    BY DEF Init
  <2> QED BY <2>2, <2>3 DEF Counted
<1> QED BY <1>3, <1>4, <1>5, <1>6 DEF Core

\* Whatever the system does is one of these.
LEMMA Steps ==
    ASSUME Core, [Next]_vars
    PROVE  \/ UNCHANGED vars \/ Tick \/ Ingests \/ Fails
           \/ \E w \in Workers : Begun(w) \/ Moves(w)
<1>1. TypeOK /\ ShapeInv /\ Counted
  BY DEF Core
<1>2. ASSUME NEW w \in Workers, Begin(w) \/ Work(w) \/ Crash(w)
      PROVE  Begun(w) \/ Moves(w)
  BY <1>1, <1>2, Begins, WorkMoves
<1> QED BY <1>2 DEF Next, Ingests, Fails

LEMMA StillCore ==
    ASSUME Core, UNCHANGED vars
    PROVE  Core'
<1>1. UNCHANGED <<now, monthStart, bills, ingesting, monthly, coverage, jobs, row, file, masterFile, worker,
                  starts, faults, met, spoilt, wrote>>
  BY DEF vars, billVars, esVars, files, history
<1> QED BY <1>1 DEF Core, TypeOK, ShapeInv, JobsInv, Clocked, Counted, ToRegister, ToCover, Overlap

LEMMA StepCore ==
    ASSUME Core, [Next]_vars
    PROVE  Core'
BY Steps, StillCore, OtherCore, BegunCore, MovesCore

-----------------------------------------------------------------------------
(* A job that is not completed has a cause, and so has a date *)

LEMMA PendingStep ==
    ASSUME Core, PendingHasCause, [Next]_vars
    PROVE  PendingHasCause'
<1>1. TypeOK /\ ShapeInv /\ JobsInv
  BY DEF Core
<1>2. CASE UNCHANGED vars \/ Tick \/ Ingests \/ Fails
  <2>1. UNCHANGED <<jobs, worker, spoilt>>
    BY <1>1, <1>2, TickIs, IngestsAre, FailsLeave DEF vars, history
  <2> QED BY <2>1 DEF PendingHasCause
<1>3. ASSUME NEW w \in Workers, Begun(w)
      PROVE  PendingHasCause'
  <2> DEFINE y == worker'[w]
  <2>1. /\ jobs' \in Seq(Job) /\ \A i \in 1 .. Len(jobs) : jobs'[i] = jobs[i]
        /\ \/ Len(jobs') = Len(jobs)
           \/ Len(jobs') = Len(jobs) + 1 /\ y.job = Len(jobs')
    BY <1>1, <1>3, BegunJobs
  <2>2. worker[w].job = 0 /\ spoilt' = spoilt /\ \A v \in Workers \ {w} : worker'[v] = worker[v]
    <3>1. worker[w].job = 0 /\ spoilt' = spoilt
      BY <1>3 DEF Begun, Idle
    <3> QED BY <1>1, <1>3, <3>1, Others
  <2>3. DOMAIN jobs = 1 .. Len(jobs) /\ DOMAIN jobs' = 1 .. Len(jobs') /\ Len(jobs) \in Nat
    BY <1>1, <2>1, LenProperties DEF TypeOK
  <2>4. ASSUME NEW i \in 1 .. Len(jobs), jobs'[i].completed = 0
        PROVE  (\E v \in Workers : worker'[v].job = i) \/ "abandoned" \in spoilt'[jobs'[i].account]
    <3>1. jobs'[i] = jobs[i]
      BY <2>1
    <3>2. i \in DOMAIN jobs /\ i # 0
      BY <2>3
    <3>3. (\E v \in Workers : worker[v].job = i) \/ "abandoned" \in spoilt[jobs[i].account]
      BY <2>4, <3>1, <3>2 DEF PendingHasCause
    <3> QED BY <2>2, <3>1, <3>2, <3>3
  <2>5. ASSUME NEW i \in 1 .. Len(jobs'), i \notin 1 .. Len(jobs)
        PROVE  i = y.job
    <3>1. Len(jobs') \in Nat
      BY <2>1, LenProperties
    <3>2. Len(jobs') = Len(jobs) \/ (Len(jobs') = Len(jobs) + 1 /\ y.job = Len(jobs'))
      BY <2>1
    <3> DEFINE m == Len(jobs)
               n == Len(jobs')
    <3>3. m \in Nat /\ n \in Nat /\ (n = m \/ (n = m + 1 /\ y.job = n)) /\ i \in 1 .. n /\ i \notin 1 .. m
      BY <2>3, <2>5, <3>1, <3>2
    <3> HIDE DEF m, n
    <3> QED BY <3>3
  <2> QED BY <2>3, <2>4, <2>5 DEF PendingHasCause
<1>4. ASSUME NEW w \in Workers, Moves(w)
      PROVE  PendingHasCause'
  <2> DEFINE x == worker[w]
             y == worker'[w]
  <2>1. JobsAfter(x, y) /\ Goes(w)
    BY <1>1, <1>4, JobsMoved DEF Moves
  <2>2. \A v \in Workers \ {w} : worker'[v] = worker[v]
    BY <1>1, <1>4, Others
  <2>3. jobs' \in Seq(Job) /\ DOMAIN jobs = 1 .. Len(jobs) /\ DOMAIN jobs' = 1 .. Len(jobs') /\ Len(jobs) \in Nat
    BY <1>1, <2>1, LenProperties DEF TypeOK, JobsAfter
  <2>4. \A a \in Accounts : spoilt[a] \subseteq spoilt'[a]
    BY <2>1 DEF Goes
  <2>5. \A i \in 1 .. Len(jobs) : jobs[i].account \in Accounts
    <3>1. \A i \in 1 .. Len(jobs) : jobs[i] \in Job
      BY <1>1, ElementOfSeq DEF TypeOK
    <3> QED BY <3>1 DEF Job
  <2>6. now # 0
    BY <1>1 DEF TypeOK
  <2>7. ASSUME NEW i \in 1 .. Len(jobs), jobs'[i].completed = 0
        PROVE  (\E v \in Workers : worker'[v].job = i) \/ "abandoned" \in spoilt'[jobs'[i].account]
    <3>1. jobs'[i].account = jobs[i].account
      BY <2>1 DEF JobsAfter
    <3>2. CASE i # x.job
      <4>1. jobs'[i] = jobs[i]
        BY <2>1, <3>2 DEF JobsAfter
      <4>2. (\E v \in Workers : worker[v].job = i) \/ "abandoned" \in spoilt[jobs[i].account]
        BY <2>3, <2>7, <4>1 DEF PendingHasCause
      <4> QED BY <2>2, <2>4, <2>5, <3>1, <3>2, <4>2
    <3>3. CASE i = x.job
      <4>1. x.job # 0 /\ jobs[i].account = x.account /\ (jobs[i].completed = 0 <=> x.pc \notin Stamped)
        BY <1>1, <3>3 DEF JobsInv, Stamped
      <4>2. jobs'[i] = jobs[i] /\ JobStays(x, y)
        BY <2>1, <2>6, <2>7, <3>3, <4>1 DEF JobsAfter
      <4>3. y.job = x.job \/ "abandoned" \in spoilt'[x.account]
        BY <2>7, <3>3, <4>1, <4>2 DEF JobStays
      <4> QED BY <3>1, <3>3, <4>1, <4>3
    <3> QED BY <3>2, <3>3
  <2>8. ASSUME NEW i \in 1 .. Len(jobs'), i \notin 1 .. Len(jobs)
        PROVE  i = y.job
    <3>1. Len(jobs') \in Nat
      BY <2>3, LenProperties
    <3>2. Len(jobs') = Len(jobs) \/ (Len(jobs') = Len(jobs) + 1 /\ y.job = Len(jobs'))
      BY <2>1 DEF JobsAfter
    <3> DEFINE m == Len(jobs)
               n == Len(jobs')
    <3>3. m \in Nat /\ n \in Nat /\ (n = m \/ (n = m + 1 /\ y.job = n)) /\ i \in 1 .. n /\ i \notin 1 .. m
      BY <2>3, <2>8, <3>1, <3>2
    <3> HIDE DEF m, n
    <3> QED BY <3>3
  <2> QED BY <2>3, <2>7, <2>8 DEF PendingHasCause
<1> QED BY <1>2, <1>3, <1>4, Steps

WrittenNext(a, k) == \E writer \in RowWriters : {writer, k} \in met'[a]

\* A task that holds a row writes all of it, and has met every other that works on it.
LEMMA HoldersMet ==
    ASSUME ShapeInv, Overlap, NEW v \in Workers, NEW w \in Workers, v # w, worker[v].pc \in Holding,
           worker[w].task # "idle", worker[w].account = worker[v].account
    PROVE  Written(worker[v].account, worker[w].task)
<1>1. Shape(worker[v]) /\ worker[v] # Idle /\ Shape(worker[w])
  BY IdleIs DEF ShapeInv, Holding
<1>2. worker[v].task \in RowWriters /\ worker[v].task # "idle" /\ worker[v].account \in Accounts
  BY <1>1 DEF Shape, Holding, Working, RowWriters
<1>3. worker[v].account \in WorksOn(worker[v].task, worker[v].account) \cap WorksOn(worker[w].task, worker[w].account)
  BY <1>2 DEF WorksOn, AccountsOf
<1>4. {worker[v].task, worker[w].task} \in met[worker[v].account]
  BY <1>2, <1>3 DEF Overlap
<1> QED BY <1>2, <1>4 DEF Written

LEMMA ColumnStep ==
    ASSUME Core, ColumnHasCause, CopyInv, [Next]_vars
    PROVE  ColumnHasCause' /\ CopyInv'
<1>1. TypeOK /\ ShapeInv /\ Overlap
  BY DEF Core
<1>2. \A k, l \in Tasks : ColumnOf(k) \in Columns /\ (ColumnOf(k) = ColumnOf(l) => k = l)
  BY Constants
<1>3. \A v \in Workers : worker[v].pc \in Holding => worker[v].account \in Accounts /\ worker[v].task \in Tasks
  BY <1>1, AtWork DEF Holding
<1>4. CASE UNCHANGED vars \/ Tick \/ Ingests
  <2>1. UNCHANGED <<row, wrote, worker, met>>
    BY <1>1, <1>4, TickIs, IngestsAre DEF vars, history
  <2> QED BY <2>1 DEF ColumnHasCause, CopyInv, Written
<1>5. CASE Fails
  <2>0. PICK l \in {"process", "plugins"}, b \in Accounts : FailsOn(l, b)
    BY <1>1, <1>5, FailsIs
  <2>1. /\ \A a \in Accounts : \A c \in Columns :
              /\ row'[a][c] = IF a = b /\ c = ColumnOf(l) THEN now ELSE row[a][c]
              /\ wrote'[a][c] = IF a = b /\ c = ColumnOf(l) THEN now ELSE wrote[a][c]
        /\ \A a \in Accounts : met[a] \subseteq met'[a]
        /\ \A v \in Workers : worker[v].task # "idle" /\ worker[v].account = b => {worker[v].task, l} \in met'[b]
        /\ worker' = worker
    BY <2>0 DEF FailsOn
  <2>2. l \in Tasks
    BY DEF Tasks
  <2>3. ColumnHasCause'
    <3> SUFFICES ASSUME NEW a \in Accounts, NEW k \in Tasks
                 PROVE  \/ row'[a][ColumnOf(k)] = wrote'[a][ColumnOf(k)]
                        \/ \E writer \in RowWriters : {writer, k} \in met'[a]
      BY DEF ColumnHasCause
    <3>1. ColumnOf(k) \in Columns
      BY <1>2
    <3>2. CASE a = b /\ ColumnOf(k) = ColumnOf(l)
      BY <2>1, <3>1, <3>2
    <3>3. CASE ~(a = b /\ ColumnOf(k) = ColumnOf(l))
      <4>1. row'[a][ColumnOf(k)] = row[a][ColumnOf(k)] /\ wrote'[a][ColumnOf(k)] = wrote[a][ColumnOf(k)]
        BY <2>1, <3>1, <3>3
      <4> QED BY <2>1, <4>1 DEF ColumnHasCause
    <3> QED BY <3>2, <3>3
  <2>4. ASSUME NEW w \in Workers, NEW k \in Tasks, worker[w].pc \in Holding, k # worker[w].task
        PROVE  \/ worker[w].copy[ColumnOf(k)] = wrote'[worker[w].account][ColumnOf(k)]
               \/ WrittenNext(worker[w].account, k)
    <3> DEFINE a == worker[w].account
    <3>1. a \in Accounts /\ worker[w].task # "idle" /\ worker[w].task \in RowWriters
      <4>1. Shape(worker[w]) /\ worker[w] # Idle
        BY <1>1, <2>4, IdleIs DEF ShapeInv, Holding
      <4> QED BY <2>4, <4>1 DEF Shape, Holding, Working, RowWriters
    <3>2. CASE a = b /\ k = l
      <4>1. {worker[w].task, k} \in met'[a]
        BY <2>1, <3>1, <3>2
      <4> QED BY <3>1, <4>1, <2>1 DEF Written, WrittenNext
    <3>3. CASE ~(a = b /\ k = l)
      <4>1. wrote'[a][ColumnOf(k)] = wrote[a][ColumnOf(k)]
        BY <1>2, <2>1, <2>2, <3>1, <3>3
      <4>2. worker[w].copy[ColumnOf(k)] = wrote[a][ColumnOf(k)] \/ Written(a, k)
        BY <2>4 DEF CopyInv, Holding
      <4> QED BY <2>1, <3>1, <4>1, <4>2 DEF Written, WrittenNext
    <3> QED BY <3>2, <3>3
  <2>5. CopyInv'
    BY <2>1, <2>4 DEF CopyInv, Holding, Written, WrittenNext
  <2> QED BY <2>3, <2>5
<1>6. ASSUME NEW w \in Workers, Begun(w)
      PROVE  ColumnHasCause' /\ CopyInv'
  <2> DEFINE y == worker'[w]
  <2>1. /\ UNCHANGED <<row, wrote>> /\ \A v \in Workers \ {w} : worker'[v] = worker[v]
        /\ y.pc \in Holding => y.copy = row[y.account] /\ y.pc = "detect"
    BY <1>1, <1>6, Others DEF Begun, Holding
  <2>2. \A a \in Accounts : met[a] \subseteq met'[a]
    BY <1>6 DEF Begun, Meet
  <2>3. y.account \in Accounts
    BY <1>1, <1>6, BegunJobs
  <2>4. ColumnHasCause'
    BY <2>1, <2>2 DEF ColumnHasCause
  <2>5. \A v \in Workers \ {w}, k \in Tasks : worker'[v].pc \in Holding /\ k # worker'[v].task =>
            \/ worker'[v].copy[ColumnOf(k)] = wrote'[worker'[v].account][ColumnOf(k)]
            \/ WrittenNext(worker'[v].account, k)
    <3> SUFFICES ASSUME NEW v \in Workers \ {w}, NEW k \in Tasks, worker[v].pc \in Holding, k # worker[v].task
                 PROVE  \/ worker[v].copy[ColumnOf(k)] = wrote[worker[v].account][ColumnOf(k)]
                        \/ WrittenNext(worker[v].account, k)
      BY <2>1
    <3>1. worker[v].account \in Accounts
      BY <1>3
    <3>2. worker[v].copy[ColumnOf(k)] = wrote[worker[v].account][ColumnOf(k)] \/ Written(worker[v].account, k)
      BY DEF CopyInv, Holding
    <3> QED BY <2>2, <3>1, <3>2 DEF Written, WrittenNext
  <2>6. \A k \in Tasks : y.pc \in Holding =>
            y.copy[ColumnOf(k)] = wrote'[y.account][ColumnOf(k)] \/ WrittenNext(y.account, k)
    BY <2>1, <2>2, <2>3 DEF ColumnHasCause, Written, WrittenNext
  <2> QED BY <2>4, <2>5, <2>6 DEF CopyInv, Holding, Written, WrittenNext
<1>7. ASSUME NEW w \in Workers, Moves(w)
      PROVE  ColumnHasCause' /\ CopyInv'
  <2> DEFINE x == worker[w]
             y == worker'[w]
             a == x.account
             t == x.task
  <2>1. Goes(w) /\ RowsMove(w) /\ a \in Accounts /\ t \in Tasks /\ x \in WorkerState /\ met' = met /\ t # "idle"
    BY <1>1, <1>7, AtWork DEF Moves, Goes, Tasks
  <2>2. \A v \in Workers \ {w} : worker'[v] = worker[v]
    BY <1>1, <1>7, Others
  <2>3. y = Idle \/ (y.task = t /\ y.account = a)
    BY <2>1 DEF Goes
  <2>4. Idle.pc \notin Holding
    BY IdleIs DEF Holding
  <2>5. CASE RowsStay(x, y)
    <3>1. UNCHANGED <<row, wrote>>
      BY <2>5 DEF RowsStay
    <3>2. ColumnHasCause'
      BY <2>1, <3>1 DEF ColumnHasCause
    <3>3. \A v \in Workers \ {w}, k \in Tasks : worker'[v].pc \in Holding /\ k # worker'[v].task =>
            \/ worker'[v].copy[ColumnOf(k)] = wrote'[worker'[v].account][ColumnOf(k)]
            \/ WrittenNext(worker'[v].account, k)
      BY <2>1, <2>2, <3>1 DEF CopyInv, Written, WrittenNext, Holding
    <3>4. ASSUME NEW k \in Tasks, y.pc \in Holding, k # y.task
          PROVE  y.copy[ColumnOf(k)] = wrote'[y.account][ColumnOf(k)] \/ WrittenNext(y.account, k)
      <4>1. y # Idle
        BY <2>4, <3>4
      <4>2. CASE y.copy = x.copy /\ x.pc \in Holding
        BY <2>1, <2>3, <3>1, <3>4, <4>1, <4>2 DEF CopyInv, Written, WrittenNext, Holding
      <4>3. CASE y.copy = row[a]
        BY <2>1, <2>3, <3>1, <3>4, <4>1, <4>3 DEF ColumnHasCause, Written, WrittenNext
      <4> QED BY <2>5, <3>4, <4>1, <4>2, <4>3 DEF RowsStay
    <3> QED BY <3>2, <3>3, <3>4 DEF CopyInv, Holding, Written, WrittenNext
  <2>6. ASSUME NEW r \in Row, NEW d \in Times, y.pc \notin Holding,
               row' = [row EXCEPT ![a] = r], wrote' = [wrote EXCEPT ![a][ColumnOf(t)] = d], r[ColumnOf(t)] = d,
               \A k \in Tasks \ {t} : \/ r[ColumnOf(k)] = wrote[a][ColumnOf(k)]
                                      \/ Written(a, k)
        PROVE  ColumnHasCause' /\ CopyInv'
    <3> DEFINE c == ColumnOf(t)
    <3>1. c \in Columns /\ wrote \in [Accounts -> Row] /\ row \in [Accounts -> Row]
      BY <1>1, <1>2, <2>1 DEF TypeOK
    <3>2. /\ wrote'[a][c] = d
          /\ \A e \in Columns \ {c} : wrote'[a][e] = wrote[a][e]
          /\ \A b \in Accounts \ {a} : wrote'[b] = wrote[b]
      <4>1. wrote' = [wrote EXCEPT ![a][c] = d]
        BY <2>6
      <4> HIDE DEF c
      <4> QED BY <2>1, <3>1, <4>1, Dating
    <3>3. row'[a] = r /\ \A b \in Accounts \ {a} : row'[b] = row[b]
      BY <2>1, <2>6, <3>1
    <3>4. \A k \in Tasks \ {t} : ColumnOf(k) \in Columns \ {c}
      BY <1>2, <2>1
    <3>5. ColumnHasCause'
      <4>1. ASSUME NEW b \in Accounts, NEW k \in Tasks
            PROVE  row'[b][ColumnOf(k)] = wrote'[b][ColumnOf(k)] \/ Written(b, k)
        <5>1. CASE b # a
          BY <3>2, <3>3, <5>1 DEF ColumnHasCause, Written, WrittenNext
        <5>2. CASE b = a /\ k = t
          BY <2>6, <3>2, <3>3, <5>2
        <5>3. CASE b = a /\ k # t
          BY <2>6, <3>2, <3>3, <3>4, <5>3
        <5> QED BY <5>1, <5>2, <5>3
      <4> QED BY <2>1, <4>1 DEF ColumnHasCause, Written, WrittenNext
    <3>6. ASSUME NEW v \in Workers, NEW k \in Tasks, worker'[v].pc \in Holding, k # worker'[v].task
          PROVE  \/ worker'[v].copy[ColumnOf(k)] = wrote'[worker'[v].account][ColumnOf(k)]
                 \/ Written(worker'[v].account, k)
      <4>1. v # w /\ worker'[v] = worker[v] /\ worker[v].account \in Accounts
        BY <1>3, <2>2, <2>6, <3>6
      <4>2. CASE worker[v].account = a /\ k = t
        BY <1>1, <2>1, <3>6, <4>1, <4>2, HoldersMet
      <4>3. CASE worker[v].account # a \/ k # t
        <5>1. wrote'[worker[v].account][ColumnOf(k)] = wrote[worker[v].account][ColumnOf(k)]
          BY <3>2, <3>4, <4>1, <4>3
        <5> QED BY <3>6, <4>1, <5>1 DEF CopyInv, Holding
      <4> QED BY <4>2, <4>3
    <3>7. CopyInv'
      BY <2>1, <3>6 DEF CopyInv, Written, WrittenNext, Holding
    <3> QED BY <3>5, <3>7
  <2>7. CASE RowPlanned(x, y)
    <3> DEFINE c == ColumnOf(t)
               r == [row[a] EXCEPT ![c] = now]
    <3>1. c \in Columns /\ now \in Times /\ row[a] \in Row
      BY <1>1, <1>2, <2>1 DEF TypeOK
    <3>2. r \in Row /\ r[c] = now /\ \A e \in Columns \ {c} : r[e] = row[a][e]
      BY <3>1 DEF Row
    <3>3. row' = [row EXCEPT ![a] = r]
      BY <2>7 DEF RowPlanned
    <3>4. \A k \in Tasks \ {t} : r[ColumnOf(k)] = wrote[a][ColumnOf(k)] \/ Written(a, k)
      <4>1. \A k \in Tasks \ {t} : ColumnOf(k) \in Columns \ {c}
        BY <1>2, <2>1
      <4> QED BY <2>1, <3>2, <4>1 DEF ColumnHasCause, Written, WrittenNext
    <3>5. wrote' = [wrote EXCEPT ![a][ColumnOf(t)] = now] /\ y.pc \notin Holding
      BY <2>7 DEF RowPlanned
    <3> HIDE DEF r
    <3> QED BY <2>6, <3>1, <3>2, <3>3, <3>4, <3>5
  <2>8. CASE RowWritten(x, y)
    <3> DEFINE r == RowToWrite(x)
    <3>1. r \in Row /\ r[ColumnOf(t)] = x.date /\ \A e \in Columns \ {ColumnOf(t)} : r[e] = x.copy[e]
      BY <1>1, <2>1, Writing
    <3>2. /\ row' = [row EXCEPT ![a] = r] /\ wrote' = [wrote EXCEPT ![a][ColumnOf(t)] = x.date]
          /\ y.pc \notin Holding /\ x.pc \in Holding
      BY <2>4, <2>8 DEF RowWritten, Holding
    <3>3. \A k \in Tasks \ {t} : r[ColumnOf(k)] = wrote[a][ColumnOf(k)] \/ Written(a, k)
      <4>1. \A k \in Tasks \ {t} : ColumnOf(k) \in Columns \ {ColumnOf(t)}
        BY <1>2, <2>1
      <4> QED BY <3>1, <3>2, <4>1 DEF CopyInv, Holding
    <3>4. x.date \in Times
      BY <2>1 DEF WorkerState
    <3> HIDE DEF r
    <3> QED BY <2>6, <3>1, <3>2, <3>3, <3>4
  <2> QED BY <2>1, <2>5, <2>7, <2>8 DEF RowsMove
<1> QED BY <1>4, <1>5, <1>6, <1>7, Steps

-----------------------------------------------------------------------------
(* The coverage report is made once *)

\* Two tasks of process-account that work on the same account have met.
LEMMA ProcessesMet ==
    ASSUME ShapeInv, Overlap, NEW v \in Workers, NEW w \in Workers, v # w, worker[v].pc \in Working, worker[w].pc \in Working,
           worker[v].account = worker[w].account
    PROVE  {"process"} \in met[worker[v].account]
<1>1. Shape(worker[v]) /\ worker[v] # Idle /\ Shape(worker[w]) /\ worker[w] # Idle
  BY IdleIs DEF ShapeInv, Working
<1>2. worker[v].task = "process" /\ worker[w].task = "process" /\ worker[v].account \in Accounts
  BY <1>1 DEF Shape, Working
<1>3. {worker[v].task, worker[w].task} \in met[worker[v].account]
  BY <1>2 DEF Overlap, WorksOn
<1> QED BY <1>2, <1>3

LEMMA CoverageStep ==
    ASSUME Core, CoverageOnce, CoverageInv, [Next]_vars
    PROVE  CoverageOnce' /\ CoverageInv'
<1>1. TypeOK /\ ShapeInv /\ Overlap /\ Clocked
  BY DEF Core
<1>2. \A a \in Accounts : coverage[a] \in Nat
  BY <1>1 DEF TypeOK
<1>3. \A v \in Workers : worker[v].pc = "import" => worker[v].account \in Accounts
  BY <1>1, AtWork
<1>4. ASSUME UNCHANGED <<monthStart, coverage, worker>>, \A a \in Accounts : met[a] \subseteq met'[a]
      PROVE  CoverageOnce' /\ CoverageInv'
  BY <1>3, <1>4 DEF CoverageOnce, CoverageInv
<1>5. CASE UNCHANGED vars
  BY <1>4, <1>5 DEF vars, esVars, history
<1>6. CASE Ingests
  BY <1>1, <1>4, <1>6, IngestsAre DEF esVars, history
<1>7. CASE Fails
  BY <1>1, <1>4, <1>7, FailsLeave
<1>8. CASE Tick
  <2>1. CASE UNCHANGED <<monthStart, billVars, esVars, files>>
    BY <1>1, <1>4, <1>8, <2>1, TickIs DEF esVars, history
  <2>2. CASE monthStart' = now' /\ coverage' = [a \in Accounts |-> 0]
    <3>1. worker' = worker
      BY <1>1, <1>8, TickIs
    <3>2. \A a \in Accounts : coverage'[a] = 0
      BY <2>2
    <3> QED BY <1>3, <3>1, <3>2 DEF CoverageOnce, CoverageInv
  <2> QED BY <1>1, <1>8, <2>1, <2>2, TickIs
<1>9. ASSUME NEW w \in Workers, Begun(w)
      PROVE  CoverageOnce' /\ CoverageInv'
  <2>1. \A v \in Workers \ {w} : worker'[v] = worker[v]
    BY <1>1, <1>9, Others
  <2>2. worker'[w].pc # "import" /\ UNCHANGED <<monthStart, coverage>>
    BY <1>9 DEF Begun, esVars
  <2>3. \A a \in Accounts : met[a] \subseteq met'[a]
    BY <1>9 DEF Begun, Meet
  <2>4. \A v \in Workers : worker'[v].pc = "import" => worker'[v] = worker[v]
    BY <2>1, <2>2
  <2> QED BY <1>3, <2>2, <2>3, <2>4 DEF CoverageOnce, CoverageInv
<1>10. ASSUME NEW w \in Workers, Moves(w)
       PROVE  CoverageOnce' /\ CoverageInv'
  <2> DEFINE x == worker[w]
             y == worker'[w]
             a == x.account
  <2>1. /\ Goes(w) /\ ReportsMove(w) /\ BillsMove(w) /\ a \in Accounts /\ UNCHANGED <<monthStart, met>>
        /\ y = Idle \/ y.account = a
    BY <1>1, <1>10, AtWork DEF Moves, Goes
  <2>2. \A v \in Workers \ {w} : worker'[v] = worker[v]
    BY <1>1, <1>10, Others
  <2>3. \/ coverage' = coverage
        \/ /\ coverage' = [coverage EXCEPT ![a] = @ + 1]
           /\ x.pc = "import" /\ x.svc = Coverage /\ x.month = monthStart /\ y.pc = "plan"
    BY <2>1 DEF ReportsMove, ReportsWritten, esVars
  <2>4. CoverageOnce'
    <3>1. CASE coverage' = coverage
      BY <2>1, <3>1 DEF CoverageOnce
    <3>2. CASE /\ coverage' = [coverage EXCEPT ![a] = @ + 1]
               /\ x.pc = "import" /\ x.svc = Coverage /\ x.month = monthStart
      <4>1. coverage[a] = 0 \/ {"process"} \in met[a]
        BY <3>2 DEF CoverageInv
      <4>2. coverage'[a] = coverage[a] + 1 /\ \A b \in Accounts \ {a} : coverage'[b] = coverage[b]
        BY <1>1, <2>1, <3>2 DEF TypeOK
      <4> QED BY <1>2, <2>1, <4>1, <4>2 DEF CoverageOnce
    <3> QED BY <2>3, <3>1, <3>2
  <2>5. ASSUME NEW v \in Workers, worker'[v].pc = "import", worker'[v].svc = Coverage, worker'[v].month = monthStart
        PROVE  coverage'[worker'[v].account] = 0 \/ {"process"} \in met[worker'[v].account]
    <3>1. CASE v = w
      <4>1. y # Idle /\ y.account = a /\ x.pc = "exists" /\ ~ReportExists(a, x.svc) /\ x.svc = Coverage
        BY <2>1, <2>5, <3>1, IdleIs DEF BillsMove, Working
      <4>2. coverage[a] = 0
        BY <1>2, <2>1, <4>1 DEF ReportExists
      <4> QED BY <2>3, <3>1, <4>1, <4>2
    <3>2. CASE v # w
      <4>1. worker'[v] = worker[v] /\ worker[v].account \in Accounts
        BY <1>3, <2>2, <2>5, <3>2
      <4>2. coverage[worker[v].account] = 0 \/ {"process"} \in met[worker[v].account]
        BY <2>5, <4>1 DEF CoverageInv
      <4>3. CASE coverage'[worker[v].account] = coverage[worker[v].account]
        BY <4>1, <4>2, <4>3
      <4>4. CASE coverage'[worker[v].account] # coverage[worker[v].account]
        <5>1. x.pc = "import" /\ worker[v].account = a
          BY <1>1, <2>1, <2>3, <4>1, <4>4 DEF TypeOK
        <5>2. {"process"} \in met[worker[v].account]
          BY <1>1, <2>5, <3>2, <4>1, <5>1, ProcessesMet DEF Working
        <5> QED BY <4>1, <5>2
      <4> QED BY <4>3, <4>4
    <3> QED BY <3>1, <3>2
  <2>6. CoverageInv'
    BY <2>1, <2>5 DEF CoverageInv
  <2> QED BY <2>4, <2>6
<1> QED BY <1>5, <1>6, <1>7, <1>8, <1>9, <1>10, Steps

-----------------------------------------------------------------------------
(* The reports of a service are of all its line items *)

LEMMA ServicesApart ==
    ASSUME NEW a \in Accounts, NEW b \in Accounts, NEW i \in DOMAIN CostServices, NEW j \in 1 .. Coverage
    PROVE  Service(a, i) = Service(b, j) \/ Service(a, i) \cap Service(b, j) = {}
<1>1. i # Coverage
  BY AccountJobsAssumption, LenProperties DEF Coverage
<1>2. CASE a = b /\ j # Coverage /\ CostServices[i] = CostServices[j]
  BY <1>1, <1>2 DEF Service
<1>3. CASE a # b
  BY <1>3 DEF Service, LinesOf
<1>4. CASE j = Coverage
  BY <1>4 DEF Service
<1>5. CASE CostServices[i] # CostServices[j]
  BY <1>5 DEF Service
<1> QED BY <1>2, <1>3, <1>4, <1>5

LEMMA BillsStep ==
    ASSUME Core, LacksHasCause, BillsInv, [Next]_vars
    PROVE  LacksHasCause' /\ BillsInv'
<1>1. TypeOK /\ ShapeInv /\ Clocked
  BY DEF Core
<1>2. \A v \in Workers : worker[v].pc \in Working => worker[v].account \in Accounts
  BY <1>1, AtWork DEF Working
<1>3. \A a \in Accounts : AllFinal(a) => \A l \in LinesOf(a) : l \in Lines /\ bills[l] = "final"
  BY DEF AllFinal, LinesOf, Lines
<1>4. ASSUME UNCHANGED <<monthStart, monthly, worker, spoilt>>, \A l \in Lines : bills[l] = "final" => bills'[l] = "final"
      PROVE  LacksHasCause' /\ BillsInv'
  <2>1. \A a \in Accounts : AllFinal(a) => AllFinal(a)'
    BY <1>3, <1>4 DEF AllFinal, LinesOf
  <2> QED BY <1>2, <1>4, <2>1 DEF LacksHasCause, BillsInv
<1>5. CASE UNCHANGED vars
  BY <1>4, <1>5 DEF vars, esVars, history, billVars
<1>6. CASE Ingests
  BY <1>1, <1>4, <1>6, IngestsAre DEF esVars, history
<1>7. CASE Fails
  BY <1>1, <1>4, <1>7, FailsLeave DEF billVars
<1>8. CASE Tick
  <2>1. CASE UNCHANGED <<monthStart, billVars, esVars, files>>
    BY <1>1, <1>4, <1>8, <2>1, TickIs DEF esVars, billVars, history
  <2>2. CASE monthStart' = now' /\ monthly' = {}
    <3>1. worker' = worker /\ now' = now + 1 /\ monthStart \in 1 .. now /\ now \in Nat
      BY <1>1, <1>8, TickIs, Constants DEF TypeOK, Times
    <3>2. \A v \in Workers : worker[v].month <= monthStart /\ worker[v].month \in Nat
      BY <1>1, Constants DEF Clocked, TypeOK, WorkerState, Times
    <3>3. \A v \in Workers : worker'[v].month # monthStart'
      BY <2>2, <3>1, <3>2
    <3> QED BY <2>2, <3>3 DEF LacksHasCause, BillsInv
  <2> QED BY <1>1, <1>8, <2>1, <2>2, TickIs
<1>9. ASSUME NEW w \in Workers, Begun(w)
      PROVE  LacksHasCause' /\ BillsInv'
  <2>1. \A v \in Workers \ {w} : worker'[v] = worker[v]
    BY <1>1, <1>9, Others
  <2>2. worker'[w].pc \notin Working /\ UNCHANGED <<monthStart, monthly, spoilt, bills>>
    BY <1>9 DEF Begun, esVars, billVars, Working
  <2>3. \A v \in Workers : worker'[v].pc \in Working => worker'[v] = worker[v]
    BY <2>1, <2>2
  <2> QED BY <2>2, <2>3 DEF LacksHasCause, BillsInv, AllFinal
<1>10. ASSUME NEW w \in Workers, Moves(w)
       PROVE  LacksHasCause' /\ BillsInv'
  <2> DEFINE x == worker[w]
             y == worker'[w]
             a == x.account
  <2>1. /\ Goes(w) /\ ReportsMove(w) /\ BillsMove(w) /\ a \in Accounts /\ x \in WorkerState /\ Shape(x) /\ x # Idle
        /\ UNCHANGED <<monthStart, bills>>
        /\ \A b \in Accounts : spoilt[b] \subseteq spoilt'[b]
        /\ y = Idle \/ y.account = a
    BY <1>1, <1>10, AtWork DEF Moves, Goes, billVars
  <2>2. \A v \in Workers \ {w} : worker'[v] = worker[v]
    BY <1>1, <1>10, Others
  <2>3. LacksHasCause'
    <3>1. CASE monthly' = monthly
      BY <2>1, <3>1 DEF LacksHasCause
    <3>2. CASE ReportsWritten(x, y)
      <4>1. PICK ls \in SUBSET x.seen : monthly' = monthly \cup ls /\ (ls = x.seen \/ "bulk" \in spoilt'[a])
        BY <3>2 DEF ReportsWritten
      <4>2. x.pc = "import" /\ x.month = monthStart
        BY <3>2 DEF ReportsWritten
      <4>3. x.svc \in 1 .. Coverage /\ x.seen \subseteq Service(a, x.svc)
        BY <2>1, <4>2 DEF Shape, Working
      <4>4. "incomplete" \in spoilt[a] \/ x.seen = Service(a, x.svc)
        BY <4>2 DEF BillsInv, Working
      <4>5. ASSUME NEW b \in Accounts, NEW i \in DOMAIN CostServices, spoilt'[b] \cap {"incomplete", "bulk"} = {}
            PROVE  Service(b, i) \cap monthly' \in {{}, Service(b, i)}
        <5>1. Service(b, i) \cap monthly \in {{}, Service(b, i)}
          BY <2>1, <4>5 DEF LacksHasCause
        <5>2. CASE Service(b, i) \cap Service(a, x.svc) = {}
          BY <4>1, <4>3, <5>1, <5>2
        <5>3. CASE Service(b, i) = Service(a, x.svc) /\ Service(b, i) # {}
          <6>1. a = b
            BY <5>3 DEF Service, LinesOf
          <6>2. ls = Service(a, x.svc)
            BY <2>1, <4>1, <4>4, <4>5, <6>1
          <6> QED BY <4>1, <5>3, <6>2
        <5> QED BY <2>1, <4>3, <5>2, <5>3, ServicesApart
      <4> QED BY <4>5 DEF LacksHasCause
    <3> QED BY <2>1, <3>1, <3>2 DEF ReportsMove, esVars
  <2>4. ASSUME NEW v \in Workers, worker'[v].pc \in Working, worker'[v].month = monthStart
        PROVE  LET z == worker'[v] IN
               \/ "incomplete" \in spoilt'[z.account]
               \/ AllFinal(z.account) /\ (z.pc # "cost" => z.seen = Service(z.account, z.svc))
    <3>1. CASE v # w
      <4>1. worker'[v] = worker[v] /\ worker[v].account \in Accounts
        BY <1>2, <2>2, <2>4, <3>1
      <4> QED BY <2>1, <2>4, <4>1 DEF BillsInv
    <3>2. CASE v = w
      <4>1. y # Idle /\ y.account = a
        BY <2>1, <2>4, <3>2, IdleIs DEF Working
      <4>2. CASE x.pc = "bills" /\ y.pc = "cost" /\ (AllFinal(a) \/ "incomplete" \in spoilt'[a])
        BY <3>2, <4>1, <4>2
      <4>3. CASE x.pc \in Working /\ x.month = monthStart
        <5>1. CASE "incomplete" \in spoilt[a]
          BY <2>1, <3>2, <4>1, <5>1
        <5>2. CASE AllFinal(a) /\ (x.pc # "cost" => x.seen = Service(a, x.svc))
          <6>1. \/ y.pc = "cost"
                \/ y.pc = "exists" /\ y.svc = Coverage /\ y.seen = {}
                \/ y.pc = "exists" /\ x.pc = "cost" /\ y.svc = x.svc /\ y.seen = PaidFor(a, x.svc)
                \/ y.pc = "import" /\ x.pc = "exists" /\ y.svc = x.svc /\ y.seen = x.seen
            BY <2>1, <2>4, <3>2, <4>3 DEF BillsMove, Working
          <6>2. Service(a, Coverage) = {}
            BY DEF Service
          <6>3. PaidFor(a, x.svc) = Service(a, x.svc)
            BY <5>2 DEF PaidFor, Service, AllFinal
          <6> QED BY <3>2, <4>1, <5>2, <6>1, <6>2, <6>3
        <5> QED BY <4>3, <5>1, <5>2 DEF BillsInv
      <4> QED BY <2>1, <2>4, <3>2, <4>2, <4>3 DEF BillsMove
    <3> QED BY <3>1, <3>2
  <2>5. BillsInv'
    <3>1. \A b : AllFinal(b) => AllFinal(b)'
      BY <2>1 DEF AllFinal
    <3> QED BY <2>1, <2>4, <3>1 DEF BillsInv, AllFinal
  <2> QED BY <2>3, <2>5
<1> QED BY <1>5, <1>6, <1>7, <1>8, <1>9, <1>10, Steps

-----------------------------------------------------------------------------
(* The dates of the spreadsheets, and what makes them due *)

LEMMA DatesNow ==
    ASSUME TypeOK, Clocked, NEW a \in Accounts, NEW c \in Columns, NEW s \in Dates(a, c)
    PROVE  s \in Nat /\ s <= now
<1>1. row[a][c] \in Nat /\ row[a][c] <= now
  BY Constants DEF TypeOK, Clocked, Row, Times
<1>2. \A v \in Workers : worker[v].copy[c] \in Nat /\ worker[v].copy[c] <= now
  BY Constants DEF TypeOK, Clocked, WorkerState, Row, Times
<1> QED BY <1>1, <1>2 DEF Dates

\* Only the task of a kind of spreadsheet has new dates for it.
LEMMA DatesMoved ==
    ASSUME TypeOK, ShapeInv, NEW w \in Workers, Moves(w), NEW a \in Accounts, NEW c \in {"sheet", "master"},
           NEW s \in Dates(a, c)'
    PROVE  \/ s \in Dates(a, c)
           \/ /\ RowWritten(worker[w], worker'[w]) /\ worker[w].account = a /\ worker[w].task = c /\ s = worker[w].date
<1> DEFINE x == worker[w]
           y == worker'[w]
<1>1. /\ Goes(w) /\ RowsMove(w) /\ x \in WorkerState /\ x.account \in Accounts /\ x.task \in Tasks
      /\ y = Idle \/ y.account = x.account
  BY AtWork DEF Moves, Goes
<1>2. \A v \in Workers \ {w} : worker'[v] = worker[v]
  BY Others
<1>3. Idle.account = NoAccount /\ NoAccount \notin Accounts
  BY AccountJobsAssumption DEF Idle
<1>4. c \in Columns /\ c \in Tasks /\ ColumnOf(c) = c /\ now \in Times
  BY DEF Columns, Tasks, ColumnOf, TypeOK
<1>5. \A v \in Workers : worker[v].account = a => worker[v].copy[c] \in Dates(a, c)
  BY DEF Dates
<1>6. row[a][c] \in Dates(a, c)
  BY DEF Dates
<1>7. s = row'[a][c] \/ \E v \in Workers : worker'[v].account = a /\ s = worker'[v].copy[c]
  BY DEF Dates
<1>8. ASSUME NEW v \in Workers, worker'[v].account = a, s = worker'[v].copy[c]
      PROVE  s \in Dates(a, c)
  <2>1. CASE v # w
    BY <1>2, <1>5, <1>8, <2>1
  <2>2. CASE v = w
    <3>1. y # Idle /\ x.account = a
      BY <1>1, <1>3, <1>8, <2>2
    <3>2. y.copy = x.copy \/ y.copy = row[a]
      BY <1>1, <3>1 DEF RowsMove, RowsStay, RowPlanned, RowWritten
    <3> QED BY <1>5, <1>6, <1>8, <2>2, <3>1, <3>2
  <2> QED BY <2>1, <2>2
<1>9. CASE s = row'[a][c]
  <2>1. CASE RowsStay(x, y)
    BY <1>6, <1>9, <2>1 DEF RowsStay
  <2>2. CASE RowPlanned(x, y)
    <3> DEFINE d == ColumnOf(x.task)
    <3>1. row' = [row EXCEPT ![x.account][d] = now] /\ row \in [Accounts -> Row]
      BY <2>2 DEF RowPlanned, TypeOK
    <3>2. d \in Columns /\ d # c
      BY <1>1, <1>4, <2>2, Constants DEF RowPlanned
    <3> HIDE DEF d
    <3>3. row'[a][c] = row[a][c]
      BY <1>1, <1>4, <3>1, <3>2, Dating
    <3> QED BY <1>6, <1>9, <3>3
  <2>3. CASE RowWritten(x, y)
    <3>1. row' = [row EXCEPT ![x.account] = RowToWrite(x)] /\ row \in [Accounts -> Row]
      BY <2>3 DEF RowWritten, TypeOK
    <3>2. CASE x.account # a
      BY <1>1, <1>6, <1>9, <3>1, <3>2
    <3>3. CASE x.account = a
      <4>1. s = RowToWrite(x)[c]
        BY <1>9, <3>1, <3>3
      <4>2. CASE x.task = c
        BY <1>1, <1>4, <2>3, <3>3, <4>1, <4>2, Writing
      <4>3. CASE x.task # c
        <5>1. ColumnOf(x.task) # c
          BY <1>1, <1>4, <4>3, Constants
        <5>2. RowToWrite(x)[c] = x.copy[c]
          BY <1>1, <1>4, <5>1, Writing
        <5> QED BY <1>5, <3>3, <4>1, <5>2
      <4> QED BY <4>2, <4>3
    <3> QED BY <3>2, <3>3
  <2> QED BY <1>1, <2>1, <2>2, <2>3 DEF RowsMove
<1> QED BY <1>7, <1>8, <1>9

LEMMA DatesBegun ==
    ASSUME TypeOK, NEW w \in Workers, Begun(w), NEW a \in Accounts, NEW c \in Columns, NEW s \in Dates(a, c)'
    PROVE  s = 0 \/ s \in Dates(a, c)
<1>1. \A v \in Workers \ {w} : worker'[v] = worker[v]
  BY Others
<1>2. row' = row /\ (worker'[w].copy = NoRow \/ worker'[w].copy = row[worker'[w].account])
  BY DEF Begun
<1> QED BY <1>1, <1>2 DEF Dates, NoRow

LEMMA DatesOther ==
    ASSUME TypeOK, UNCHANGED vars \/ Tick \/ Ingests \/ Fails, NEW a \in Accounts, NEW c \in {"sheet", "master"}
    PROVE  Dates(a, c)' = Dates(a, c)
<1>1. CASE UNCHANGED vars \/ Tick \/ Ingests
  <2>1. UNCHANGED <<row, worker>>
    BY <1>1, TickIs, IngestsAre DEF vars
  <2> QED BY <2>1 DEF Dates
<1>2. CASE Fails
  <2>0. PICK k \in {"process", "plugins"}, b \in Accounts : FailsOn(k, b)
    BY <1>2, FailsIs
  <2>1. /\ \A d \in Accounts : \A e \in Columns : row'[d][e] = IF d = b /\ e = ColumnOf(k) THEN now ELSE row[d][e]
        /\ worker' = worker
    BY <2>0 DEF FailsOn
  <2>2. c \in Columns /\ c # ColumnOf(k)
    BY DEF Columns, ColumnOf
  <2>3. row'[a][c] = row[a][c]
    BY <2>1, <2>2
  <2> QED BY <2>1, <2>3 DEF Dates
<1> QED BY <1>1, <1>2

\* What is due remains so, as the jobs that make it so are completed.
LEMMA DueStays ==
    ASSUME Core, NEW w \in Workers, Moves(w) \/ Begun(w), NEW a \in Accounts, NEW s \in Nat, Due(a, s)
    PROVE  Due(a, s)'
<1>1. TypeOK /\ ShapeInv /\ JobsInv
  BY DEF Core
<1>2. monthStart' = monthStart
  BY DEF Moves, Goes, Begun
<1>3. CASE s < monthStart
  BY <1>2, <1>3 DEF Due
<1>4. ASSUME NEW i \in DOMAIN jobs, jobs[i].kind = "process", jobs[i].account = a, jobs[i].monthly, s < jobs[i].completed
      PROVE  Due(a, s)'
  <2>1. i \in 1 .. Len(jobs) /\ Len(jobs) \in Nat /\ jobs[i] \in Job
    BY <1>1, LenProperties, ElementOfSeq DEF TypeOK
  <2>2. jobs[i].completed # 0
    BY <1>4, <2>1 DEF Job, Times
  <2>3. jobs'[i] = jobs[i] /\ i \in DOMAIN jobs'
    <3>1. CASE Begun(w)
      <4>1. jobs' \in Seq(Job) /\ jobs'[i] = jobs[i] /\ (Len(jobs') = Len(jobs) \/ Len(jobs') = Len(jobs) + 1)
        BY <1>1, <2>1, <3>1, BegunJobs
      <4> QED BY <2>1, <4>1, LenProperties
    <3>2. CASE Moves(w)
      <4>1. JobsAfter(worker[w], worker'[w])
        BY <1>1, <3>2, JobsMoved DEF Moves
      <4>2. jobs' \in Seq(Job) /\ (Len(jobs') = Len(jobs) \/ Len(jobs') = Len(jobs) + 1)
        BY <4>1 DEF JobsAfter
      <4>3. CASE i # worker[w].job
        <5>1. jobs'[i] = jobs[i]
          BY <2>1, <4>1, <4>3 DEF JobsAfter
        <5> QED BY <2>1, <4>2, <5>1, LenProperties
      <4>4. CASE i = worker[w].job
        <5>1. i # 0 /\ worker[w].pc \in Stamped /\ jobs[i].kind = worker[w].task
          BY <1>1, <2>1, <2>2, <4>4 DEF JobsInv, Stamped
        <5>2. jobs'[i] = jobs[i]
          BY <4>1, <4>4, <5>1 DEF JobsAfter, Stamped
        <5> QED BY <2>1, <4>2, <5>2, LenProperties
      <4> QED BY <4>3, <4>4
    <3> QED BY <3>1, <3>2
  <2> QED BY <1>4, <2>3 DEF Due
<1> QED BY <1>3, <1>4 DEF Due

\* A job that made reports makes all spreadsheets due, or cannot say so.
LEMMA MakingMoves ==
    ASSUME Core, NEW w \in Workers, Moves(w), NEW a \in Accounts, Making(a)
    PROVE  \/ Making(a)' \/ Missed(a)
           \/ worker[w].pc = "complete" /\ \A s \in Dates(a, "sheet") : Due(a, s)'
<1> DEFINE x == worker[w]
           y == worker'[w]
<1>1. TypeOK /\ ShapeInv /\ JobsInv /\ Clocked
  BY DEF Core
<1>2. \A v \in Workers \ {w} : worker'[v] = worker[v]
  BY <1>1, Others
<1>3. PICK v \in Workers : worker[v].account = a /\ worker[v].created
  BY DEF Making
<1>4. CASE v # w
  BY <1>2, <1>3, <1>4 DEF Making
<1>5. CASE v = w
  <2>1. x.account = a /\ x.created /\ Goes(w) /\ JobsMove(w) /\ Shape(x) /\ x # Idle
    BY <1>1, <1>3, <1>5, AtWork DEF Moves, Goes
  <2>2. x.task = "process" /\ x.pc \in {"daily", "bills", "plan", "complete"} \cup Working /\ x.job # 0
    BY <2>1 DEF Shape, Owing, Working
  <2>3. CASE JobStays(x, y)
    <3>1. CASE y.created
      <4>1. y # Idle
        BY <3>1 DEF Idle
      <4> QED BY <2>1, <3>1, <4>1 DEF Goes, Making
    <3>2. CASE "unrecorded" \in spoilt'[a]
      BY <3>2 DEF Missed, Misses
    <3> QED BY <2>1, <2>3, <3>1, <3>2 DEF JobStays
  <2>4. CASE JobEnds(x, y)
    <3>1. x.pc = "complete" /\ y = Idle /\ (now \notin Dates(a, "sheet") \/ "second" \in spoilt'[a])
      BY <2>1, <2>4 DEF JobEnds
    <3>2. CASE "second" \in spoilt'[a]
      BY <3>2 DEF Missed, Misses
    <3>3. CASE now \notin Dates(a, "sheet")
      <4>1. JobsAfter(x, y)
        BY <1>1, JobsMoved DEF Moves
      <4>2. x.job \in 1 .. Len(jobs) /\ jobs[x.job].account = a /\ jobs[x.job].kind = "process"
        <5>1. x.job \in 0 .. MaxStarts /\ x.job <= Len(jobs) /\ Len(jobs) \in Nat
          BY <1>1 DEF TypeOK, WorkerState
        <5>2. jobs[x.job].account = a /\ jobs[x.job].kind = "process"
          BY <1>1, <2>1, <2>2 DEF JobsInv
        <5> QED BY <2>2, <5>1, <5>2
      <4> DEFINE j == jobs'[x.job]
      <4>3. j.account = a /\ j.kind = "process"
        BY <4>1, <4>2 DEF JobsAfter
      <4>4. jobs' = [jobs EXCEPT ![x.job] = Completed(x, @)] /\ jobs \in Seq(Job) /\ jobs[x.job] \in Job /\ x \in WorkerState
        BY <1>1, <2>4, <4>2, ElementOfSeq DEF JobEnds, TypeOK
      <4>5. j = Completed(x, jobs[x.job]) /\ x.job \in DOMAIN jobs'
        BY <4>2, <4>4
      <4>6. j.completed = now /\ j.monthly
        BY <1>1, <2>1, <4>4, <4>5, JobTyped
      <4>7. ASSUME NEW s \in Dates(a, "sheet")
            PROVE  Due(a, s)'
        <5>1. s \in Nat /\ s <= now /\ s # now /\ now \in Nat
          BY <1>1, <3>3, DatesNow, Constants DEF Columns, TypeOK, Times
        <5>2. s < j.completed
          BY <4>6, <5>1
        <5> QED BY <4>3, <4>5, <4>6, <5>2 DEF Due
      <4> QED BY <3>1, <4>7
    <3> QED BY <3>1, <3>2, <3>3
  <2>5. ~JobBegins(x, y) /\ ~JobStamped(x, y)
    BY <2>2 DEF JobBegins, JobStamped, Working
  <2> QED BY <2>1, <2>3, <2>4, <2>5 DEF JobsMove
<1> QED BY <1>4, <1>5

\* Reports of an account are written by its job, which is then making them.
LEMMA MonthlyMoved ==
    ASSUME TypeOK, ShapeInv, NEW w \in Workers, Moves(w), NEW a \in Accounts
    PROVE  \/ MonthlyOf({a})' = MonthlyOf({a})
           \/ worker[w].task = "process" /\ worker[w].account = a /\ Making(a)'
<1> DEFINE x == worker[w]
           y == worker'[w]
<1>1. ReportsMove(w) /\ Goes(w) /\ Shape(x) /\ x # Idle
  BY AtWork DEF Moves, Goes
<1>2. CASE UNCHANGED esVars
  BY <1>2 DEF esVars, MonthlyOf
<1>3. CASE ReportsWritten(x, y)
  <2>1. x.task = "process" /\ x.seen \subseteq Service(x.account, x.svc)
    BY <1>1, <1>3 DEF ReportsWritten, Shape, Working
  <2>2. y # Idle /\ y.account = x.account /\ y.created
    <3>1. y.created
      BY <1>3 DEF ReportsWritten
    <3> QED BY <1>1, <3>1 DEF Goes, Idle
  <2>3. CASE x.account = a
    BY <2>1, <2>2, <2>3 DEF Making
  <2>4. CASE x.account # a
    <3>1. x.seen \cap ({a} \X Resources) = {}
      BY <2>1, <2>4 DEF Service, LinesOf
    <3>2. \E ls \in SUBSET x.seen : monthly' = monthly \cup ls
      BY <1>3 DEF ReportsWritten
    <3>3. monthly' \cap ({a} \X Resources) = monthly \cap ({a} \X Resources)
      BY <3>1, <3>2
    <3> QED BY <3>3 DEF MonthlyOf
  <2> QED BY <2>3, <2>4
<1> QED BY <1>1, <1>2, <1>3 DEF ReportsMove

\* Two tasks that work on an account have met.
LEMMA HaveMet ==
    ASSUME Overlap, NEW v \in Workers, NEW w \in Workers, v # w, worker[v].task # "idle", worker[w].task # "idle",
           NEW a \in WorksOn(worker[v].task, worker[v].account), a \in WorksOn(worker[w].task, worker[w].account)
    PROVE  {worker[v].task, worker[w].task} \in met[a] /\ {worker[w].task, worker[v].task} \in met[a]
BY DEF Overlap

\* Excuses remain.
LEMMA Excuses ==
    ASSUME TypeOK, NEW w \in Workers, Moves(w) \/ Begun(w), NEW a \in Accounts
    PROVE  met[a] \subseteq met'[a] /\ spoilt[a] \subseteq spoilt'[a]
<1>1. CASE Moves(w)
  BY <1>1 DEF Moves, Goes
<1>2. CASE Begun(w)
  BY <1>2 DEF Begun, Meet
<1> QED BY <1>1, <1>2

LEMMA SheetMovesStep ==
    ASSUME Core, SheetInv, NEW w \in Workers, Moves(w)
    PROVE  SheetInv'
<1> DEFINE x == worker[w]
           y == worker'[w]
<1>1. TypeOK /\ ShapeInv /\ Overlap /\ Clocked
  BY DEF Core
<1>2. /\ Goes(w) /\ FilesMove(w) /\ x.account \in Accounts /\ Shape(x) /\ x # Idle /\ UNCHANGED <<monthStart, now, met>>
      /\ y = Idle \/ (y.account = x.account /\ y.task = x.task)
      /\ x.task # "idle"
  BY <1>1, AtWork DEF Moves, Goes, Tasks
<1>3. \A v \in Workers \ {w} : worker'[v] = worker[v]
  BY <1>1, Others
<1>4. Idle.task = "idle"
  BY DEF Idle
<1>5. ASSUME NEW a \in Accounts, ~SheetExcused(a)'
      PROVE  SheetDated(a)' /\ SheetHeld(a)'
  <2>1. SheetDated(a) /\ SheetHeld(a) /\ ~SheetExcused(a)
    BY <1>1, <1>5, Excuses DEF SheetInv, SheetExcused
  <2>2. ~Missed(a) /\ {"process", "sheet"} \notin met[a]
    BY <1>2, <1>5 DEF SheetExcused, Missed
  <2>3. MonthlyOf({a})' = MonthlyOf({a}) \/ (x.task = "process" /\ x.account = a /\ Making(a)')
    BY <1>1, MonthlyMoved
  <2>4. ASSUME NEW v \in Workers, worker[v].task = "sheet", worker[v].account = a
        PROVE  MonthlyOf({a})' = MonthlyOf({a})
    <3>1. CASE x.task = "process" /\ x.account = a
      <4>1. v # w
        BY <2>4, <3>1
      <4>2. a \in WorksOn(x.task, x.account) /\ a \in WorksOn(worker[v].task, worker[v].account)
        BY <2>4, <3>1 DEF WorksOn
      <4>3. {"process", "sheet"} \in met[a]
        BY <1>1, <1>2, <2>4, <3>1, <4>1, <4>2, HaveMet
      <4> QED BY <2>2, <4>3
    <3> QED BY <2>3, <3>1
  \* A spreadsheet of the account that is replaced has its reports.
  <2>5. file'[a] = file[a] \/ (FileUploaded(x, y) /\ x.task = "sheet" /\ x.account = a /\ file'[a] = x.seen)
    BY <1>1, <1>2 DEF FilesMove, FileUploaded, files, TypeOK
  <2>6. file'[a] # file[a] => MonthlyOf({a})' = MonthlyOf({a}) /\ MonthlyOf({a}) \subseteq file'[a]
    <3>1. FileUploaded(x, y) => x.pc = "upload"
      BY DEF FileUploaded
    <3> QED BY <2>1, <2>4, <2>5, <3>1 DEF SheetHeld
  <2>7. SheetDated(a)'
    <3>1. ASSUME NEW s \in Dates(a, "sheet")'
          PROVE  Due(a, s)' \/ Making(a)' \/ MonthlyOf({a})' \subseteq file'[a]
      <4>1. CASE s \in Dates(a, "sheet")
        <5>1. s \in Nat /\ s <= now
          BY <1>1, <4>1, DatesNow DEF Columns
        <5>2. CASE Due(a, s)
          BY <5>1, <5>2, DueStays
        <5>3. CASE Making(a)
          BY <2>2, <4>1, <5>3, MakingMoves
        <5>4. CASE MonthlyOf({a}) \subseteq file[a]
          BY <2>3, <2>6, <5>4
        <5> QED BY <2>1, <4>1, <5>2, <5>3, <5>4 DEF SheetDated
      <4>2. CASE RowWritten(x, y) /\ x.account = a /\ x.task = "sheet" /\ s = x.date
        <5>1. MonthlyOf({a}) \subseteq file[a]
          BY <2>1, <4>2 DEF SheetHeld, RowWritten
        <5> QED BY <2>4, <2>6, <4>2, <5>1
      <4> QED BY <1>1, <4>1, <4>2, DatesMoved
    <3> QED BY <3>1 DEF SheetDated
  <2>8. ASSUME NEW v \in Workers, worker'[v].task = "sheet", worker'[v].account = a
        PROVE  /\ worker'[v].pc = "upload" =>
                    /\ MonthlyOf({a}) \subseteq worker'[v].seen
                    /\ worker'[v].month = monthStart \/ MonthlyOf({a}) = {}
               /\ worker'[v].pc \in {"stamp", "read", "write"} => MonthlyOf({a}) \subseteq file'[a]
               /\ MonthlyOf({a})' = MonthlyOf({a})
    <3>1. worker[v].task = "sheet" /\ worker[v].account = a
      BY <1>2, <1>3, <1>4, <2>8
    <3>2. MonthlyOf({a})' = MonthlyOf({a})
      BY <2>4, <3>1
    <3>3. MonthlyOf({a}) \subseteq file[a] => MonthlyOf({a}) \subseteq file'[a]
      BY <2>6
    <3>4. CASE v # w
      BY <1>3, <2>1, <3>1, <3>2, <3>3, <3>4 DEF SheetHeld
    <3>5. CASE v = w
      <4>1. SheetMoves(x, y)
        BY <1>2 DEF FilesMove
      <4>2. CASE y.pc = "upload"
        <5>1. y.month = monthStart /\ y.seen = monthly \cap (WorksOn("sheet", a) \X Resources)
          BY <2>2, <3>1, <3>5, <4>1, <4>2 DEF SheetMoves
        <5> QED BY <3>2, <3>5, <4>2, <5>1 DEF WorksOn, MonthlyOf
      <4>3. CASE y.pc = "stamp"
        <5>1. x.pc = "upload" /\ y # Idle
          BY <1>2, <1>4, <2>8, <3>5, <4>1, <4>3 DEF SheetMoves
        <5>2. CASE FileUploaded(x, y)
          <6>1. file'[a] = x.seen
            BY <1>1, <3>1, <3>5, <5>2 DEF FileUploaded, TypeOK
          <6> QED BY <2>1, <3>1, <3>2, <3>5, <4>3, <5>1, <6>1 DEF SheetHeld
        <5>3. CASE UNCHANGED files /\ x.month # monthStart
          BY <2>1, <3>1, <3>2, <3>5, <4>3, <5>1, <5>3 DEF SheetHeld
        <5> QED BY <1>2, <2>2, <3>1, <3>5, <5>1, <5>2, <5>3 DEF FilesMove
      <4>4. CASE y.pc \in Stamped
        <5>1. x.pc \in {"stamp", "read", "write"}
          BY <3>1, <3>5, <4>1, <4>4 DEF SheetMoves, Stamped
        <5> QED BY <2>1, <3>1, <3>2, <3>3, <3>5, <4>4, <5>1 DEF SheetHeld, Stamped
      <4> QED BY <3>2, <3>5, <4>2, <4>3, <4>4 DEF Stamped
    <3> QED BY <3>4, <3>5
  <2>9. SheetHeld(a)'
    BY <1>2, <2>8 DEF SheetHeld
  <2> QED BY <2>7, <2>9
<1> QED BY <1>5 DEF SheetInv

\* Steps of no task, but for a new month.
LEMMA OtherStays ==
    ASSUME Core, \/ UNCHANGED vars \/ Ingests \/ Fails
                 \/ Tick /\ UNCHANGED <<monthStart, billVars, esVars, files>>
    PROVE  /\ UNCHANGED <<monthStart, monthly, jobs, worker, file, masterFile, spoilt>>
           /\ \A a \in Accounts : met[a] \subseteq met'[a]
           /\ \A a \in Accounts, c \in {"sheet", "master"} : Dates(a, c)' = Dates(a, c)
<1>1. TypeOK
  BY DEF Core
<1>2. /\ UNCHANGED <<monthStart, monthly, jobs, worker, file, masterFile, spoilt>>
      /\ \A a \in Accounts : met[a] \subseteq met'[a]
  <2>1. CASE UNCHANGED vars
    BY <2>1 DEF vars, esVars, files, history
  <2>2. CASE Ingests
    BY <1>1, <2>2, IngestsAre DEF esVars, files, history
  <2>3. CASE Fails
    BY <1>1, <2>3, FailsLeave
  <2>4. CASE Tick /\ UNCHANGED <<monthStart, billVars, esVars, files>>
    BY <1>1, <2>4, TickIs DEF esVars, files, history
  <2> QED BY <2>1, <2>2, <2>3, <2>4
<1>3. ASSUME NEW a \in Accounts, NEW c \in {"sheet", "master"}
      PROVE  Dates(a, c)' = Dates(a, c)
  BY <1>1, DatesOther
<1> QED BY <1>2, <1>3

\* A new month makes every spreadsheet due.
LEMMA NewMonth ==
    ASSUME Core, Tick, monthStart' = now'
    PROVE  /\ \A a \in Accounts, c \in {"sheet", "master"} : \A s \in Dates(a, c)' : s \in Nat /\ s < monthStart'
           /\ UNCHANGED <<worker, jobs>>
           /\ \A a \in Accounts, c \in {"sheet", "master"} : Dates(a, c)' = Dates(a, c)
<1>1. TypeOK /\ Clocked /\ now \in Nat
  BY Constants DEF Core, TypeOK, Times
<1>2. now' = now + 1 /\ UNCHANGED <<worker, jobs>>
  BY <1>1, TickIs
<1>3. ASSUME NEW a \in Accounts, NEW c \in {"sheet", "master"}
      PROVE  Dates(a, c)' = Dates(a, c) /\ \A s \in Dates(a, c) : s \in Nat /\ s <= now
  <2>1. Dates(a, c)' = Dates(a, c)
    BY <1>1, DatesOther
  <2>2. c \in Columns
    BY DEF Columns
  <2>3. ASSUME NEW s \in Dates(a, c)
        PROVE  s \in Nat /\ s <= now
    BY <1>1, <2>2, DatesNow
  <2> QED BY <2>1, <2>3
<1> QED BY <1>1, <1>2, <1>3

LEMMA SheetStep ==
    ASSUME Core, SheetInv, [Next]_vars
    PROVE  SheetInv'
<1>1. TypeOK
  BY DEF Core
<1>2. CASE \/ UNCHANGED vars \/ Ingests \/ Fails
           \/ Tick /\ UNCHANGED <<monthStart, billVars, esVars, files>>
  <2>1. /\ UNCHANGED <<monthStart, monthly, jobs, worker, file, masterFile, spoilt>>
        /\ \A a \in Accounts : met[a] \subseteq met'[a]
        /\ \A a \in Accounts, c \in {"sheet", "master"} : Dates(a, c)' = Dates(a, c)
    BY <1>2, OtherStays
  <2>2. ASSUME NEW a \in Accounts, ~SheetExcused(a)'
        PROVE  SheetDated(a)' /\ SheetHeld(a)'
    <3>1. SheetDated(a) /\ SheetHeld(a)
      BY <2>1, <2>2 DEF SheetInv, SheetExcused
    <3> QED BY <2>1, <3>1 DEF SheetDated, SheetHeld, Due, Making, MonthlyOf
  <2> QED BY <2>2 DEF SheetInv
<1>3. CASE Tick /\ monthStart' = now' /\ monthly' = {}
  <2>1. \A a \in Accounts : MonthlyOf({a})' = {}
    BY <1>3 DEF MonthlyOf
  <2>2. \A a \in Accounts : SheetDated(a)'
    BY <2>1 DEF SheetDated
  <2>3. \A a \in Accounts : SheetHeld(a)'
    BY <2>1 DEF SheetHeld
  <2> QED BY <2>2, <2>3 DEF SheetInv
<1>4. ASSUME NEW w \in Workers, Begun(w)
      PROVE  SheetInv'
  <2>1. \A v \in Workers \ {w} : worker'[v] = worker[v]
    BY <1>1, <1>4, Others
  <2>2. /\ UNCHANGED <<monthStart, monthly, file, spoilt>> /\ worker[w] = Idle
        /\ worker'[w].pc \notin {"upload", "stamp", "read", "write"}
    BY <1>4 DEF Begun, esVars, files
  <2>3. 0 < monthStart
    BY <1>1 DEF TypeOK
  <2>4. ASSUME NEW a \in Accounts, ~SheetExcused(a)'
        PROVE  SheetDated(a)' /\ SheetHeld(a)'
    <3>1. SheetDated(a) /\ SheetHeld(a)
      BY <1>1, <1>4, <2>4, Excuses DEF SheetInv, SheetExcused
    <3>2. ASSUME NEW s \in Dates(a, "sheet")'
          PROVE  Due(a, s)' \/ Making(a)' \/ MonthlyOf({a})' \subseteq file'[a]
      <4>1. CASE s = 0
        BY <2>2, <2>3, <4>1 DEF Due
      <4>2. CASE s \in Dates(a, "sheet")
        <5>1. s \in Nat
          BY <1>1, <4>2, DatesNow DEF Core, Columns
        <5>2. CASE Due(a, s)
          BY <1>4, <5>1, <5>2, DueStays
        <5>3. CASE Making(a)
          BY <2>1, <2>2, <5>3 DEF Making, Idle
        <5>4. CASE MonthlyOf({a}) \subseteq file[a]
          BY <2>2, <5>4 DEF MonthlyOf
        <5> QED BY <3>1, <4>2, <5>2, <5>3, <5>4 DEF SheetDated
      <4> QED BY <1>1, <1>4, <4>1, <4>2, DatesBegun DEF Columns
    <3>3. SheetHeld(a)'
      BY <2>1, <2>2, <3>1 DEF SheetHeld, MonthlyOf
    <3> QED BY <3>2, <3>3 DEF SheetDated
  <2> QED BY <2>4 DEF SheetInv
<1>5. ASSUME NEW w \in Workers, Moves(w)
      PROVE  SheetInv'
  BY <1>5, SheetMovesStep
<1> QED BY <1>1, <1>2, <1>3, <1>4, <1>5, Steps, TickIs

-----------------------------------------------------------------------------
(* The master spreadsheet *)

LEMMA MasterMovesStep ==
    ASSUME Core, MasterInv, NEW w \in Workers, Moves(w)
    PROVE  MasterInv'
<1> DEFINE x == worker[w]
           y == worker'[w]
<1>1. TypeOK /\ ShapeInv /\ Overlap /\ Clocked
  BY DEF Core
<1>2. /\ Goes(w) /\ FilesMove(w) /\ x.account \in Accounts /\ Shape(x) /\ x # Idle /\ UNCHANGED <<monthStart, now, met>>
      /\ y = Idle \/ (y.account = x.account /\ y.task = x.task)
      /\ x.task # "idle"
  BY <1>1, AtWork DEF Moves, Goes, Tasks
<1>3. \A v \in Workers \ {w} : worker'[v] = worker[v]
  BY <1>1, Others
<1>4. Idle.task = "idle"
  BY DEF Idle
<1>5. ASSUME NEW m \in Masters, ~MasterExcused(m)', NEW a \in AccountsOf(m)
      PROVE  MasterDated(m, a)' /\ MasterLater(m, a)' /\ MasterHeld(m, a)'
  <2>1. m \in Accounts /\ a \in Accounts /\ m \in AccountsOf(m)
    BY DEF Masters, AccountsOf
  <2>2. ~MasterExcused(m)
    <3>1. \A b \in AccountsOf(m) : met[b] \subseteq met'[b] /\ spoilt[b] \subseteq spoilt'[b]
      BY <1>1, Excuses DEF AccountsOf
    <3> QED BY <1>5, <3>1 DEF MasterExcused
  <2>3. MasterDated(m, a) /\ MasterLater(m, a) /\ MasterHeld(m, a)
    BY <2>2 DEF MasterInv
  <2>4. ~Missed(a) /\ ~Missed(m) /\ {"sheet", "master"} \notin met[a] /\ spoilt'[a] \cap Misses = {}
    BY <1>2, <1>5, <2>1 DEF MasterExcused, Missed
  <2>5. MonthlyOf({a})' = MonthlyOf({a}) \/ Making(a)'
    BY <1>1, <2>1, MonthlyMoved
  \* The spreadsheet of the account and the master spreadsheet do not overlap.
  <2>6. ASSUME NEW u \in Workers, NEW v \in Workers, worker[u].task = "sheet", worker[u].account = a,
               worker[v].task = "master", worker[v].account = m
        PROVE  FALSE
    <3>1. u # v
      BY <2>6
    <3>2. a \in WorksOn(worker[u].task, worker[u].account) /\ a \in WorksOn(worker[v].task, worker[v].account)
      BY <2>6 DEF WorksOn
    <3>3. {"sheet", "master"} \in met[a]
      BY <1>1, <2>6, <3>1, <3>2, HaveMet
    <3> QED BY <2>4, <3>3
  \* What excuses the master spreadsheet from the reports of the account.
  <2> DEFINE Yet(s) == Due(a, s) \/ Making(a)
  <2>7. ASSUME NEW s \in Dates(a, "sheet"), Yet(s)
        PROVE  Due(a, s)' \/ Making(a)'
    <3>1. s \in Nat
      BY <1>1, <2>1, <2>7, DatesNow DEF Columns
    <3>2. CASE Due(a, s)
      BY <2>1, <3>1, <3>2, DueStays
    <3>3. CASE Making(a)
      BY <2>1, <2>4, <2>7, <3>3, MakingMoves
    <3> QED BY <2>7, <3>2, <3>3
  <2>8. ASSUME NEW s \in Dates(a, "sheet")'
        PROVE  s \in Dates(a, "sheet") \/ (x.task = "sheet" /\ x.account = a /\ RowWritten(x, y) /\ s = x.date)
    BY <1>1, <2>1, <2>8, DatesMoved
  <2>9. ASSUME NEW t \in Dates(m, "master")'
        PROVE  t \in Dates(m, "master") \/ (x.task = "master" /\ x.account = m /\ RowWritten(x, y) /\ t = x.date)
    BY <1>1, <2>1, <2>9, DatesMoved
  <2>10. \/ masterFile'[m] = masterFile[m]
         \/ x.pc = "upload" /\ x.task = "master" /\ x.account = m /\ masterFile'[m] = x.seen
    BY <1>1, <1>2, <2>1 DEF FilesMove, FileUploaded, files, TypeOK
  \* A new file has the reports of all accounts that are not due.
  <2>11. ASSUME NEW s \in Dates(a, "sheet"), MonthlyOf({a}) \subseteq masterFile[m]
         PROVE  Due(a, s)' \/ Making(a)' \/ MonthlyOf({a})' \subseteq masterFile'[m]
    <3>1. CASE masterFile'[m] = masterFile[m]
      BY <2>5, <2>11, <3>1
    <3>2. CASE x.pc = "upload" /\ x.task = "master" /\ x.account = m /\ masterFile'[m] = x.seen
      <4>1. Yet(s) \/ MonthlyOf({a}) \subseteq x.seen
        BY <2>3, <3>2 DEF MasterHeld
      <4> QED BY <2>5, <2>7, <3>2, <4>1
    <3> QED BY <2>10, <3>1, <3>2
  <2>12. MasterDated(m, a)'
    <3>1. ASSUME NEW s \in Dates(a, "sheet")', NEW t \in Dates(m, "master")'
          PROVE  t < monthStart \/ t < s \/ Due(a, s)' \/ Making(a)' \/ MonthlyOf({a})' \subseteq masterFile'[m]
      <4>1. CASE s \in Dates(a, "sheet") /\ t \in Dates(m, "master")
        <5>1. t < monthStart \/ t < s \/ Yet(s) \/ MonthlyOf({a}) \subseteq masterFile[m]
          BY <2>3, <4>1 DEF MasterDated
        <5> QED BY <2>7, <2>11, <4>1, <5>1
      <4>2. CASE x.task = "sheet" /\ x.account = a /\ RowWritten(x, y) /\ s = x.date
        <5>1. t \in Dates(m, "master")
          BY <2>9, <4>2
        <5>2. t <= x.date
          BY <2>3, <4>2, <5>1 DEF MasterLater, RowWritten
        <5>3. x.date \notin Dates(m, "master")
          <6>1. x.date \in Dates(m, "master") => "second" \in spoilt'[a]
            BY <4>2 DEF RowWritten
          <6> QED BY <2>4, <6>1 DEF Misses
        <5>4. t \in Nat /\ x.date \in Nat
          BY <1>1, <2>1, <5>1, DatesNow, Constants, SMTT(60) DEF Columns, TypeOK, WorkerState, Times
        <5> QED BY <4>2, <5>1, <5>2, <5>3, <5>4
      <4>3. CASE /\ s \in Dates(a, "sheet")
                 /\ x.task = "master" /\ x.account = m /\ RowWritten(x, y) /\ t = x.date
        <5>1. Yet(s) \/ MonthlyOf({a}) \subseteq masterFile[m]
          BY <2>3, <4>3 DEF MasterHeld, RowWritten
        <5> QED BY <2>7, <2>11, <4>3, <5>1
      <4> QED BY <2>8, <2>9, <4>1, <4>2, <4>3
    <3> QED BY <1>2, <3>1 DEF MasterDated
  <2>13. MasterLater(m, a)'
    <3>1. ASSUME NEW v \in Workers, worker'[v].task = "sheet", worker'[v].account = a, worker'[v].pc \in Stamped,
                 NEW t \in Dates(m, "master")'
          PROVE  t <= worker'[v].date
      <4>1. worker[v].task = "sheet" /\ worker[v].account = a
        BY <1>2, <1>3, <1>4, <3>1
      <4>2. t \in Dates(m, "master")
        BY <2>6, <2>9, <4>1
      <4>3. t <= now
        BY <1>1, <2>1, <4>2, DatesNow DEF Columns
      <4>4. CASE v # w
        BY <1>3, <2>3, <3>1, <4>1, <4>2, <4>4 DEF MasterLater, Stamped
      <4>5. CASE v = w
        <5>1. (x.pc \in Stamped /\ y.date = x.date) \/ y.date = now
          BY <1>2, <3>1, <4>1, <4>5 DEF FilesMove, SheetMoves
        <5> QED BY <2>3, <4>1, <4>2, <4>3, <4>5, <5>1 DEF MasterLater, Stamped
      <4> QED BY <4>4, <4>5
    <3> QED BY <3>1 DEF MasterLater, Stamped
  <2>14. ASSUME NEW v \in Workers, worker'[v].task = "master", worker'[v].account = m, NEW s \in Dates(a, "sheet")'
         PROVE  /\ worker'[v].pc = "upload" =>
                    \/ Due(a, s)' \/ Making(a)'
                    \/ worker'[v].month = monthStart /\ MonthlyOf({a})' \subseteq worker'[v].seen
                /\ worker'[v].pc \in {"stamp", "read", "write"} =>
                    Due(a, s)' \/ Making(a)' \/ MonthlyOf({a})' \subseteq masterFile'[m]
    <3>1. worker[v].task = "master" /\ worker[v].account = m
      BY <1>2, <1>3, <1>4, <2>14
    <3>2. s \in Dates(a, "sheet")
      BY <2>6, <2>8, <3>1
    <3>3. /\ worker[v].pc = "upload" => Yet(s) \/ (worker[v].month = monthStart /\ MonthlyOf({a}) \subseteq worker[v].seen)
          /\ worker[v].pc \in {"stamp", "read", "write"} => Yet(s) \/ MonthlyOf({a}) \subseteq masterFile[m]
      BY <2>3, <3>1, <3>2 DEF MasterHeld
    <3>4. CASE Due(a, s)' \/ Making(a)'
      BY <3>4
    <3>5. CASE ~Yet(s) /\ ~Making(a)'
      <4>1. MonthlyOf({a})' = MonthlyOf({a})
        BY <2>5, <3>5
      <4>2. CASE v # w
        BY <1>3, <2>11, <3>2, <3>3, <3>5, <4>1, <4>2
      <4>3. CASE v = w
        <5>1. SheetMoves(x, y)
          BY <1>2 DEF FilesMove
        <5>2. CASE y.pc = "upload"
          <6>1. y.month = monthStart /\ y.seen = monthly \cap (AccountsOf(m) \X Resources)
            BY <2>4, <3>1, <4>3, <5>1, <5>2 DEF SheetMoves, WorksOn
          <6> QED BY <4>1, <4>3, <5>2, <6>1 DEF MonthlyOf
        <5>3. CASE y.pc = "stamp"
          <6>1. x.pc = "upload" /\ y # Idle
            BY <1>4, <2>14, <4>3, <5>1, <5>3 DEF SheetMoves
          <6>2. x.month = monthStart /\ MonthlyOf({a}) \subseteq x.seen
            BY <3>3, <3>5, <4>3, <6>1
          <6>3. FileUploaded(x, y)
            BY <1>2, <2>4, <3>1, <4>3, <6>1, <6>2 DEF FilesMove
          <6>4. masterFile'[m] = x.seen
            BY <1>1, <2>1, <3>1, <4>3, <6>3 DEF FileUploaded, TypeOK
          <6> QED BY <4>1, <4>3, <5>3, <6>2, <6>4
        <5>4. CASE y.pc \in Stamped
          <6>1. x.pc \in {"stamp", "read", "write"}
            BY <3>1, <4>3, <5>1, <5>4 DEF SheetMoves, Stamped
          <6> QED BY <2>11, <3>2, <3>3, <3>5, <4>3, <5>4, <6>1 DEF Stamped
        <5> QED BY <4>3, <5>2, <5>3, <5>4 DEF Stamped
      <4> QED BY <4>2, <4>3
    <3>6. Yet(s) => Due(a, s)' \/ Making(a)'
      BY <2>7, <3>2
    <3> QED BY <3>4, <3>5, <3>6
  <2>15. MasterHeld(m, a)'
    BY <1>2, <2>14 DEF MasterHeld
  <2> QED BY <2>12, <2>13, <2>15
<1> QED BY <1>5 DEF MasterInv, AccountsOf

LEMMA MasterStep ==
    ASSUME Core, MasterInv, [Next]_vars
    PROVE  MasterInv'
<1>1. TypeOK /\ Clocked
  BY DEF Core
<1>2. CASE \/ UNCHANGED vars \/ Ingests \/ Fails
           \/ Tick /\ UNCHANGED <<monthStart, billVars, esVars, files>>
  <2>1. /\ UNCHANGED <<monthStart, monthly, jobs, worker, file, masterFile, spoilt>>
        /\ \A a \in Accounts : met[a] \subseteq met'[a]
        /\ \A a \in Accounts, c \in {"sheet", "master"} : Dates(a, c)' = Dates(a, c)
    BY <1>2, OtherStays
  <2>2. ASSUME NEW m \in Masters, ~MasterExcused(m)', NEW a \in AccountsOf(m)
        PROVE  MasterDated(m, a)' /\ MasterLater(m, a)' /\ MasterHeld(m, a)'
    <3>1. ~MasterExcused(m)
      BY <2>1, <2>2 DEF MasterExcused, AccountsOf
    <3>2. MasterDated(m, a) /\ MasterLater(m, a) /\ MasterHeld(m, a)
      BY <3>1 DEF MasterInv
    <3>3. Dates(a, "sheet")' = Dates(a, "sheet") /\ Dates(m, "master")' = Dates(m, "master")
      BY <2>1 DEF Masters, AccountsOf
    <3>4. /\ MonthlyOf({a})' = MonthlyOf({a}) /\ (Making(a)' <=> Making(a))
          /\ \A s : Due(a, s)' <=> Due(a, s)
      BY <2>1 DEF MonthlyOf, Making, Due
    <3>5. MasterDated(m, a)'
      BY <2>1, <3>2, <3>3, <3>4 DEF MasterDated
    <3>6. MasterLater(m, a)'
      BY <2>1, <3>2, <3>3 DEF MasterLater
    <3>7. MasterHeld(m, a)'
      BY <2>1, <3>2, <3>3, <3>4 DEF MasterHeld
    <3> QED BY <3>5, <3>6, <3>7
  <2> QED BY <2>2 DEF MasterInv, AccountsOf
<1>3. CASE Tick /\ monthStart' = now'
  <2>1. /\ \A a \in Accounts, c \in {"sheet", "master"} : \A s \in Dates(a, c)' : s \in Nat /\ s < monthStart'
        /\ worker' = worker
        /\ \A a \in Accounts, c \in {"sheet", "master"} : Dates(a, c)' = Dates(a, c)
    BY <1>3, NewMonth
  <2>2. UNCHANGED <<met, spoilt>>
    BY <1>1, <1>3, TickIs DEF history
  <2>3. ASSUME NEW m \in Masters, ~MasterExcused(m)', NEW a \in AccountsOf(m)
        PROVE  MasterDated(m, a)' /\ MasterLater(m, a)' /\ MasterHeld(m, a)'
    <3>1. MasterLater(m, a)
      BY <2>2, <2>3 DEF MasterInv, MasterExcused
    <3>2. m \in Accounts /\ a \in Accounts
      BY DEF Masters, AccountsOf
    <3>3. \A s \in Dates(a, "sheet")' : Due(a, s)'
      BY <2>1, <3>2 DEF Due
    <3>4. MasterDated(m, a)' /\ MasterHeld(m, a)'
      BY <3>3 DEF MasterDated, MasterHeld
    <3>5. MasterLater(m, a)'
      BY <2>1, <3>1, <3>2 DEF MasterLater
    <3> QED BY <3>4, <3>5
  <2> QED BY <2>3 DEF MasterInv, AccountsOf
<1>4. ASSUME NEW w \in Workers, Begun(w)
      PROVE  MasterInv'
  <2>1. \A v \in Workers \ {w} : worker'[v] = worker[v]
    BY <1>1, <1>4, Others
  <2>2. /\ UNCHANGED <<monthStart, monthly, masterFile>> /\ worker[w] = Idle
        /\ worker'[w].pc \notin {"upload", "stamp", "read", "write"}
    BY <1>4 DEF Begun, esVars, files
  <2>3. 0 < monthStart
    BY <1>1 DEF TypeOK
  <2>4. ASSUME NEW m \in Masters, ~MasterExcused(m)', NEW a \in AccountsOf(m)
        PROVE  MasterDated(m, a)' /\ MasterLater(m, a)' /\ MasterHeld(m, a)'
    <3>1. m \in Accounts /\ a \in Accounts
      BY DEF Masters, AccountsOf
    <3>2. ~MasterExcused(m)
      <4>1. \A b \in AccountsOf(m) : met[b] \subseteq met'[b] /\ spoilt[b] \subseteq spoilt'[b]
        BY <1>1, <1>4, Excuses DEF AccountsOf
      <4> QED BY <2>4, <4>1 DEF MasterExcused
    <3>3. MasterDated(m, a) /\ MasterLater(m, a) /\ MasterHeld(m, a)
      BY <3>2 DEF MasterInv
    <3>4. MonthlyOf({a})' = MonthlyOf({a}) /\ (Making(a) => Making(a)')
      BY <2>1, <2>2 DEF MonthlyOf, Making, Idle
    <3>5. ASSUME NEW s \in Dates(a, "sheet")'
          PROVE  Due(a, s)' \/ (s \in Dates(a, "sheet") /\ ~Due(a, s))
      <4>1. CASE s = 0
        BY <2>2, <2>3, <4>1 DEF Due
      <4>2. CASE s \in Dates(a, "sheet") /\ Due(a, s)
        <5>1. s \in Nat
          BY <1>1, <3>1, <4>2, DatesNow DEF Columns
        <5> QED BY <1>4, <3>1, <4>2, <5>1, DueStays
      <4> QED BY <1>1, <1>4, <3>1, <4>1, <4>2, DatesBegun DEF Columns
    <3>6. ASSUME NEW t \in Dates(m, "master")'
          PROVE  t = 0 \/ t \in Dates(m, "master")
      BY <1>1, <1>4, <3>1, DatesBegun DEF Columns
    <3>7. MasterDated(m, a)'
      <4>1. ASSUME NEW s \in Dates(a, "sheet")', NEW t \in Dates(m, "master")'
            PROVE  t < monthStart \/ t < s \/ Due(a, s)' \/ Making(a)' \/ MonthlyOf({a})' \subseteq masterFile'[m]
        BY <2>2, <2>3, <3>3, <3>4, <3>5, <3>6 DEF MasterDated
      <4> QED BY <2>2, <4>1 DEF MasterDated
    <3>8. MasterLater(m, a)'
      <4>1. ASSUME NEW v \in Workers, worker'[v].task = "sheet", worker'[v].account = a,
                   worker'[v].pc \in {"read", "write"}, NEW t \in Dates(m, "master")'
            PROVE  t <= worker'[v].date
        <5>1. worker'[v] = worker[v] /\ worker[v].date \in Nat
          BY <1>1, <2>1, <2>2, <4>1, Constants DEF TypeOK, WorkerState, Times
        <5> QED BY <3>3, <3>6, <4>1, <5>1 DEF MasterLater
      <4> QED BY <4>1 DEF MasterLater
    <3>9. MasterHeld(m, a)'
      <4>1. ASSUME NEW v \in Workers, worker'[v].task = "master", worker'[v].account = m, NEW s \in Dates(a, "sheet")'
            PROVE  /\ worker'[v].pc = "upload" =>
                        \/ Due(a, s)' \/ Making(a)'
                        \/ worker'[v].month = monthStart /\ MonthlyOf({a})' \subseteq worker'[v].seen
                   /\ worker'[v].pc \in {"stamp", "read", "write"} =>
                        Due(a, s)' \/ Making(a)' \/ MonthlyOf({a})' \subseteq masterFile'[m]
        <5>1. worker'[v].pc \in {"upload", "stamp", "read", "write"} => worker'[v] = worker[v]
          BY <2>1, <2>2
        <5> QED BY <2>2, <3>3, <3>4, <3>5, <4>1, <5>1 DEF MasterHeld
      <4> QED BY <2>2, <4>1 DEF MasterHeld
    <3> QED BY <3>7, <3>8, <3>9
  <2> QED BY <2>4 DEF MasterInv, AccountsOf
<1>5. ASSUME NEW w \in Workers, Moves(w)
      PROVE  MasterInv'
  BY <1>5, MasterMovesStep
<1> QED BY <1>1, <1>2, <1>3, <1>4, <1>5, Steps, TickIs

-----------------------------------------------------------------------------
(* Where it begins *)

LEMMA InitDates ==
    ASSUME Init
    PROVE  /\ now = 1 /\ monthStart = 1 /\ jobs = <<>> /\ monthly = {}
           /\ \A a \in Accounts, c \in Columns : row[a][c] = 0 /\ wrote[a][c] = 0
           /\ \A a \in Accounts : coverage[a] = 0
           /\ \A w \in Workers : worker[w] = Idle /\ worker[w].pc = "idle" /\ ~worker[w].created
           /\ \A a \in Accounts, c \in Columns : Dates(a, c) \subseteq {0}
<1>1. /\ now = 1 /\ monthStart = 1 /\ jobs = <<>> /\ monthly = {}
      /\ \A a \in Accounts : coverage[a] = 0
  BY DEF Init
<1>2. \A a \in Accounts, c \in Columns : row[a][c] = 0 /\ wrote[a][c] = 0
  BY DEF Init, NoRow
<1>3. \A w \in Workers : worker[w] = Idle
  BY DEF Init
<1>4. Idle.pc = "idle" /\ ~Idle.created /\ \A c \in Columns : Idle.copy[c] = 0
  BY DEF Idle, NoRow
<1>5. \A a \in Accounts, c \in Columns : Dates(a, c) \subseteq {0}
  BY <1>2, <1>3, <1>4 DEF Dates
<1> QED BY <1>1, <1>2, <1>3, <1>4, <1>5

LEMMA InitRest ==
    Init => /\ PendingHasCause /\ ColumnHasCause /\ CopyInv /\ CoverageOnce /\ CoverageInv
            /\ LacksHasCause /\ BillsInv /\ SheetInv /\ MasterInv
<1> SUFFICES ASSUME Init
             PROVE  /\ PendingHasCause /\ ColumnHasCause /\ CopyInv /\ CoverageOnce /\ CoverageInv
                    /\ LacksHasCause /\ BillsInv /\ SheetInv /\ MasterInv
  OBVIOUS
<1>1. PendingHasCause
  BY InitDates DEF PendingHasCause
<1>2. ColumnHasCause /\ CopyInv
  BY InitDates, Constants DEF ColumnHasCause, CopyInv
<1>3. CoverageOnce /\ CoverageInv /\ BillsInv
  BY InitDates DEF CoverageOnce, CoverageInv, BillsInv, Working
<1>4. LacksHasCause
  BY InitDates DEF LacksHasCause
<1>5. \A a \in Accounts : \A s \in Dates(a, "sheet") : Due(a, s)
  BY InitDates DEF Due, Columns
<1>6. \A w \in Workers : worker[w].task = "idle"
  BY InitDates DEF Idle
<1>7. SheetInv
  BY <1>5, <1>6 DEF SheetInv, SheetDated, SheetHeld
<1>8. MasterInv
  BY <1>5, <1>6 DEF MasterInv, MasterDated, MasterLater, MasterHeld, AccountsOf
<1> QED BY <1>1, <1>2, <1>3, <1>4, <1>7, <1>8

-----------------------------------------------------------------------------
(* What the invariants say of the spreadsheets *)

\* Without a job of the account at work nothing is about to make its spreadsheet due.
LEMMA NothingMade ==
    ASSUME Core, NEW a \in Accounts, NEW ks, "process" \in ks, NEW as, a \in as, ~InFlight(ks, as)
    PROVE  ~Making(a) /\ row[a]["sheet"] \in Dates(a, "sheet") /\ (Due(a, row[a]["sheet"]) <=> SheetDue(a, monthStart))
<1>1. \A w \in Workers : worker[w].created => worker[w].task = "process"
  BY DEF Core, ShapeInv, Shape, Idle
<1>2. ~Making(a)
  BY <1>1 DEF Making, InFlight, WorksOn
<1>3. row[a]["sheet"] \in Dates(a, "sheet")
  BY DEF Dates
<1>4. Due(a, row[a]["sheet"]) <=> SheetDue(a, monthStart)
  BY DEF Due, SheetDue
<1> QED BY <1>2, <1>3, <1>4

LEMMA SheetSaid == Core /\ SheetInv => SheetMissHasCause
<1> SUFFICES ASSUME Core, SheetInv, NEW a \in Accounts,
                    ~InFlight({"process", "sheet"}, {a}), ~SheetDue(a, monthStart), ~SheetExcused(a)
             PROVE  MonthlyOf({a}) \subseteq file[a]
  BY DEF SheetMissHasCause, SheetExcused, Misses
<1>1. SheetDated(a)
  BY DEF SheetInv
<1>2. /\ ~Making(a) /\ row[a]["sheet"] \in Dates(a, "sheet")
      /\ Due(a, row[a]["sheet"]) <=> SheetDue(a, monthStart)
  BY NothingMade
<1> QED BY <1>1, <1>2 DEF SheetDated

LEMMA MasterSaid == Core /\ MasterInv => MasterMissHasCause
<1> SUFFICES ASSUME Core, MasterInv, NEW m \in Masters,
                    ~InFlight({"process", "sheet", "master"}, AccountsOf(m)), ~MasterDue(m, monthStart),
                    ~MasterExcused(m)
             PROVE  MonthlyOf({a \in AccountsOf(m) : ~SheetDue(a, monthStart)}) \subseteq masterFile[m]
  BY DEF MasterMissHasCause, MasterExcused, Misses
<1> DEFINE t == row[m]["master"]
<1>1. t \in Dates(m, "master") /\ t \in Nat /\ monthStart \in Nat
  BY Constants DEF Dates, Core, TypeOK, Row, Times, Columns, Masters
<1>2. ~(t < monthStart) /\ \A a \in AccountsOf(m) : ~(t < row[a]["sheet"])
  BY DEF MasterDue
<1>3. ASSUME NEW a \in AccountsOf(m), ~SheetDue(a, monthStart)
      PROVE  MonthlyOf({a}) \subseteq masterFile[m]
  <2>1. a \in Accounts
    BY DEF AccountsOf
  <2>2. /\ ~Making(a) /\ row[a]["sheet"] \in Dates(a, "sheet")
        /\ Due(a, row[a]["sheet"]) <=> SheetDue(a, monthStart)
    BY <2>1, NothingMade
  <2>3. MasterDated(m, a)
    BY DEF MasterInv
  <2> HIDE DEF t
  <2> QED BY <1>1, <1>2, <1>3, <2>2, <2>3 DEF MasterDated
<1>4. \A l \in MonthlyOf({a \in AccountsOf(m) : ~SheetDue(a, monthStart)}) :
        \E a \in AccountsOf(m) : ~SheetDue(a, monthStart) /\ l \in MonthlyOf({a})
  BY DEF MonthlyOf
<1> QED BY <1>3, <1>4

-----------------------------------------------------------------------------
(* The theorems *)

\* Every account, job, spreadsheet and task stays as Core says: of its type, with a job
\* of its own, never dated in the future.
THEOREM CoreHolds == Spec => []Core
<1>1. Init => Core
  BY InitCore
<1>2. Core /\ [Next]_vars => Core'
  BY StepCore
<1> QED BY <1>1, <1>2, PTL DEF Spec

\* Whatever tasks overlap, fail or die, a date in the row of an account is the last one its
\* own task wrote, and a job that is not completed is being run, but for the causes that
\* the property names (models.AwsAccount.Update, the tasks' register...Completion).
THEOREM RowsHaveCauseHolds == Spec => []RowsHaveCause
<1> DEFINE Inv == Core /\ PendingHasCause /\ ColumnHasCause /\ CopyInv
<1>1. Init => Inv
  BY InitCore, InitRest
<1>2. Inv /\ [Next]_vars => Inv'
  <2> SUFFICES ASSUME Inv, [Next]_vars PROVE Inv'
    OBVIOUS
  <2> QED BY StepCore, PendingStep, ColumnStep
<1>3. Inv => RowsHaveCause
  BY DEF Core, RowsHaveCause
<1> QED BY <1>1, <1>2, <1>3, PTL DEF Spec

\* The coverage of a month is in the index once, however often process-account is run or
\* fails, unless two jobs of the account overlapped (utils.CheckMonthlyReportExists).
THEOREM CoverageOnceHolds == Spec => []CoverageOnce
<1> DEFINE Inv == Core /\ CoverageOnce /\ CoverageInv
<1>1. Init => Inv
  BY InitCore, InitRest
<1>2. Inv /\ [Next]_vars => Inv'
  <2> SUFFICES ASSUME Inv, [Next]_vars PROVE Inv'
    OBVIOUS
  <2> QED BY StepCore, CoverageStep
<1> QED BY <1>1, <1>2, PTL DEF Spec

\* The monthly report of a service is whole or absent, unless the check of the bills let
\* incomplete ones through or ElasticSearch refused documents (history.FetchHistoryInfos).
THEOREM LacksHasCauseHolds == Spec => []LacksHasCause
<1> DEFINE Inv == Core /\ LacksHasCause /\ BillsInv
<1>1. Init => Inv
  BY InitCore, InitRest
<1>2. Inv /\ [Next]_vars => Inv'
  <2> SUFFICES ASSUME Inv, [Next]_vars PROVE Inv'
    OBVIOUS
  <2> QED BY StepCore, BillsStep
<1> QED BY <1>1, <1>2, PTL DEF Spec

\* An account whose spreadsheet is not due has its monthly reports in the one uploaded,
\* but for the causes that the property names (checkReportGeneration).
THEOREM SheetMissHasCauseHolds == Spec => []SheetMissHasCause
<1> DEFINE Inv == Core /\ SheetInv
<1>1. Init => Inv
  BY InitCore, InitRest
<1>2. Inv /\ [Next]_vars => Inv'
  <2> SUFFICES ASSUME Inv, [Next]_vars PROVE Inv'
    OBVIOUS
  <2> QED BY StepCore, SheetStep
<1>3. Inv => SheetMissHasCause
  BY SheetSaid
<1> QED BY <1>1, <1>2, <1>3, PTL DEF Spec

\* A master spreadsheet that is not due has the reports of every account whose own is not
\* due, but for the causes that the property names (checkMasterReportGeneration).
THEOREM MasterMissHasCauseHolds == Spec => []MasterMissHasCause
<1> DEFINE Inv == Core /\ MasterInv
<1>1. Init => Inv
  BY InitCore, InitRest
<1>2. Inv /\ [Next]_vars => Inv'
  <2> SUFFICES ASSUME Inv, [Next]_vars PROVE Inv'
    OBVIOUS
  <2> QED BY StepCore, MasterStep
<1>3. Inv => MasterMissHasCause
  BY MasterSaid
<1> QED BY <1>1, <1>2, <1>3, PTL DEF Spec
=============================================================================
