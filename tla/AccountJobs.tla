---------------------------- MODULE AccountJobs ----------------------------
(***************************************************************************)
(* The command line tasks that work on one AWS account each, as many at a  *)
(* time as the outside scheduler starts:                                   *)
(*                                                                         *)
(*   process    server/taskProcessAccount.go: daily reports, then, once    *)
(*              the bills of last month are complete, its monthly reports  *)
(*              (aws/usageReports/history/history.go);                     *)
(*   plugins    server/taskProcessAccountPlugins.go;                       *)
(*   sheet      server/taskSpreadsheet.go: the spreadsheet of an account;  *)
(*   master     server/taskMasterSpreadsheet.go: the spreadsheet of an     *)
(*              account and its sub accounts;                              *)
(*   anomalies  server/taskAnomaliesDetection.go.                          *)
(*                                                                         *)
(* They meet in the row of the account, which holds a date for each of     *)
(* them, in its update jobs and in the reports of the ElasticSearch index. *)
(* "Last month" is the month before the one that begins at monthStart.     *)
(***************************************************************************)
EXTENDS Naturals, Sequences, FiniteSets

CONSTANTS
    Accounts,      \* rows of aws_account
    Parent,        \* the parent_id of each of them, or NoAccount
    Resources,     \* what an account pays for, one line item each
    CostServices,  \* the sequence of services whose reports start from costs
    ServiceOf,     \* the service of each resource
    Reserved,      \* the accounts for which AWS reports a reservation coverage
    Workers,       \* processes, each runs one task at a time
    Kinds,         \* the tasks the outside scheduler starts
    MonthStarts,   \* when a new month begins
    LongDays,      \* the days that the month before does not have
    MaxNow,        \* bound on the clock, which counts seconds
    MaxStarts,     \* bound on the number of tasks
    MaxFaults,     \* bound on the number of faults and crashes
    NoAccount

Tasks      == {"process", "plugins", "sheet", "master", "anomalies"}
RowWriters == {"sheet", "master", "anomalies"}

ASSUME AccountJobsAssumption ==
    /\ NoAccount \notin Accounts
    /\ Parent \in [Accounts -> Accounts \cup {NoAccount}]
    /\ CostServices \in Seq({CostServices[i] : i \in DOMAIN CostServices})
    /\ ServiceOf \in [Resources -> {CostServices[i] : i \in DOMAIN CostServices}]
    /\ Reserved \subseteq Accounts
    /\ Kinds \subseteq Tasks /\ LongDays \subseteq Nat
    /\ IsFiniteSet(Workers)
    /\ MaxNow \in Nat \ {0} /\ MaxStarts \in Nat /\ MaxFaults \in Nat

VARIABLES
    now,         \* the clock
    monthStart,  \* when the current month began
    bills,       \* the line items of last month in ElasticSearch
    ingesting,   \* the kind of manifest each account's bills are read from
    monthly,     \* the monthly reports of last month: of which line items
    coverage,    \* how many coverage reports of last month are in the index
    jobs,        \* the rows of the tables of jobs
    row,         \* the dates in the row of each account
    file,        \* the reports in the spreadsheet of last month
    masterFile,  \* the reports in the master spreadsheet of last month
    worker,      \* what each worker is doing
    starts,      \* history: number of tasks so far
    faults,      \* history: number of faults so far
    met,         \* history: the kinds of tasks that overlapped on an account
    spoilt,      \* history: what else went wrong on an account
    wrote        \* history: the last date written to a column by its own task

billVars == <<bills, ingesting>>
esVars   == <<monthly, coverage>>
files    == <<file, masterFile>>
history  == <<starts, faults, met, spoilt, wrote>>
vars     == <<now, monthStart, billVars, esVars, jobs, row, files, worker, history>>

Times   == 0 .. MaxNow
Lines   == Accounts \X Resources
Columns == {"update", "plugins", "sheet", "master", "anomalies"}
Row     == [Columns -> Times]
NoRow   == [c \in Columns |-> 0]
Job     == [kind : Tasks, account : Accounts, completed : Times, monthly : BOOLEAN]
Step    == {"daily", "run", "bills", "cost", "exists", "import", "plan", "complete", "dates",
            "register", "accounts", "generate", "upload", "stamp", "read", "detect", "write"}
Causes  == {"incomplete", "bulk", "unrecorded", "upload", "second", "misnamed", "abandoned"}

\* svc: the position in CostServices, one past its end for the coverage.
\* month: the monthStart of the dates the task works with.
\* seen: the line items or reports read.  copy: the row of the account read.
Idle == [task |-> "idle", account |-> NoAccount, pc |-> "idle", job |-> 0, forced |-> FALSE,
         month |-> 0, svc |-> 0, seen |-> {}, created |-> FALSE, date |-> 0, copy |-> NoRow]

Coverage     == Len(CostServices) + 1
ColumnOf(k)  == IF k = "process" THEN "update" ELSE k
LinesOf(a)   == {a} \X Resources
Service(a,i) == {l \in LinesOf(a) : i # Coverage /\ ServiceOf[l[2]] = CostServices[i]}

\* models.AwsAccountsByParentId and the account itself.
AccountsOf(m) == {a \in Accounts : a = m \/ Parent[a] = m}
Masters       == {a \in Accounts : Parent[a] = NoAccount}
WorksOn(k, a) == IF k = "master" THEN AccountsOf(a) ELSE {a}

Fault == faults < MaxFaults /\ faults' = faults + 1

Spoil(a, why) == spoilt' = [spoilt EXCEPT ![a] = @ \cup {why}]

\* The dates of a column that are in the row of an account, or that a task has read there
\* and may write back.
Dates(a, c) == {row[a][c]} \cup {worker[v].copy[c] : v \in {u \in Workers : worker[u].account = a}}

Go(w, pc)  == worker' = [worker EXCEPT ![w].pc = pc]
End(w)     == worker' = [worker EXCEPT ![w] = Idle]
At(w, pcs) == worker[w].pc \in pcs

-----------------------------------------------------------------------------
(* Time, and the bills as the ingestion brings them (module BillIngestion).*)
(* A line item is open until AWS has invoiced it.                          *)

Tick ==
    /\ now < MaxNow
    /\ now' = now + 1
    /\ IF now + 1 \in MonthStarts
       THEN /\ monthStart' = now + 1
            /\ \E s \in {"absent", "open"} : bills' = [l \in Lines |-> s]
            /\ ingesting' = [a \in Accounts |-> "no"]
            /\ monthly' = {} /\ coverage' = [a \in Accounts |-> 0]
            /\ file' = [a \in Accounts |-> {}] /\ masterFile' = file'
       ELSE UNCHANGED <<monthStart, billVars, esVars, files>>
    /\ UNCHANGED <<jobs, row, worker, history>>

\* es.CleanCurrentMonthBillByBillRepositoryId removes what has no invoice.
BeginIngest(a, kind) ==
    /\ ingesting[a] = "no"
    /\ kind = "open" => \A l \in LinesOf(a) : bills[l] # "final"
    /\ \E l \in LinesOf(a) : bills[l] # "final"
    /\ ingesting' = [ingesting EXCEPT ![a] = kind]
    /\ bills' = [l \in Lines |-> IF l \in LinesOf(a) /\ bills[l] = "open" THEN "absent" ELSE bills[l]]
    /\ UNCHANGED <<now, monthStart, esVars, jobs, row, files, worker, history>>

IngestLine(l) ==
    /\ ingesting[l[1]] # "no" /\ bills[l] = "absent"
    /\ bills' = [bills EXCEPT ![l] = ingesting[l[1]]]
    /\ ingesting' = IF \A k \in LinesOf(l[1]) \ {l} : bills[k] # "absent"
                    THEN [ingesting EXCEPT ![l[1]] = "no"] ELSE ingesting
    /\ UNCHANGED <<now, monthStart, esVars, jobs, row, files, worker, history>>

AllFinal(a) == \A l \in LinesOf(a) : bills[l] = "final"

-----------------------------------------------------------------------------
(* Starting a task: a process of its own, which reads the account first.   *)

Overlapping(k, a) == {v \in Workers : worker[v].task # "idle"
                                      /\ WorksOn(worker[v].task, worker[v].account) \cap WorksOn(k, a) # {}}

\* Every account on which a new task meets another one.
Meet(k, a) ==
    met' = [x \in Accounts |-> met[x] \cup
              {{k, worker[v].task} : v \in {u \in Overlapping(k, a) :
                    x \in WorksOn(k, a) \cap WorksOn(worker[u].task, worker[u].account)}}]

Start(w, k, a, state) ==
    /\ k \in Kinds
    /\ worker[w] = Idle /\ starts < MaxStarts
    /\ starts' = starts + 1
    /\ Meet(k, a)
    /\ worker' = [worker EXCEPT ![w] = state]
    /\ UNCHANGED <<now, monthStart, billVars, esVars, row, files, faults, spoilt, wrote>>

Pending(k, a) == [kind |-> k, account |-> a, completed |-> 0, monthly |-> FALSE]

\* registerAccountProcessing, registerAccountPluginsProcessing
StartProcess(w, a) ==
    /\ Start(w, "process", a, [Idle EXCEPT !.task = "process", !.account = a,
                                           !.pc = "daily", !.job = Len(jobs) + 1])
    /\ jobs' = Append(jobs, Pending("process", a))

StartPlugins(w, a) ==
    /\ Start(w, "plugins", a, [Idle EXCEPT !.task = "plugins", !.account = a,
                                           !.pc = "run", !.job = Len(jobs) + 1])
    /\ jobs' = Append(jobs, Pending("plugins", a))

\* The account cannot be read or the job not inserted: updateNextUpdateAccount
\* still plans the next update, and no row of jobs says what happened.
RegistrationFails(k, a) ==
    /\ k \in Kinds \cap {"process", "plugins"}
    /\ Fault
    /\ Meet(k, a)
    /\ row' = [row EXCEPT ![a][ColumnOf(k)] = now]
    /\ wrote' = [wrote EXCEPT ![a][ColumnOf(k)] = now]
    /\ UNCHANGED <<now, monthStart, billVars, esVars, jobs, files, worker, starts, spoilt>>

\* A month and a year on the command line force the generation.
StartSheet(w, a, forced) ==
    /\ Start(w, "sheet", a, [Idle EXCEPT !.task = "sheet", !.account = a, !.forced = forced,
                                         !.pc = IF forced THEN "register" ELSE "bills"])
    /\ UNCHANGED jobs

StartMaster(w, a, forced) ==
    /\ a \in Masters
    /\ Start(w, "master", a, [Idle EXCEPT !.task = "master", !.account = a, !.forced = forced,
                                          !.pc = IF forced THEN "register" ELSE "dates"])
    /\ UNCHANGED jobs

\* models.AwsAccountByID inside the transaction that ends with the task: a
\* later read of the row in this transaction gives the same snapshot.
StartAnomalies(w, a) ==
    /\ Start(w, "anomalies", a, [Idle EXCEPT !.task = "anomalies", !.account = a,
                                             !.pc = "detect", !.copy = row[a]])
    /\ UNCHANGED jobs

-----------------------------------------------------------------------------
(* The task process-account, from ingestDataForAccount.                    *)

\* The eight daily reports; their errors go to columns of the job.
DailyReports(w) ==
    /\ At(w, {"daily"})
    /\ Go(w, "bills")
    /\ UNCHANGED <<now, monthStart, billVars, esVars, jobs, row, files, history>>

\* history.CheckBillingDataCompleted: no line item of the month is open.
BillingDataCompleted(a) == \A l \in LinesOf(a) : bills[l] # "open"

\* FetchHistoryInfos and checkReportGeneration begin alike.
CheckBills(w) ==
    LET a == worker[w].account
        k == worker[w].task
        stop == IF k = "process" THEN [worker[w] EXCEPT !.pc = "plan"] ELSE Idle
    IN
    /\ At(w, {"bills"})
    /\ \/ /\ BillingDataCompleted(a)
          /\ worker' = [worker EXCEPT ![w] = IF k = "sheet" THEN [@ EXCEPT !.pc = "dates", !.month = monthStart]
                                             ELSE [@ EXCEPT !.pc = "cost", !.month = monthStart, !.svc = 1]]
          /\ IF k = "process" /\ ~AllFinal(a) THEN Spoil(a, "incomplete") ELSE UNCHANGED spoilt
          /\ UNCHANGED faults
       \/ /\ ~BillingDataCompleted(a)
          /\ worker' = [worker EXCEPT ![w] = stop]
          /\ UNCHANGED <<spoilt, faults>>
       \/ /\ Fault
          /\ worker' = [worker EXCEPT ![w] = stop]
          /\ UNCHANGED spoilt
    /\ UNCHANGED <<now, monthStart, billVars, esVars, jobs, row, files, starts, met, wrote>>

\* The month is not the one of which the task took the dates.
Past(w) == worker[w].month # monthStart

\* getInstancesInfo goes on to the next service, whatever the outcome.
NextService(x) ==
    [x EXCEPT !.pc = IF x.svc + 1 < Coverage THEN "cost"
                     ELSE IF x.svc + 1 = Coverage THEN "exists" ELSE "plan",
              !.svc = IF x.svc + 1 <= Coverage THEN @ + 1 ELSE 0,
              !.month = IF x.svc + 1 <= Coverage THEN @ ELSE 0,
              !.seen = {}]

\* A bug: the aggregation has its first bucket only.
FirstPaidFor(a, i) ==
    LET paid == {l \in Service(a, i) : bills[l] # "absent"}
    IN {l \in paid : l = CHOOSE k \in paid : TRUE}

\* getCostPerResource, and the filter of the service
PaidFor(a, i) == {l \in Service(a, i) : bills[l] # "absent"}

\* Nothing paid for, nothing to report.
ReadCosts(w) ==
    LET x == worker[w]
        Read(ls) == worker' = [worker EXCEPT ![w] = IF ls = {} THEN NextService(x)
                                                    ELSE [x EXCEPT !.pc = "exists", !.seen = ls]]
    IN
    /\ At(w, {"cost"})
    /\ \/ /\ ~Past(w) /\ Read(PaidFor(x.account, x.svc))
          /\ UNCHANGED faults
       \/ /\ Past(w) /\ \E ls \in {{}, Service(x.account, x.svc)} : Read(ls)
          /\ UNCHANGED faults
       \/ /\ Fault /\ Read({})
    /\ UNCHANGED <<now, monthStart, billVars, esVars, jobs, row, files, starts, met, spoilt, wrote>>

\* A bug: the check asks for the reports of another month.
NoReport(a, i) == FALSE

\* utils.CheckMonthlyReportExists
ReportExists(a, i) == IF i = Coverage THEN coverage[a] > 0 ELSE Service(a, i) \cap monthly # {}

CheckExists(w) ==
    LET x == worker[w] IN
    /\ At(w, {"exists"})
    /\ \/ /\ Past(w) \/ ReportExists(x.account, x.svc)
          /\ worker' = [worker EXCEPT ![w] = NextService(x)]
          /\ UNCHANGED faults
       \/ /\ Past(w) \/ ~ReportExists(x.account, x.svc)
          /\ Go(w, "import")
          /\ UNCHANGED faults
       \/ /\ Fault
          /\ worker' = [worker EXCEPT ![w] = NextService(x)]
    /\ UNCHANGED <<now, monthStart, billVars, esVars, jobs, row, files, starts, met, spoilt, wrote>>

\* getInstancesInfo answers whether any of the reports was created.
Imported(x) == [NextService(x) EXCEPT !.created = TRUE]

\* The id of a report is a hash of account, month and resource, and a "create"
\* leaves a document that exists; the id of a coverage report is a new UUID.
\* The errors of the bulk requests are logged only.
ImportReport(w) ==
    LET x == worker[w]
        Written(ls) == IF Past(w) THEN UNCHANGED esVars
                       ELSE /\ monthly' = monthly \cup ls
                            /\ coverage' = IF x.svc = Coverage /\ x.account \in Reserved
                                           THEN [coverage EXCEPT ![x.account] = @ + 1] ELSE coverage
    IN
    /\ At(w, {"import"})
    /\ \/ /\ Written(x.seen)
          /\ worker' = [worker EXCEPT ![w] = Imported(x)]
          /\ UNCHANGED <<faults, spoilt>>
       \/ /\ Fault
          /\ \E ls \in SUBSET x.seen : ls # x.seen /\ Written(ls)
          /\ worker' = [worker EXCEPT ![w] = Imported(x)]
          /\ Spoil(x.account, "bulk")
       \/ /\ Fault
          /\ worker' = [worker EXCEPT ![w] = NextService(x)]
          /\ UNCHANGED <<esVars, spoilt>>
    /\ UNCHANGED <<now, monthStart, billVars, jobs, row, files, starts, met, wrote>>

-----------------------------------------------------------------------------
(* The end of process-account and of process-account-plugins.              *)

\* runPluginsForAccount
RunPlugins(w) ==
    /\ At(w, {"run"})
    /\ Go(w, "plan")
    /\ UNCHANGED <<now, monthStart, billVars, esVars, jobs, row, files, history>>

\* updateNextUpdateAccount, updateNextUpdateAccountPlugins: an UPDATE of one
\* column, whose error is ignored.
PlanUpdate(w) ==
    LET a == worker[w].account
        c == ColumnOf(worker[w].task)
    IN
    /\ At(w, {"plan"})
    /\ Go(w, "complete")
    /\ \/ /\ row' = [row EXCEPT ![a][c] = now]
          /\ wrote' = [wrote EXCEPT ![a][c] = now]
          /\ UNCHANGED faults
       \/ Fault /\ UNCHANGED <<row, wrote>>
    /\ UNCHANGED <<now, monthStart, billVars, esVars, jobs, files, starts, met, spoilt>>

\* A bug: the date is lost.
CompletedWithoutDate(x, j) == [j EXCEPT !.monthly = x.created]

\* registerAccountProcessingCompletion
Completed(x, j) == [j EXCEPT !.completed = now, !.monthly = x.created]

\* What is spoilt when a task ends without having completed its job.
Abandon(x) ==
    LET why == (IF x.job # 0 /\ jobs[x.job].completed = 0 THEN {"abandoned"} ELSE {})
               \cup (IF x.created THEN {"unrecorded"} ELSE {})
    IN spoilt' = [spoilt EXCEPT ![x.account] = @ \cup why]

CompleteJob(w) ==
    LET x == worker[w] IN
    /\ At(w, {"complete"})
    /\ End(w)
    /\ \/ /\ jobs' = [jobs EXCEPT ![x.job] = Completed(x, @)]
          /\ IF x.created /\ now \in Dates(x.account, "sheet")
             THEN Spoil(x.account, "second") ELSE UNCHANGED spoilt
          /\ UNCHANGED faults
       \/ Fault /\ Abandon(x) /\ UNCHANGED jobs
    /\ UNCHANGED <<now, monthStart, billVars, esVars, row, files, starts, met, wrote>>

-----------------------------------------------------------------------------
(* The spreadsheets, from checkReportGeneration.                           *)

\* A monthly report is new when its job completed after the last spreadsheet.
SheetDue(a, month) ==
    \/ row[a]["sheet"] < month
    \/ \E i \in DOMAIN jobs : /\ jobs[i].kind = "process" /\ jobs[i].account = a
                              /\ jobs[i].monthly /\ row[a]["sheet"] < jobs[i].completed

\* A bug: the sub accounts are not looked at.
MasterDueAlone(m, month) ==
    row[m]["master"] < month \/ row[m]["master"] < row[m]["sheet"]

\* checkMasterReportGeneration: the bills are not looked at.
MasterDue(m, month) ==
    \/ row[m]["master"] < month
    \/ \E a \in AccountsOf(m) : row[m]["master"] < row[a]["sheet"]

\* The row and the jobs are read one after the other; only this task's own
\* kind writes what is read first, so that one step stands for both reads.
CheckDates(w) ==
    LET x == worker[w]
        due == IF x.task = "sheet" THEN SheetDue(x.account, x.month)
                                   ELSE MasterDue(x.account, monthStart)
    IN
    /\ At(w, {"dates"})
    /\ \/ /\ worker' = [worker EXCEPT ![w] = IF due THEN [x EXCEPT !.pc = "register", !.month = 0] ELSE Idle]
          /\ UNCHANGED faults
       \/ Fault /\ End(w)
    /\ UNCHANGED <<now, monthStart, billVars, esVars, jobs, row, files, starts, met, spoilt, wrote>>

\* Without a row in the table of jobs the task ends.
RegisterSheet(w) ==
    LET x == worker[w] IN
    /\ At(w, {"register"})
    /\ \/ /\ jobs' = Append(jobs, Pending(x.task, x.account))
          /\ worker' = [worker EXCEPT ![w].job = Len(jobs) + 1,
                                      ![w].pc = IF x.task = "sheet" THEN "generate" ELSE "accounts"]
          /\ UNCHANGED faults
       \/ Fault /\ End(w) /\ UNCHANGED jobs
    /\ UNCHANGED <<now, monthStart, billVars, esVars, row, files, starts, met, spoilt, wrote>>

\* The err of getAccounts shadows the one the task looks at afterwards: its
\* job is neither run nor completed.
GetAccounts(w) ==
    /\ At(w, {"accounts"})
    /\ \/ Go(w, "generate") /\ UNCHANGED <<faults, spoilt>>
       \/ Fault /\ End(w) /\ Abandon(worker[w])
    /\ UNCHANGED <<now, monthStart, billVars, esVars, jobs, row, files, starts, met, wrote>>

\* formatDate goes back a month from today.  On a day that the month before
\* does not have it gets to a day of the current month and names the file after it.
FileMonth(x) == IF ~x.forced /\ now \in LongDays THEN 0 ELSE monthStart

\* getSpreadsheetData: a tab that fails is left out.
Generate(w) ==
    LET x == worker[w]
        reports == monthly \cap (WorksOn(x.task, x.account) \X Resources)
        Read(ls) == worker' = [worker EXCEPT ![w] = [x EXCEPT !.pc = "upload", !.month = FileMonth(x), !.seen = ls]]
    IN
    /\ At(w, {"generate"})
    /\ \/ /\ Read(reports)
          /\ IF FileMonth(x) = 0 THEN Spoil(x.account, "misnamed") ELSE UNCHANGED spoilt
          /\ UNCHANGED faults
       \/ /\ \E ls \in SUBSET reports : ls # reports /\ Read(ls)
          /\ Fault /\ Spoil(x.account, "upload")
    /\ UNCHANGED <<now, monthStart, billVars, esVars, jobs, row, files, starts, met, wrote>>

\* saveSpreadsheet.  GenerateReport collects the errors of the tabs and of the
\* upload in a variable of an inner scope and returns an empty map: whatever
\* happens, the task goes on in the same way.
Upload(w) ==
    LET x == worker[w]
        next == [x EXCEPT !.pc = "stamp", !.month = 0, !.seen = {}]
    IN
    /\ At(w, {"upload"})
    /\ worker' = [worker EXCEPT ![w] = next]
    /\ \/ /\ IF Past(w) THEN UNCHANGED files
             ELSE IF x.task = "sheet" THEN /\ file' = [file EXCEPT ![x.account] = x.seen]
                                           /\ UNCHANGED masterFile
             ELSE /\ masterFile' = [masterFile EXCEPT ![x.account] = x.seen]
                  /\ UNCHANGED file
          /\ UNCHANGED <<faults, spoilt>>
       \/ Fault /\ Spoil(x.account, "upload") /\ UNCHANGED files
    /\ UNCHANGED <<now, monthStart, billVars, esVars, jobs, row, starts, met, wrote>>

\* registerAccountReportGenerationCompletion takes its date, completes the job,
\* then reads the account and writes all of its row.
Stamp(w) ==
    LET x == worker[w] IN
    /\ At(w, {"stamp"})
    /\ \/ /\ jobs' = [jobs EXCEPT ![x.job].completed = now]
          /\ worker' = [worker EXCEPT ![w] = IF x.forced THEN Idle ELSE [x EXCEPT !.pc = "read", !.date = now]]
          /\ UNCHANGED <<faults, spoilt>>
       \/ Fault /\ End(w) /\ Abandon(x) /\ UNCHANGED jobs
    /\ UNCHANGED <<now, monthStart, billVars, esVars, row, files, starts, met, wrote>>

ReadRow(w) ==
    LET x == worker[w] IN
    /\ At(w, {"read"})
    /\ \/ /\ worker' = [worker EXCEPT ![w] = [x EXCEPT !.pc = "write", !.copy = row[x.account]]]
          /\ UNCHANGED faults
       \/ Fault /\ End(w)
    /\ UNCHANGED <<now, monthStart, billVars, esVars, jobs, row, files, starts, met, spoilt, wrote>>

\* RunAnomaliesDetection: without line items there is nothing to register.
Detect(w) ==
    LET x == worker[w] IN
    /\ At(w, {"detect"})
    /\ worker' \in {[worker EXCEPT ![w] = y] : y \in {Idle, [x EXCEPT !.pc = "write", !.date = now]}}
    /\ UNCHANGED <<now, monthStart, billVars, esVars, jobs, row, files, history>>

\* A bug: the date goes to the column of the spreadsheet, whatever the task.
RowWithSheetDate(x) == [x.copy EXCEPT !["sheet"] = x.date]

\* AwsAccount.Update writes every column of the row.
RowToWrite(x) == [x.copy EXCEPT ![ColumnOf(x.task)] = x.date]

WriteRow(w) ==
    LET x == worker[w]
        a == x.account
        seconds == {m \in Masters : a \in AccountsOf(m) /\ x.date \in Dates(m, "master")}
    IN
    /\ At(w, {"write"})
    /\ End(w)
    /\ \/ /\ row' = [row EXCEPT ![a] = RowToWrite(x)]
          /\ wrote' = [wrote EXCEPT ![a][ColumnOf(x.task)] = x.date]
          /\ IF x.task = "sheet" /\ seconds # {} THEN Spoil(a, "second") ELSE UNCHANGED spoilt
          /\ UNCHANGED faults
       \/ Fault /\ UNCHANGED <<row, wrote, spoilt>>
    /\ UNCHANGED <<now, monthStart, billVars, esVars, jobs, files, starts, met>>

\* The process of a task dies.
Crash(w) ==
    /\ worker[w] # Idle
    /\ Fault
    /\ End(w) /\ Abandon(worker[w])
    /\ UNCHANGED <<now, monthStart, billVars, esVars, jobs, row, files, starts, met, wrote>>

-----------------------------------------------------------------------------
Init ==
    /\ now = 1 /\ monthStart = 1
    /\ bills = [l \in Lines |-> "absent"]
    /\ ingesting = [a \in Accounts |-> "no"]
    /\ monthly = {} /\ coverage = [a \in Accounts |-> 0]
    /\ jobs = <<>>
    /\ row = [a \in Accounts |-> NoRow]
    /\ file = [a \in Accounts |-> {}] /\ masterFile = [a \in Accounts |-> {}]
    /\ worker = [w \in Workers |-> Idle]
    /\ starts = 0 /\ faults = 0
    /\ met = [a \in Accounts |-> {}] /\ spoilt = [a \in Accounts |-> {}]
    /\ wrote = [a \in Accounts |-> NoRow]

Begin(w) ==
    \E a \in Accounts :
        \/ StartProcess(w, a) \/ StartPlugins(w, a) \/ StartAnomalies(w, a)
        \/ \E forced \in BOOLEAN : StartSheet(w, a, forced) \/ StartMaster(w, a, forced)

Work(w) ==
    \/ DailyReports(w) \/ CheckBills(w) \/ ReadCosts(w) \/ CheckExists(w) \/ ImportReport(w)
    \/ RunPlugins(w) \/ PlanUpdate(w) \/ CompleteJob(w)
    \/ CheckDates(w) \/ RegisterSheet(w) \/ GetAccounts(w) \/ Generate(w) \/ Upload(w)
    \/ Stamp(w) \/ ReadRow(w) \/ Detect(w) \/ WriteRow(w)

Next ==
    \/ Tick
    \/ \E a \in Accounts, kind \in {"open", "final"} : BeginIngest(a, kind)
    \/ \E l \in Lines : IngestLine(l)
    \/ \E k \in {"process", "plugins"}, a \in Accounts : RegistrationFails(k, a)
    \/ \E w \in Workers : Begin(w) \/ Work(w) \/ Crash(w)

Spec == Init /\ [][Next]_vars

-----------------------------------------------------------------------------
(* Properties.                                                             *)

WorkerState == [task : Tasks \cup {"idle"}, account : Accounts \cup {NoAccount},
                pc : Step \cup {"idle"}, job : 0 .. MaxStarts, forced : BOOLEAN,
                month : Times, svc : 0 .. Coverage, seen : SUBSET Lines,
                created : BOOLEAN, date : Times, copy : Row]

\* The types of the variables; a worker has a job of its own in the table, or
\* none.
TypeOK ==
    /\ now \in Times \ {0} /\ monthStart \in 1 .. now
    /\ bills \in [Lines -> {"absent", "open", "final"}]
    /\ ingesting \in [Accounts -> {"no", "open", "final"}]
    /\ monthly \subseteq Lines
    /\ coverage \in [Accounts -> 0 .. MaxStarts]
    /\ jobs \in Seq(Job)
    /\ row \in [Accounts -> Row] /\ wrote \in [Accounts -> Row]
    /\ file \in [Accounts -> SUBSET Lines] /\ masterFile \in [Accounts -> SUBSET Lines]
    /\ worker \in [Workers -> WorkerState]
    /\ \A w \in Workers : worker[w].job <= Len(jobs)
    /\ starts \in 0 .. MaxStarts /\ faults \in 0 .. MaxFaults
    /\ met \in [Accounts -> SUBSET SUBSET Tasks]
    /\ spoilt \in [Accounts -> SUBSET Causes]

InFlight(ks, as) ==
    \E w \in Workers : /\ worker[w].task \in ks
                       /\ WorksOn(worker[w].task, worker[w].account) \cap as # {}

MonthlyOf(as) == monthly \cap (as \X Resources)

\* The monthly report of a service has every line item of the service, unless
\* the check let bills through that were still being imported, or ElasticSearch
\* refused some of the documents; neither is ever made good, as a report that
\* exists is not made again.
LacksHasCause ==
    \A a \in Accounts, i \in DOMAIN CostServices :
        \/ Service(a, i) \cap monthly \in {{}, Service(a, i)}
        \/ spoilt[a] \cap {"incomplete", "bulk"} # {}

\* The coverage report of a month is in the index once, whatever was retried,
\* unless two jobs of the account overlapped: its documents have no id that
\* would make the second "create" fail.
CoverageOnce == \A a \in Accounts : coverage[a] <= 1 \/ {"process"} \in met[a]

\* When no spreadsheet of an account is due any more, the one that was uploaded
\* has all its monthly reports; unless a spreadsheet overlapped a job of the
\* account, the job could not record what it made, a tab or the upload failed,
\* the file got the name of another month, or the job completed in the second of
\* a spreadsheet whose date is in the row, or may be put back there.
SheetMissHasCause ==
    \A a \in Accounts :
        \/ InFlight({"process", "sheet"}, {a})
        \/ SheetDue(a, monthStart)
        \/ MonthlyOf({a}) \subseteq file[a]
        \/ {"process", "sheet"} \in met[a]
        \/ spoilt[a] \cap {"unrecorded", "upload", "second", "misnamed"} # {}

\* When no master spreadsheet is due, the last one has the monthly reports of
\* every account, sub accounts included, whose own spreadsheet is not due either;
\* unless it overlapped the spreadsheet of one of them, or for the other reasons
\* of SheetMissHasCause.  A job it overlaps is no reason: the spreadsheet that
\* the job makes due makes the master spreadsheet due again.
MasterMissHasCause ==
    \A m \in Masters :
        \/ InFlight({"process", "sheet", "master"}, AccountsOf(m))
        \/ MasterDue(m, monthStart)
        \/ MonthlyOf({a \in AccountsOf(m) : ~SheetDue(a, monthStart)}) \subseteq masterFile[m]
        \/ \E a \in AccountsOf(m) :
              \/ {"sheet", "master"} \in met[a]
              \/ spoilt[a] \cap {"unrecorded", "upload", "second", "misnamed"} # {}

\* A date in the row of an account is the last one its own task wrote, unless
\* that task overlapped one that writes the whole row back.
ColumnHasCause ==
    \A a \in Accounts, k \in Tasks :
        \/ row[a][ColumnOf(k)] = wrote[a][ColumnOf(k)]
        \/ \E writer \in RowWriters : {writer, k} \in met[a]

\* A job that is not completed is being run, or was abandoned: by a crash, an
\* error of its last UPDATE, or the error of getAccounts nobody looks at.
PendingHasCause ==
    \A i \in DOMAIN jobs :
        \/ jobs[i].completed # 0
        \/ \E w \in Workers : worker[w].job = i
        \/ "abandoned" \in spoilt[jobs[i].account]

\* The rows of accounts and jobs say what the tasks have done: they have their types, a
\* date is the last one its own task wrote, and a job that is not completed is being
\* run, but for what overlaps, crashes and errors explain.
RowsHaveCause == TypeOK /\ ColumnHasCause /\ PendingHasCause
=============================================================================
