# Verification of trackit-server

trackit-server imports the AWS bills and the usage of its users' AWS accounts
into ElasticSearch and answers questions about their costs.  This directory
holds TLA+ models of the parts of it that keep state, run concurrently or compute
what a user is told, the TLC runs that check them on small instances, and theorems, for instances of any size,
about the ingestion of bills, the pipeline that reads them, the scheduler, the tasks on accounts, their advice, the detection of anomalies, and the tables of users, accounts and
shares, whose proofs TLAPS checks.
Paths below are relative to the root of the repository.

## 1. The system

| Component | Source | State | Operations | What is hard |
|---|---|---|---|---|
| Bill repositories | `aws/s3/billRepository.go`, `models/awsbillrepository.go` | rows of `aws_bill_repository` (MySQL) | POST, PATCH, DELETE, each with a goroutine it leaves behind | the goroutine starts before the commit; whole-row updates |
| Bill ingestion | `server/taskIngest.go`, `server/taskIngestDue.go`, `aws/s3/ingestBills.go` | `aws_bill_update_job`, `last_imported_manifest`, `next_update`, `error` | task `ingest`, periodic task `ingest-due`, `UpdateReport` | several imports of one repository at once, crashes, a panic that ends the server, stale rows, errors that are logged only |
| ReadBills | `aws/s3/readBills.go`, `aws/s3/fanIn.go` | goroutines and channels of one call | list, download, select, read, hand over | a dozen kinds of goroutines, two fans-in, termination |
| Scheduler | `periodic/tasks.go` | registrations, tickers, control channels | `Register`, `Start`, `Stop`, tick | memory shared without the mutex, `append` that copies |
| Account processing | `server/taskProcessAccount.go`, `aws/usageReports/history` | `aws_account_update_job`, reports in ElasticSearch | nine steps whose errors are stored, monthly reports made once | partial failure, check-then-import, incomplete bills |
| Plugins | `server/taskProcessAccountPlugins.go`, `plugins/` | `aws_account_plugins_job`, results in ElasticSearch | one run for each plugin | as above |
| Usage reports | `aws/usageReports/` | a document for each resource and date | daily and monthly reports of seven services | a goroutine for each region or billed resource, ids that collide, errors that are logged only |
| Spreadsheets | `server/taskSpreadsheet.go`, `server/taskMasterSpreadsheet.go`, `reports/` | dates of the last generation, jobs | is a report due, generate, complete | dates compared across tasks |
| Advice on reserved instances | `onDemandToRI/ec2/` | the last report on what would be saved | reports, reservations and prices put together | what it reads was written a moment before, or a day |
| Pricings | `aws/pricings/`, `server/taskFetchPricings.go` | the row of `aws_pricing` | fetch all regions, replace | a price list that changes while it is read |
| AWS accounts | `aws/`, `aws/routes/`, `server/taskUpdateAwsIdentity.go` | `aws_account`, `user.next_external` | next external, create, patch, delete, sub accounts | read-then-write in concurrent requests |
| Users and sharing | `users/`, `users/shared_account/` | `user`, `forgotten_password`, `shared_account` | register, reset, invite, change and remove shares | checks in one transaction, writes in another |
| Anomalies | `anomaliesDetection/`, `costs/anomalies/` | last date processed, documents | range, analysis, recurrence, levels, filters | boundaries of dates, searches before a refresh |
| Usage queries | `usageReports/` | none | last daily or monthly reports, unused resources | sizes of aggregations, two kinds of reports |
| Cost queries | `costs/`, `s3/costs/`, `es/` | none | build a query, reshape the answer | whose bills are searched; dates at their limits |
| HTTP, transactions | `routes/`, `db/` | one transaction for each request | decorators | commit depends on the value that is returned |
| Config, mail, utilities, generated models | the rest | - | - | pure input and output |

How they interact: the HTTP handlers write rows of MySQL inside the
transaction of their request and start goroutines that use ElasticSearch and
S3 on their own.  The periodic scheduler of the server runs `ingest-due`;
all other tasks are processes of their own, started by a queue outside the
repository, several at once and possibly for the same account.  Everything
meets in the rows of MySQL and the indexes of ElasticSearch.  Bills feed the
monthly reports (by `invoiceId`) and the anomalies, the monthly reports feed the
spreadsheets, the daily reports and the pricings feed the advice, and the
shares decide which documents an answer is made of.

What makes each part correct:

- *Bill ingestion*: every invoiced line item of the bucket that
  `last_imported_manifest` covers is in the index, once, under its repository;
  line items of a location that was left go away; a row says what the user
  asked for; a deleted repository stays deleted; a job that is shown as
  pending is running.
- *ReadBills*: always returns, leaves no goroutine behind, sends on no closed
  channel, hands over every line item it read, returns the date of the latest
  manifest it imported.
- *Scheduler*: no task starts after `Stop`, no task has two tickers, no panic,
  no call that hangs, a started task keeps ticking.
- *Account processing, spreadsheets*: monthly reports are made once and from
  complete bills; a spreadsheet is made after the reports it shows.
- *Usage reports and queries*: a report has every resource once and charges each for
  itself; an answer has every account, its last report and its own costs.
- *Advice, pricings*: instances beyond the reservations are counted, of the reports of today;
  prices are those of one price list; no saving exceeds what is paid.
- *AWS accounts, users, sharing*: an external id serves one account; sub accounts
  are unique; a token is used once; no share has a level its giver could not give; what is
  deleted takes its documents along; overlapping requests that have nothing in common do not
  undo each other.
- *Anomalies*: no day is skipped, a verdict does not depend on when it is found, a mark of recurrence
  is true, an alert is told to whoever may read the account.
- *Cost queries*: whatever the breakdown, what is told adds up to the bills of the accounts that
  the user may read, each counted once.

## 2. Modules

| Module | What it is |
|---|---|
| `BillIngestion` | repositories, their index, the handlers, both tasks, crashes |
| `MCBillIngestion` | its model values, symmetry and state constraints |
| `BillIngestionProofs` | type correctness of `BillIngestion`, and theorems on its rows, its jobs and its line items |
| `BillImport` | what a call of `ReadBills` promises its caller |
| `ReadBills`, `MCReadBills` | the pipeline of one call, and that it implements `BillImport` |
| `ReadBillsProofs` | theorems on `ReadBills`, and the proof that it implements `BillImport` |
| `Scheduler`, `MCScheduler` | the periodic scheduler |
| `SchedulerProofs` | theorems on `Scheduler` |
| `AccountJobs`, `MCAccountJobs` | the tasks that work on one account: jobs, monthly reports, spreadsheets, the row they share |
| `AccountJobsProofs` | theorems on `AccountJobs`: all its properties |
| `Accounts`, `MCAccounts` | users, AWS accounts, shares and tokens: the tables and the requests that change them |
| `AccountsProofs` | theorems on `Accounts`: all its properties |
| `Access` | the accounts and indexes a user may read; no state |
| `UsageReports` | the reports of the usage of an account, service by service |
| `UsageQueries`, `MCUsage` | what a user is told of them |
| `UsageProofs` | theorems on `UsageReports` and `UsageQueries`: all their properties |
| `Anomalies` | the detection of anomalies of one account |
| `AnomaliesProofs` | theorems on `Anomalies`, `AnomalyQueries`, `Access` and `CostQueries`: all their properties |
| `AnomalyQueries` | what a user is told of them; extends `Anomalies` and `Access` |
| `CostQueries`, `MCAnomalies` | what a user is told of costs; the values for the three |
| `RiAdvice`, `MCRiAdvice` | the advice on reserved instances and the prices it uses |
| `RiAdviceProofs` | theorems on `RiAdvice`, and the lemmas on folds they need |

### BillIngestion

State and code:

- `rows`, `used`, `jobs`, `stuck`: the tables `aws_bill_repository` and
  `aws_bill_update_job`.  A row has its location (`bucket`, prefix included),
  `lim` (`last_imported_manifest`), `next` (`next_update`) and whether `error`
  is set.  `used` is what AUTO_INCREMENT has given out, so that ids are not
  used again.  `jobs` are the pending jobs of processes that live, `stuck`
  says whether a dead process has left one.
- `tx`: the uncommitted row of a request, which keeps others from writing the
  row.  The decorator of `db/decorator.go` commits after the handler has
  returned, while the goroutine of the handler already runs.  A task's own
  transaction writes one row, last thing before its commit (for `ingest-due`:
  all rows at its end), so there the write and the commit are one step.
- `s3`: for each bucket and period the manifest, as its `LastModified` and
  whether the period is invoiced.  One period stands for one line item, whose
  id is the same in every version of the manifest.
- `es`, `cleans`: the documents of one user's index, and the deletions that
  were requested and that ElasticSearch has not run (`WaitForCompletion(false)`).
- `job`, `imp`: what each worker is doing.  A worker is a process running a
  task, or a request together with its goroutine.  `imp[w][r]` is the
  import of repository `r`: the row as it was read (`br`), the pages
  already listed, the manifests seen and those left to import, and the latest date.

One action is one statement, request or import of a report: `PostBillRepository`,
`ReadRepository`/`WriteRepository` (PATCH and DELETE), `Commit`, `CommitFails`;
`CleanAll`, `Access`, `ListPage`, `ListFails`, `CleanMonth`, `WriteItem`,
`RunClean`; `StartIngest`, `RecordBillError`, `CompleteJob`, `EndIngest`;
`StartIngestDue`, `EndIngestDue`, `StartIngestDueFails`, `AbandonDue`; `Crash`, `Panic`, `JobExpires`.  Each error that the code
may meet is a `Fault`: an import that cannot reach AWS or ElasticSearch, a
page, manifest or item that is dropped, a request for a deletion that fails,
an UPDATE or COMMIT that fails, an account that cannot be read, a process that dies.

A process dies with all its goroutines.  A worker with the task `ingest` is a process of its own;
requests and the periodic task may be workers of one server, so `Crash(ws)` and `Panic(ws)` take a set of them (`Process`).
When `UpdateDueReports` cannot read the account of a repository it returns, and closes the channel on which
the goroutines it has already started will send (`aws/s3/ingestBills.go:82-88`).  `StartIngestDueFails` starts
such a task, "doomed", on any part of what is due; its imports go on, and as soon as one of them ends the
server may panic, with every request it serves.  If all end before the channel is closed, nothing is written to their rows (`AbandonDue`).

`cause` is a history variable.  The code does lose line items and does
disagree with the user about a location in some situations; the project does not hide
them, it names them.  `cause[r]` records the first thing that has put the repository at
risk: two jobs on it at once ("overlap"), a deletion that ElasticSearch still runs
when new documents come in ("late"), a manifest rewritten on a page that was
already listed ("paged") or in the very unit of time of the latest one ("tie"), a
second repository on its bucket ("twin"), an error that is logged and dropped
("fault").  The properties say that nothing else does: in particular
no crash of an import, no retry, no credentials that are refused, no PATCH and no DELETE alone.

Simplifications, none of which hides a case above: one user and one index; a
document written is found at once (no refresh delay); the manifests
of a repository are read one after the other in any order (their pipeline is module
`ReadBills`); the sub accounts that `ingest` updates at its end are left out;
names and access of a new repository are checked before anything is written.

### ReadBills

One record for each key and report says in whose hands it is: since all
channels but one are unbuffered and every goroutine holds one value, that is the whole
state of the pipeline.  `closed` holds the closed channels.  Errors: the listing may end early between two
pages, a manifest may be unreadable, a report may fail at any record.
The limit of keys is only looked at between pages, as in the code.

`BillImport` is the abstract specification of a call: manifests not older than a month before the last import are taken, line items of new
bills and those with no invoice are passed on, each once and in the order of their report, and
the date of the latest manifest taken is returned.  `ReadBills` implements it under the mapping `Promise`: a manifest
is taken when it reaches the caller's side of the pipeline, and all steps of the goroutines in between are stutters.

### Scheduler

The goroutines use their registration through a pointer and without the mutex, so the model has memory:
a cell for the local variable of `Register` and one for each element of each array that `append` has made.
`Stop` reads `control`, reads it again and sends; the compiler may use the
first value for both, so the model has both outcomes.  A caller blocked in a send
on a nil channel stays there with the mutex, as in Go.

### AccountJobs

Five tasks, each a process of its own: `process` (`process-account`), `plugins`, `sheet`, `master` and `anomalies`.
They share

- `row`: a date in `aws_account` for each of them.  `next_update` and `next_update_plugins` are
  modelled as the time they were planned at, a day before their value; `last_anomalies_update` as the time of the detection;
- `jobs`: the tables `aws_account_update_job`, `aws_account_plugins_job`, `aws_account_reports_job`
  and `aws_account_master_reports_job`, one sequence, with the date and the flag `monthly_reports_generated`;
- `bills`, `monthly`, `coverage`: for the month before the current one, the line items in ElasticSearch (absent,
  open while AWS has not invoiced them, final), the line items that have a monthly report, and how
  often the coverage report is there; `file` and `masterFile`: what the uploaded spreadsheets show.

When a month begins all of these start again; a task still at work on the month before keeps its dates (`month`)
and no longer finds or changes what is modelled (`Past`).

One action is one statement or one request: `StartProcess`, `DailyReports`, `CheckBills`, `ReadCosts`,
`CheckExists`, `ImportReport` (for each service), `PlanUpdate`, `CompleteJob`; `StartPlugins`, `RunPlugins`; `StartSheet`,
`StartMaster` (forced or not), `CheckDates`, `RegisterSheet`, `GetAccounts`, `Generate`, `Upload`,
`Stamp`, `ReadRow`, `WriteRow`; `StartAnomalies`, `Detect`; `RegistrationFails`, `Crash`; and of the outside, `Tick`, `BeginIngest`, `IngestLine`.
The ingestion is what `BillIngestion` promises it to be: an import deletes the open line items of the month and writes all of them again, one by one.
The anomalies task reads and writes the row in one transaction, whose second read gives the snapshot of the first; the spreadsheets read and write it in two statements of their own.

Three history variables say what happened to an account: `met` (the pairs of tasks that overlapped on it), `spoilt` (why something may be missing) and
`wrote` (the last date a task wrote to its own column).  As in `BillIngestion`, the properties say that nothing else is the reason when
a report is incomplete (`LacksHasCause`), is there twice (`CoverageOnce`), does not reach the spreadsheet
(`SheetMissHasCause`) or the master spreadsheet (`MasterMissHasCause`), when a date is undone or a job stays pending
(`ColumnHasCause` and `PendingHasCause`, checked as parts of `RowsHaveCause`).

- "incomplete": the bills were not all there when `CheckBillingDataCompleted` said so; "bulk": ElasticSearch refused a part of a bulk request, which is logged only;
- "unrecorded": a job made monthly reports and could not say so; "upload": a tab or the upload failed, which `GenerateReport` hides in a map of an inner scope (`reports/report_generation.go:89,121`); "misnamed": the file was named on a day that
  the month before does not have (`LongDays`), for which `formatDate` and `GetHistoryDate` disagree about last month; "second": two dates that are compared, or may be once a task has put back the row it holds (`Dates`), are of the same second;
- "abandoned": a job whose process died or whose last statement failed.

Simplifications: EC2 and the CloudWatch costs that go with it are one service; what a report finds is found at once (no refresh delay);
ids, contents and statistics of the reports are left out (they are in `UsageReports`), and so is the advice (in `RiAdvice`); the index of line items of the user exists.

### Accounts and Access

`db` holds the tables `user`, `aws_account`, `shared_account`, `forgotten_password` and, as far as the
deletion of an account is concerned, `aws_bill_repository`.  A handler of this code reads in the snapshot that its
transaction took with its first statement (REPEATABLE READ) and later writes whole rows over what is there by then.  So
each handler is an operator `Handler(b, d, r)`: what request `r`, having read `b`, leaves of `d`.  It is `d` itself where
the handler refuses, and where a statement fails and all is rolled back.  `Begin…` takes the snapshot, `Commit` applies the
handler to the database of that moment.  A row is locked from its UPDATE to its COMMIT, so that write and commit are one
step; only DELETE of an account has two (`DeleteStatement`, `CommitDelete`), because its goroutine (`cleans`, `Clean`) starts between them.
`UpdateShare` and `DeleteShare` write outside the transaction of the check, to the share as it is when they write.
Users, viewers, tokens and bill repositories are inserted by requests that rely on no earlier read: one step each
(`Register`, `PostBillRepository`).  `Ingested` is the end of the task `ingest`, which inserts the
sub accounts of the organisation in a transaction of its own.

Three kinds of failure: a request is rolled back (`Rollback`); the error of COMMIT is ignored by the decorator and the
answer says that it is done (`CommitFails`); the error of an UPDATE is shadowed in `aws/aws.go`, or that of the deletion of a token
only logged in `users/password.go`, and the request goes on (`UpdateFails`).

`raced` and `failed` are history: what two overlapping requests both relied on (`Relied`: a row, the accounts of a user, the shares or the bills of
an account, an email, a token), and what an ignored failure was about.  `meant` is the database that the requests would have left if each had been one step.
The properties are exact about the excuse: a duplicate external id is excused by a race on *that* user, a duplicate
share by a race on the shares of *that* account.  `TablesAreSerial` says that, with neither, the tables are what some serial order leaves.
`SubAccountsOnce` is about the step that inserts: a later PATCH or task may give two accounts one identity without `PutSubAccounts`.

The tables to begin with (`DatabasesAssumption`) are typed, linked by their foreign keys (`Linked`, `db/schema.sql`) and what requests
one after the other leave: an external id is in one place (`GivenOnce`), a guest has one share of an account (`SharedOnce`), and
an account has the identity of its role (`Identified`), but for that of a new user, whose identity the task `update-aws-identity` sets.  `GoneAssumption` says that NULL is no row.

`Access` translates `es/accountsSharing.go`, whose two lists, accounts and indexes, limit every query.
It has no state, and its lists are sets, since the order of accounts and indexes is never looked at; the order of the shares is kept, as it decides whose index an account comes from.
`AccessIsExact` checks it against the rows that grant access, on all small tables.

### UsageReports and UsageQueries

One service is followed over one month.  `StartDaily` and `StartMonthly` start a report, with a goroutine for each region
or, in a monthly report, for each billed resource and region; `Fetch` is the answer AWS gives one of them,
`Merge` moves a value of any channel to the importer, `Import` creates the documents.  `FetchFails` and `BulkFails` are
errors that are only logged.  What the seven services have in common is written once; what each does
in its own way has a definition of its own (`Ec2Monthly`, `EsId`, …): which filter is sent to AWS, what identifies a document,
where a resource that is gone is looked up, which statistics may fail by themselves.  Costs are sets of what is paid for: what matters is whose they
are.

`UsageQueries` adds the answers, as operators on the documents: monthly reports if there are any, else the last daily ones with
the costs of the bills, the aggregations with their default size, the unused resources.  Its properties quantify over every
question in every state.

### Anomalies, AnomalyQueries and CostQueries

A moment is `3 * day + hour`, since the code compares dates of midnight, of line items within the day and of the last second of a day.
`cost` are the bills of each product and day, that come in late or change (`Ingest`).  The task is `Start` (the row and the range of dates), `Fetch` (the analysis),
`Save`, `Recur` (marks of recurrence), `Register`.  The Bollinger bands are compared in integers, squared: no property depends on how a float is rounded.
`docs` is what was written and `shown` what a search finds; the task marks as recurrent what it has written just
before, so `Refresh` may come too late.  `missed` and `blind` are history: days whose document may be behind the bills for good (`PassedBy`), and
documents that were compared before they, or what they would have been compared with (`Outlived`), could be found.

`AnomalyQueries` has the answer to a user: levels, products without an anomaly removed, and each kind of
filter, checked against what its comment says.  `CostQueries` has the four kinds of questions about costs (by criteria, from period to
period, by tags, by buckets of S3) as operators on line items; `CostsAddUp` says that whatever the breakdown the
answer adds up to the line items that the user may read.

### RiAdvice

The end of a run of `process-account` (`StartRun`, `ImportInstances`, `ImportReservations`, `GetRIReport`, `GetEC2Report`, `Advise`), and
the task `fetch-pricings` (`StartFetch`, `FetchRegion`, `SavePricing`), two processes that share the row of `aws_pricing`, while AWS
starts and stops instances, reservations are bought and end, price lists and months change.  `unseen` are reports a search does not find yet.
`published` is history: the price lists there were since a fetch began; `harmed` and `unmade` are the runs that met a failure and those
that made no report.

Simplifications: the report of the month is looked for from the first of the month, as in the code, but a month is a number of runs; hours and months are those of the
constant `HoursPerMonth`.

## 3. Runs

| Run | Bounds | Shows |
|---|---|---|
| `bill_loss` | 1 repository, or 2 on one bucket; 2 periods on 2 pages, 2 workers, time to 3, 1 fault, 2 requests | `TypeOK`, `LossHasCause`, `OrphanHasCause` |
| `bill_rows` | 1 repository, 2 buckets, 1 period, 2 workers, no fault, 2 requests | `LocationHasCause`, `OrphanHasCause`, `PendingJobIsRunning`, `DeletedStaysDeleted` |
| `read_bills` | 3 keys on 2 pages, 2 manifests, 3 reports of 2 records | `PipelineIsSound`, `NothingLeftBehind`, `MissHasCause`, `Returns`, `ImplementsImport` (refinement), no deadlock |
| `scheduler` | 2 tasks, 2 callers, 4 calls of Start and Stop | `TickingIsSound`, `CarefulNeverPanics` |
| `scheduler_ticks` | 2 tasks, 1 caller, 3 calls, careful programs only | `CarefulIsLive` |
| `scheduler_panics` | 2 tasks, 1 caller | finding: the scheduler panics |
| `account_jobs` | 1 account, 2 resources of 1 service, 2 workers, 2 months, 2 tasks of any kind, 1 fault or crash | `LacksHasCause`, `CoverageOnce`, `SheetMissHasCause`, `RowsHaveCause` |
| `account_sheets` | an account and its sub account, 1 resource each, 1 worker, 3 tasks, no fault | `MasterMissHasCause` |
| `accounts` | 4 initial databases, 2 workers, 3 requests, 2 new external ids at most, 1 failure | `TablesAreSerial`, `ExternalOnce`, `SubAccountsOnce`, `ShareOnce`, `AuthorityAtWrite`, `TokenOnce`, `DocsFollowRows` |
| `usage_reports` | 7 services, 3 accounts, 3 inventories of 2 names and 2 regions, 3 days, 2 buckets, 1 failure | `ReportIsWhole`, `ChargesAreOwn`, `AnswersAreTrue` |
| `anomalies` | 2 products, 6 days, a month of 3 and a period of 2 days, 1 failure; all tables of 3 users, 3 accounts and 2 shares; 12 line items | `MarksAreTrue`, `AlertIsAnswered`, `NoneLeftBehind`, `VerdictIsStable`, `AccessIsExact`, `CostsAddUp` |
| `ri_advice` | 4 instances, 2 reservations, 2 regions, 3 price lists, 2 runs, 1 change, failure or end of month | `AdviceIsOfToday`, `SavingIsPossible`, `AdviceIsMade`, `PricingIsWhole` |

Several properties are conjunctions of named parts, each with its own comment in the module: `TickingIsSound` is the types, `StopIsEffective` and
`NoDoubleTicking`; `CarefulIsLive` is `CarefulCallsReturn` and `CarefulTicks`; `PipelineIsSound` the types and `NoSendOnClosed`;
`RowsHaveCause` the types, `ColumnHasCause` and `PendingHasCause`; `TablesAreSerial` the types and `SerialUnlessRaced`; `ChargesAreOwn` the types,
`CostIsOwn` and `VolumesCharged`; `AnswersAreTrue` is `AnswerHasAccounts`, `AnswerIsLast`, `AnswerCounts` and `UnusedAreUnused`;
`MarksAreTrue` the types, `RecurrentIsReal` and `MarkHasCause`; `AccessIsExact` is `AccessIsGranted` and `CountedOnce`.
`RiAdvice` alone has no type invariant among its runs: `PricingIsWhole` says of the row of prices all there is to say of its form.

Why these bounds are enough to mean something.

*Bills.*  Two workers are what every overlap needs,
and a worker that has ended may start again, so that jobs follow each other
without bound within the clock.  Two pages are needed for a rewrite behind the listing, three
units of time for an import, a rewrite and a second import that must see it; `Month` and `Interval` are one unit,
so that both "newer than a month ago" and "due" change within the clock.  Two
requests are a POST and a PATCH or DELETE, or two POSTs.  `bill_loss` stops exploring
when every repository is at risk (`Untainted`), since its
invariants say nothing after that; the bills of the second page, whose part is to be on another page than the first, are rewritten until
one version is invoiced and not after it (`SecondIsFinal`); a job row that a dead process left expires before the next task (`ExpiresFirst`: no
task looks at it).  A second repository is there for what the periodic task does with two, and for twins on one bucket:
it is followed while the periodic task alone works on the first period, up to the second unit of time (`TwinsAlone`).  `bill_rows` stops where a second deletion
would wait for ElasticSearch (`OneClean`).  A second bucket matters to locations only, a second period to pages only;
`bill_rows` and `bill_loss` have one of each.  Three keys of `read_bills` are two
manifests and another object; a report of two records can fail after its first.

*Scheduler.*  Two tasks make `append` move the first registration once, four calls
allow Start, Stop, Start, Stop.

*Accounts' tasks.*  Two tasks of one account are what an overlap, or a look-up between the import and the flag of another, needs; a report that reaches the master spreadsheet
takes three, a job, a spreadsheet and a master spreadsheet, and the sub account is where it comes from.  Two resources allow a report to have one and lack the other.
In `account_jobs` each month is one unit of time, and the first one a day on which the file is misnamed, so that both months and both names occur; `account_sheets` has two units in one month, so that "later" and "in the same second" occur.
Overlaps of three tasks, which `MasterMissHasCause` mentions, are not among the runs, as the space is too large with a sub account; the theorems of `AccountJobsProofs` have no such bound.

*Tables.*  Every race of `accounts` is of two requests, and its harm may need a third request to show (a share that is removed and
leaves its double).  `Focus` follows a third request where it may meet another or two have met already, without a failure, and not if it is
one that writes its own row only; each initial database is there for one group of requests (a user with a token and an external id; a payer with bills and
an organisation; an account and a sub account without a role; a share), and those with shares or two accounts are followed with the requests on them.

*Usage.*  Two buckets stand for the ten of ElasticSearch: with three accounts and three days both aggregations overflow.
The three inventories are three accounts, for the answers; namesakes in two regions, for the ids; two resources in one region, one of them busy, and one without a zone, for the costs.
`Focus` lets the first day and the monthly report fail, later days are like the first; the inventory of three accounts has no failures.

*Anomalies and costs.*  Six days are two months of three, so that something can come back, and a period of two days that begins before the first.
The costs grow to one of two histories: a spike that comes back, also on a day when both products cost the same, and days without any cost.  Bills of a day come in on the day, or one at
a time any time later; the hour of line items other than midnight, and a failure, go with the first history only, and detections start on the days 4 and 6
(`Focus`): early enough for a second one, late enough for a month to pass.  The tables are all there are of up to three accounts and two shares of three users, the first account being
given by symmetry.  In `MCSpan` a week of 4 and a month of 6 units of two-unit days begin at different days, so that periods do not nest; the line items include a
refund, a tax, an account added by two users, a tag without a value, and usage of S3 of each kind.

*Advice.*  Three fleets and three sets of reservations are, together with a change, every way for an instance to be covered, not covered, stopped or of a previous
generation; one of the price lists has an item that cannot be read, one has no three-year term.  One event (a change, a failure or the end of a month) happens in a
behaviour (`OneEvent`), and `fetch-pricings` runs beside a run when it reads the prices and alone otherwise (`Apart`).

Checking of deadlocks is off for all but `ReadBills`: clocks and numbers of requests and calls end, and a call of the scheduler may really hang.

Fairness.  `ReadBills`: weak fairness of a step of any kind; every step moves a
value or ends a goroutine, so the runtime only has to run something.
`Scheduler`: weak fairness of each goroutine and of each call that holds the mutex, tickers
that tick and tasks that end; strong fairness of the reception of a stop, because `select` chooses
among ready channels at random, so that a ticking goroutine cannot overlook a waiting `Stop` for ever.
No fairness is needed of the callers.  The other modules have none: their
properties are safety properties.

`CarefulNeverPanics` and the liveness properties are about careful programs:
tasks are registered while the scheduler is stopped and the goroutines of the
last `Stop` have returned, and `Start` waits for them too.  `server/server.go` is such a program: it
registers one task, starts, and never stops.  `scheduler_panics` shows what happens otherwise.

## 4. Findings

`scheduler_panics` (`NeverPanics`): "It may be used in parallel" (`periodic/tasks.go:60-62`), but uses exist that panic.

The other runs pass because their properties name the situations below, which the modelling brought to light.
Those of the first list are what a cause, an excuse or an exception in a property stands for:

- a task writes back the row it read before its import and undoes a
  PATCH made meanwhile (`server/taskIngest.go:175`, `models/awsbillrepository.go:45-58`);
- "ReadBills reads all LineItems from new bills" (`aws/s3/readBills.go:134-135`),
  but a page, manifest or report that fails is skipped and counts as imported (`MissHasCause`);
- `CheckBillingDataCompleted` (`aws/usageReports/history/history.go:187-188`)
  answers true as long as no open line item is there, so also before and in the middle of an import (`LacksHasCause`);
- the early return of `UpdateDueReports` leaves goroutines that send on a closed channel (`aws/s3/ingestBills.go:82-88`);
- the map of errors is declared again in an inner scope, so that a failed upload counts as made
  (`reports/report_generation.go:89,121`), and on the 29th to 31st a file may get the name of another month than its data (`reports/report_generation.go:144`);
- an error that is shadowed in `aws/aws.go` makes a failed PATCH of an account answer success;
- two invitations, two POSTs with one external id, two resets with one token or two ingestions at once all pass their checks
  (`ShareOnce`, `ExternalOnce`, `TokenOnce`, `SubAccountsOnce`);
- a cache cluster may be charged for any cluster of its region (`CostIsOwn`), and databases, domains, clusters and functions
  of one name in two regions share one document (`ReportIsWhole`);
- of more than ten accounts or days some are not told, or an old report is (`AnswersAreTrue`);
- the number of unused ElasticSearch domains that is asked for is compared with the number of all domains, not of the unused ones (`usageReports/es/prepare_response.go:217`);
- marks of recurrence depend on whether ElasticSearch has refreshed (`MarksAreTrue`), and on a detection of the same day being done again;
- the weekday filter subtracts one from a weekday whose Sunday is zero, so that Sunday is never selected (`costs/anomalies/anomalyFilters/weekDay.go:31`);
- an account without any reservation ever has no index of reservations, and gets no advice (`AdviceIsMade`); for a previous generation a new type is advised with
  the prices of the old one (`onDemandToRI/ec2/report.go`).

Read in the code, outside what the runs check: the headings of the cost-difference tab have a variation of the first day that its rows do not have
(`reports/cost_diff.go:72-77,115`); `TaskDiffData`, `getEC2Report` and `getEC2Pricings` end their transactions with their context only; an index
that does not exist turns the whole answer into an empty one with status 200; `models/awsaccountstatus.go:33` passes a joined string
to `IN (?)`.

## 5. Proofs

`BillIngestionProofs` is about `BillIngestion`, for any constants that satisfy its two
assumptions: natural numbers for the bounds, and markers (no row, no
transaction, ...) that are not values of the sets they are added to.  `Structure` is inductive: `TypeOK`, plus `OneEach` (an idle worker works on
nothing, and only the periodic task, doomed or not, on more than one repository), plus `TxOwner` (an uncommitted row belongs to a
request still being served, which still has its import).  `TypeOK` alone is not inductive: the commit of a
row copies the bucket of its owner's import into `asked`, and would have nothing to copy without `TxOwner`.
There is one lemma for each action; `StructureNext` puts them together.
`KeepsImports`, which the lemmas of the import also conclude, says that a step of an
import changes neither who works on what nor the row that was read.  `DieStep` serves both the crash and the panic of a set of workers.

- `StructureHolds`, `TypeCorrect`: `Spec => []Structure`, `Spec => []TypeOK`.

Its second part, on rows and jobs, first proves what *any* step may do to one variable
(`RowsChange`, `JobsChange`, `TxChange`, `AskedChange`, `CauseKept`, `UsedGrows`), and to one worker
(`WorkerChange`: it goes on, begins, ends or dies).  The theorems then need no list of actions:

- `DeletedForGood`: `DeletedStaysDeleted`.  A row that is gone can only change by a commit, which needs a lock, or by a
  task, whose UPDATE of no row is no row.
- `PendingRuns`: `PendingJobIsRunning`.  Needs `OneEach`: a task ends with its own job completed because it has one repository only.
- `LocationKept`: `LocationHasCause`.  The invariant says that, while nothing has put a repository at risk, at most one
  worker is on it, its row is where the user put it, a task's copy of the row agrees, and an
  uncommitted row agrees with the request that wrote it.  `IdsInUse` (unconditional) says that nothing refers to an id that was never given
  out; without it a POST could meet an import of the repository it creates.

Its third part proves the two properties that relate the index, S3, the rows and the tasks.
The invariant, `LossInv`, has an unconditional part (`Clocked`: nothing is dated after now; `DocsInUse`: documents and deletions name ids
that were given out) and, for each repository without a recorded cause, `RepoInv`:

- `LastImported`: what the row counts as imported is in the index (`Lost` holds of nothing), unless a deletion of it all is under way;
- `DocsLocated`: its documents come from its location, unless they are about to be cleaned;
- `WorkerInv`, about the one worker it may have: the location of its row and of its task agree (`LocatedAt`), and of an import (`TaskImport`)
  the task's copy of the row is the row (`TaskRow`), what is seen is as S3 has it (`SeenAsIs`), what changed since the row's date is seen, left or written (`LeftOrWritten`), a month that
  is being written was cleaned (`MonthCleaned`), and before the listing ends nothing was (`NothingWritten`).

The two properties speak of a repository at rest only and are far from inductive: they are broken or kept long before, by the step that lists too early or
cleans the wrong month.  TLC checks `LossInv` on the instances of the runs `bill_rows` and `bill_loss` as well.
`Quiet(r)` is what a step does that does not concern repository `r`; `QuietKeeps` is proved once, `QuietOrNot` says which
steps are not quiet, and there is one lemma for each of those (`PublishKeeps`, `ListPageKeeps`, `CleanMonthKeeps`, ...).

- `LossInvHolds`: `Spec => []LossInv`.
- `LossExplained`: `LossHasCause`.  `OrphansExplained`: `OrphanHasCause`.

`ReadBillsProofs` is about `ReadBills`, for any objects, pages, manifests, reports and numbers of records: `ReadBillsAssumption`
only says that the constants have their types.  `Pipeline` is inductive.  Besides the types it says in which order the
channels are closed (`CloseOrder`); that nobody holds a value for a closed channel, and that none will, which for the line items takes the
readers still at work (`Drained`: `NoSendOnClosed` alone is not inductive, since a reader may take its next record after it);
what the stage of a key says about it (`Sorted`); which line items of a report its goroutines have handed over (`Reading`); and the promise so far (`LatestTaken`).
`KeyMoves` and `ReportMoves` are what the steps of one key and of one report have in common.  From it:

- `PipelineSound`: `PipelineIsSound`, no send on a closed channel.
- `NothingIsLeftBehind`: `NothingLeftBehind`, and `MissesHaveCause`: `MissHasCause`; both from `AllDone`: at the return no goroutine holds anything.
- `ImportImplemented`: `ImplementsImport`, the refinement.  Taking a manifest, a call of the handler and the last flush are the three steps of
  `BillImport`; every other step leaves alone what the caller sees.

`SchedulerProofs` is about `Scheduler`, for any finite set of tasks, any callers and any numbers of calls.  That the tasks are finitely many is an
assumption of the model (`SchedulerAssumption`), as that nil is no channel (`NilAssumption`).  `SchedulerInv`, which TLC checks on the instance of the run
`scheduler` as well, has one part for each thing the goroutines share:

- `SliceInv`: a task is in the slice once; `CallInv`: only the holder of the mutex is in a call, between the two ends of the slice;
- `NamesInv`: the ticks of a task are used in their order, one for each `Start` at most, so that the bound on names is never met;
- `CellsInv`, `TickInv`: a goroutine finds its own channel in the memory it points to until it forgets it, and while it ticks also in the slice, whatever `append` has copied since.
  This is why `Start` never starts a task twice and why `Stop` finds all that ticks;
- `StopInv`: what `Stop` has gone through does not tick;
- `CarefulInv`, used with care: the slice has no stale copies, only tasks that the last `Stop` has gone through are stopping, and a sender has somebody who will receive.

One lemma for each part says that a step keeps it; `CarefulInv` has one for each kind of step.

- `SchedulerInvHolds`: `Spec => []SchedulerInv`.
- `TickingSound`: `TickingIsSound`; no double ticking since both goroutines have the channel that is in the slice.
- `CarefulIsSafe`: `CarefulNeverPanics`.

`AccountsProofs` is about `Accounts`, for any initial tables that satisfy `DatabasesAssumption`, any workers and any numbers of requests and failures.
It has three layers.

- *Handlers.*  `Moves(b, d, e, r)` bounds what request `r`, having read `b`, may do to `d`, column by column; there is one lemma for each of
  the sixteen handlers (`PutSubAccountsMoves`, ...).  From it follow types, foreign keys and `Older` (`MovesOlder`): ids stay, what is gone stays so, and an
  owner, or the account and the guest of a share, never change.
- *Snapshots.*  `Core` is inductive: the tables are typed and linked, and every request that is served (`Serving`) has a snapshot that is
  `Older` than the tables, relies on what its handler reads (`Relies`), and finds what it relies on as it read it (`Same`) but for what is in `raced`; what two requests both rely on is in `raced`.
  The step that matters is that a write touches only what its own request relies on (`MovesSame`), so that it disturbs another request's snapshot only where they have raced.
- *Handlers again.*  On a snapshot that is `Same`, a handler does what it would do in the present (`HandledSame`).

`Steps` says what a step may be (a request begins, answers, switches from import to sub accounts, is done at once, or leaves the tables alone), so that the
theorems need no list of actions:

- `CoreHolds`: `Spec => []Core`.  `TablesAreSerialHolds`: `TablesAreSerial`, with `Ids` (history and documents name rows there were) and `SerialInv`, which adds
  that roles and identities agree (`Identified`) in the tables, and that no account of the configuration is hidden from a running `update-aws-identity` (`Unseen`): the task
  skips accounts added after its snapshot, which is right only as they have the identity of their role already.
- `TokenOnceHolds`: `TokenOnce`, with `Used`: a token that has changed a password is gone.
- `ShareOnceHolds`: `ShareOnce`; only an invitation adds a share, of a guest who had none.
- `ExternalOnceHolds`: `ExternalOnce`.  `ExternalsInv` speaks of all `Versions`, the tables and the snapshots of all requests: an id that is spent in the tables may
  still be the next one in a snapshot and come back with a whole row, which is then a race on its user.  Ids that are about to be given are in none of the versions.
- `SubAccountsOnceHolds` and `AuthorityHolds`: the action properties `SubAccountsOnce` and `AuthorityAtWrite`, from `Core` alone.
- `DocsFollowRowsHolds`: `DocsFollowRows`.  The property exempts moments at which a deletion is not committed; `DocsInv` says what holds in them.

`AccountJobsProofs` is about `AccountJobs`, for any accounts, masters, services, tasks and bounds.  `AccountJobsAssumption` gives the constants their types;
what the proofs need beyond that is that the workers are finitely many, to count what they may still do.

`Moves(w)` bounds what a step of a task may do: to itself (`Goes`), to the jobs (`JobsMove`: they stay, one begins, ends, or is stamped), to the rows
(`RowsMove`), to the reports (`ReportsMove`), to the files (`FilesMove`), and on the way from the bills to a report (`BillsMove`).  One lemma for each action says that it `Moves`; what else happens is that a task
begins (`Begun`), the ingestion works, a registration fails, or the clock ticks.  The invariants are then proved from these few cases:

- `Core`: types; `ShapeInv` (where a task of each kind may be, and when it has a job); `JobsInv` (its job is its own, and completed after its stamp only); `Clocked`; `Counted` (the jobs and coverage
  reports that are there or still to come are no more than the tasks started, so that the types hold at the bounds); `Overlap` (tasks at work on an account have met).
- `CopyInv`: the row that a task holds is as the other tasks wrote it, or the one that wrote in between has met it.
- `CoverageInv`: a task about to import the coverage has found none, and nobody has imported it since.
- `BillsInv`: a task that took the bills for complete works on bills that are final, of which it has seen all that its service is charged for.
- `SheetInv`: the property is about the date in the row, but a task may put back an older one.  `SheetDated` therefore speaks of all `Dates` of the column, in the row and in the hands of tasks: for each of them the
  spreadsheet is due, a job is about to make it due (`Making`), or the file has the reports; `SheetHeld` follows the reports from `Generate` to the date.
- `MasterInv`: the same for every pair of a date of the master spreadsheet and one of the spreadsheet of each account of it.  It needs that a spreadsheet about to be dated gets a date that no
  date of the master spreadsheet is later than (`MasterLater`), which is what makes the master spreadsheet due again.

TLC checks these invariants on the instances of the runs `account_jobs` and `account_sheets` as well.  The proof of `SheetInv` corrected the model: a task that holds the date of a spreadsheet may put it
back after a job has completed in the very second of that date, when the row had another one, and the reports of the job then miss the spreadsheet.  TLC shows it with four tasks, three of them at a time; the runs have two.
This is why "second" in `spoilt` looks at all `Dates`.

- `CoreHolds`: `Spec => []Core`.  `RowsHaveCauseHolds`, `CoverageOnceHolds`, `LacksHasCauseHolds`, `SheetMissHasCauseHolds`, `MasterMissHasCauseHolds`: the properties of the same names.

`RiAdviceProofs` is about `RiAdvice`, for any instances, reservations and price lists: `AdviceAssumption` says that the things are finitely many, that an
instance has a type and a zone in a region, that a reservation of a zone is of its region, and that prices are natural numbers where there are any.

What a report contains is computed by `FoldLeft` over answers of any length, and by `MapThenSumSet` over its lines.  The prover cannot instantiate the induction theorems of its library, which take an operator,
but these folds are functions on the subsets of a finite set: `SubsetInduction` is induction over those as a statement about a *set* of subsets, from the well-foundedness
of `<` and cardinality; `Recursion` has it that such a definition has a solution; `LeftRecursion` and `SumExists` are the two uses of it.  `Total` is a sum with laws
(`TotalAdd`, `TotalSplit`, `TotalLe`, `TotalTight`, `TotalImage`, ...) that the proofs use instead of the fold.  For each fold of the model one lemma says
what it does: `Added` (the items of a region, one after the other), `OneByOne` (the instances, each taking what those before it have left), `CountIsTotal` and `TodayIsTotal` (sums).

`TodayInv` is the inductive invariant:

- `MadeInv`: a run that has given up is over (`RunsInv`), so that no later report is of an earlier run, and it has a reason; the first prices that are saved count as a reason for all runs before them.
- `PricingInv`: what `fetch-pricings` has so far are all prices of the regions it has read, each of one of the lists since it began, unless an item was not understood.
- `ReportsInv`: no run has reports before it begins.  `ReadsInv`: what a run has read is what it wrote itself, unless that was empty or `hidden`; it may be an older report only then.
- `LastInv`: the last advice is of a run that is over, so that its reports do not change any more; `AdviceInv` is what the two properties say of it.

The lemma behind `AdviceIsOfToday` is `UnreservedIs`: with `n` instances of a specification seen so far, those that were not reserved and what was taken of its reservations are `n` together, and
none counts as not reserved while anything is left (`Balanced`); each instance keeps that (`ReserveBalanced`), whichever reservation it takes and whatever the order of the two answers.  It holds as a reservation of a
zone is used by all zones of its region (`MatchesIs`): were it not, the order would matter.  `ReportPossible` is the arithmetic of the savings.  TLC
checks `ReportsInv`, `ReadsInv` and `LastInv` on the instance of the run `ri_advice` as well.

- `AdviceMade`: `AdviceIsMade`.  `PricingWhole`: `PricingIsWhole`.  `AdviceOfToday`: `AdviceIsOfToday`.  `SavingPossible`: `SavingIsPossible`.

`AnomaliesProofs` is about `Anomalies`, for any finite set of products, any days, costs and number of failures, and any length of the month, of the band and of its parts.
The properties speak of what one detection does, but what makes them true are the dates of the one before.  `CoreInv` therefore says how the dates fit together (`DatesInv`: a detection
ends no earlier than the last one, and there is a line item before its end), that what was read has the dates of the detection and all later days of each product (`DataInv`), and that only
days with line items have documents of a cost (`ValuesInv`).  `DataIs` is the lemma about the analysis: of each day it returns the cost and the verdict on the days before (`BeforeIs`); `FoundIs`, `FirstBucketIs` and `MinIs` find the first
day of a query, by the well-foundedness of `<`.  Three invariants rest on it:

- `MarksInv`: while a detection has yet to look for marks, the documents it has just written (`Fresh`) may lack theirs; all others have the mark they should.
- `SettledInv`: what is told of the days that no detection will analyse again (`SettledIn`: more than a month before the last one) is what they cost, and of the first detection that no document is
  before its dates.  `NoneLeftBehind` is about a day of any age at one step: for the days the step does not read it holds only because of this.
- `VerdictsInv`: of each document, written, found or about to be written, the verdict is the function `Verdict` of the costs of the day and the days before, where nothing ties and no cost is missing (`Plain`).

TLC checks `CoreInv`, `MarksInv`, `SettledInv` and `VerdictsInv` on instances of 3 million states.  The proofs corrected the history of the model twice.  After a first detection that failed, a bill of an earlier day makes the next one end
before documents that are there, whose marks then speak of replaced documents (`Outlived`); and a bill of an earlier day that comes in
between the choice of the dates and the reading of the costs is passed by at once (`PassedBy`).  Both need more days and failures than the run `anomalies` had shown.

- `MarksHold`: `MarksAreTrue`.  `NoneLeftBehindHolds`: `NoneLeftBehind`.  `VerdictIsStableHolds`: `VerdictIsStable`.

The rest of the module is about the answers, which are functions of the documents, of the tables of accounts and shares, and of the line items.  `QueriesAssumption` says of the constants that rows and shares refer to
rows there are, that levels are increasing and filters have a rule there is; `LineItemsAssumption` that line items are finitely many, that a tag has one value on a line item, and that a usage type of
S3 is of one kind (storage, requests, traffic in or out).  The last two are not checked by the code: were they wrong, a cost would be counted twice.  The folds of the model are unfolded by one lemma each, that has the results one by one
(`MatchedOneByOne` for a list of accounts, `CriterionByCriterion` for criteria, `RequestByRequest` for the four requests of S3), and by `SubsetInduction` as in `RiAdviceProofs`.

- `AccessHolds`: `AccessIsExact`, and the same in every state and for lists of any length (`AccessOfAll`).  The argument is that each account of an answer comes from exactly one index (`Sourced`): a function from accounts to users that is
  kept by every row that is added (`IsSourced`).  Two indexes of an answer therefore serve two accounts.
- `AlertHolds`: `AlertIsAnswered`.  A cost that reaches a level reaches the lower ones (`LessIsReached`), so that the first level it does not reach tells the highest it does (`LevelIsHighest`).  This needs that
  the upper band grows with the factor, which holds as a variance is not negative (`SigmaIsNat`: the sum of squares is at least the square of the sum over the number of days).
- `CostsHold`: `CostsAddUp`, and the same for lists of any length (`CostsOfAll`).  Each line item is in one bucket of each criterion (`DivBetween` for days, weeks, months, years) and so in one of the nested buckets (`NestedPartition`),
  and the costs of classes add up (`TotalPartition`, `CostsOfClasses`); `VariationIs` is the sign of a variation, `TagAddsUp` has that a line item has one value of a tag, `BucketIsTold` what the four requests leave in a bucket of S3.

The proof of `AlertHolds` corrected the property: a user who may read the account in the indexes of several users is answered from one of them, the user's own or that of the first share, which may be the one without the documents.  `Reads`
therefore asks for users who have the account in the index of `Owner` only.  The run had not shown it, as in its tables the only guest with two shares had the share of `Owner` first.

`UsageProofs` is about `UsageReports` and `UsageQueries`, for any services, inventories, statistics, numbers of days and failures.  `UsageAssumption` says what the proofs need of the constants:
accounts and the resources of each are finitely many, and a region, which names a goroutine of a daily report, is not a pair of a resource and a region, which names one of a monthly report.
`UsageInv` is the inductive invariant:

- `Fixed`: types, and nothing is deleted before the month has ended.
- `JobInv`, of the report that is being made: its goroutines are those that wait and those that have their channels; all that they have sent, be it in a channel or received (`Obtained`), is `Right`: a resource
  of the account with the costs of one `Payer` only.  What the report is to have (`Promised`) is still waited for in one place (`Home`), or has been sent, unless something failed.
- `DocsInv`: one document for each key, and of each document what `ChargesAreOwn` says.
- `HistoryInv`: `ReportIsWhole`.  Neither property is inductive: they speak of reports that are over, and `JobInv` is what makes them true when one ends.

What the goroutines of each service send is one lemma for each service (`Ec2Sends`, ..., `MonthlySends`, `SentIs`); `SendAllIs` has it that a set is sent as a sequence with the same values, `Appended` that receiving a value
changes nothing of what is obtained, `CreateIs` what the bulk does to the index when keys collide, and `MadeIs` what becomes of a document on its way.

The answers are functions of the state, and `AnswersAreTrue` follows from `UsageInv`.  `BucketsAre` says that buckets are all or `MaxBuckets` many, `LastIs` that of the dates of an account the last is told (or there are too many),
`AddCostIs` what a daily document says of its costs.  `SortingExists` is why the unused resources can be sorted, by taking the one that costs most out of a finite set again and again.
For the proofs two definitions were rewritten, with the same states: `Create` without a fold, and `Sorted` as *a* sequence in the order of the costs, which is all that is known of resources that cost the same
(the order in which ElasticSearch returns them is no part of the model).

- `ReportsAreWhole`: `ReportIsWhole`.  `ChargesAreTheirOwn`: `ChargesAreOwn`, types included.  `AnswersHold`: `AnswersAreTrue`.

With this, every invariant and every action property that a run checks is a theorem.  Only model-checked is liveness: `Returns` of `ReadBills` and `CarefulIsLive` of `Scheduler`, and that
the goroutines of `ReadBills` never wait for each other.  Weak and strong fairness speak of ENABLED, which the prover does not handle.

## 6. Not modelled, and the plan

Not modelled, and why:

- HTTP routing, decorators but for the transaction, documentation and CORS, configuration, mail, CSV and JSON decoding, generated models: no state between calls, or one statement each.  GET routes that only read a table (accounts with their status, repositories, jobs) are left out.
- What is in the tabs of a spreadsheet, in a coverage report and in the result of a plugin: layout and arithmetic on answers of AWS, once the reports they come from are there.
- Snoozing an anomaly and setting filters: one row written by one request, and mails.
- The limit of 10000 documents of a query (`queryMaxSize`), and the padding of the cost of anomalies, which the range of dates makes unreachable.
- `taskCheckCost`: an estimate that is printed.

The plan that is left, in this order:

1. The requests of `Accounts` composed with the index of `BillIngestion`, instead of one set of documents for each repository.
