--------------------------- MODULE BillIngestion ---------------------------
(***************************************************************************)
(* The ingestion of AWS Cost And Usage Reports: the bill repositories of   *)
(* MySQL, the line items of one user's ElasticSearch index, and the        *)
(* processes that move the bills of an S3 bucket into the index:           *)
(*                                                                         *)
(*   - the HTTP handlers that create, change and delete a repository, each *)
(*     with the goroutine it leaves behind (aws/s3/billRepository.go);     *)
(*   - the periodic task 'ingest-due' (server/taskIngestDue.go);           *)
(*   - the command line task 'ingest' (server/taskIngest.go).              *)
(*                                                                         *)
(* Each of them ends in ReadBills (aws/s3/readBills.go).  The channels of  *)
(* ReadBills are the subject of module ReadBills; here one call is a       *)
(* listing, a cleaning request and one write per billing period.           *)
(***************************************************************************)
EXTENDS Integers, FiniteSets

CONSTANTS
    Repos,        \* the ids aws_bill_repository may hand out
    Buckets,      \* the S3 locations (bucket and prefix)
    Periods,      \* the billing periods, one manifest and one line item each
    Page,         \* the page of the S3 listing a period's manifest is on
    Workers,      \* tasks and request goroutines, each runs one job at a time
    Month,        \* what AddDate(0, 1, 0) adds, in clock units
    Interval,     \* the delay before the next update, in clock units
    MaxTime,      \* bound on the clock
    MaxFaults,    \* bound on the number of faults and crashes
    MaxRequests,  \* bound on the number of HTTP requests
    NoRow, NoTx, Gone, NoDoc, NoImport

ASSUME BillIngestionAssumption ==
    /\ Month \in Nat \ {0}
    /\ Interval \in Nat
    /\ MaxTime \in Nat
    /\ MaxFaults \in Nat
    /\ MaxRequests \in Nat
    /\ Page \in [Periods -> Nat \ {0}]

VARIABLES
    now,      \* the clock of S3 and of the server
    s3,       \* the manifest of each period in each bucket
    rows,     \* aws_bill_repository, committed
    used,     \* the ids AUTO_INCREMENT has given out
    tx,       \* the uncommitted write of an HTTP request, which locks its row
    jobs,     \* aws_bill_update_job rows of running tasks, not completed
    stuck,    \* repositories with a job row a crashed task left incomplete
    es,       \* the line items of the index
    cleans,   \* the delete-by-query tasks ElasticSearch still has to run
    job,      \* what each worker is doing
    imp,      \* the repositories each worker is working on
    faults,   \* history: number of faults so far
    requests, \* history: number of HTTP requests so far
    asked,    \* history: the location the user last set on a repository
    cause     \* history: what first put a repository's line items at risk

dbVars   == <<rows, used, tx, jobs, stuck>>
esVars   == <<es, cleans>>
histVars == <<faults, requests, asked, cause>>
vars     == <<now, s3, dbVars, esVars, job, imp, histVars>>

Times   == 0 .. MaxTime
Version == [mod : Times, inv : BOOLEAN]
Row     == [bucket : Buckets, lim : Times, next : 0 .. MaxTime + Interval, err : BOOLEAN]
Item    == Buckets \X Periods
Doc     == [repo : Repos, inv : BOOLEAN]
Clean   == [repo : Repos, kind : {"all", "month"}]
Phase   == {"asked", "cleanAll", "access", "read", "awsError", "failed", "over"}
Import  == [pc : Phase, br : Row, listed : SUBSET Periods, cleaned : BOOLEAN,
            seen : [Periods -> Version], left : SUBSET Periods, lm : Times]
Routes  == {"post", "patch", "delete"}
Periodic == {"due", "doomed"}
Tasks   == {"cli"} \cup Periodic
Causes  == {"none", "overlap", "late", "paged", "tie", "twin", "fault"}

\* The markers are values of their own.
ASSUME MarkersAssumption ==
    /\ NoRow \notin Row /\ Gone \notin Row
    /\ NoTx \notin [by : Workers, row : Row \cup {Gone}]
    /\ NoDoc \notin Doc
    /\ NoImport \notin Import

Absent == [mod |-> 0, inv |-> FALSE]

MaxOf(a, b) == IF a >= b THEN a ELSE b

Fault == faults < MaxFaults /\ faults' = faults + 1

\* Only the first thing that puts a repository's line items at risk is kept.
Blame(r, why) ==
    cause' = IF cause[r] = "none" THEN [cause EXCEPT ![r] = why] ELSE cause

InFlight(r) == \E w \in Workers : imp[w][r] # NoImport

Unlocked(r) == tx[r] = NoTx

HasLocked(w, r) == tx[r] # NoTx /\ tx[r].by = w

-----------------------------------------------------------------------------
(* AWS: Cost And Usage Reports appear and are rewritten in the buckets.    *)

Tick == /\ now < MaxTime
        /\ now' = now + 1
        /\ UNCHANGED <<s3, dbVars, esVars, job, imp, histVars>>

\* A rewritten manifest on a page that a running listing has passed.
Paged(r, b, p) == \E w \in Workers :
    /\ imp[w][r] # NoImport
    /\ imp[w][r].br.bucket = b /\ p \in imp[w][r].listed /\ imp[w][r].listed # Periods

\* LastModified has a resolution: the new manifest is not After the last one.
Tied(r, b) ==
    \/ rows[r] # NoRow /\ rows[r].bucket = b /\ rows[r].lim = now
    \/ \E w \in Workers : /\ imp[w][r] # NoImport
                          /\ imp[w][r].br.bucket = b
                          /\ imp[w][r].lm = now \/ imp[w][r].br.lim = now

\* AWS rewrites the manifest of a period until it is invoiced.
Publish(b, p) ==
    /\ ~s3[b][p].inv
    /\ now > 0
    /\ \E inv \in BOOLEAN : s3' = [s3 EXCEPT ![b][p] = [mod |-> now, inv |-> inv]]
    /\ cause' = [r \in Repos |-> IF cause[r] # "none" THEN cause[r]
                                 ELSE IF Paged(r, b, p) THEN "paged"
                                 ELSE IF Tied(r, b) THEN "tie" ELSE "none"]
    /\ UNCHANGED <<now, dbVars, esVars, job, imp, faults, requests, asked>>

-----------------------------------------------------------------------------
(* ReadBills, run by a worker for a repository as it was read from MySQL.  *)

NewImport(pc, br) ==
    [pc |-> pc, br |-> br, listed |-> {}, cleaned |-> FALSE,
     seen |-> [p \in Periods |-> Absent], left |-> {}, lm |-> 0]

\* manifestsModifiedAfter(LastImportedManifest), with and without the month.
ModifiedAfter(br, mod, oneMonthBefore) ==
    IF oneMonthBefore THEN mod + Month > br.lim ELSE mod > br.lim

\* A bug: only the incomplete bills of the old location are removed.
CleanOldMonth == "month"

CleanOldBills == "all"

\* es.CleanByBillRepositoryId: the request only queues the deletion.
CleanAll(w, r) ==
    LET i == imp[w][r] IN
    /\ i # NoImport /\ i.pc = "cleanAll"
    /\ imp' = [imp EXCEPT ![w][r].pc = IF job[w] = "delete" THEN "over" ELSE "access"]
    /\ \/ /\ cleans' = cleans \cup {[repo |-> r, kind |-> CleanOldBills]}
          /\ UNCHANGED <<faults, cause>>
       \/ /\ Fault /\ Blame(r, "fault")
          /\ UNCHANGED cleans
    /\ UNCHANGED <<now, s3, dbVars, es, job, requests, asked>>

\* getBulkProcessor and getServiceForRepository: only the errors of the AWS
\* SDK are awserr.Error.
Access(w, r) ==
    LET i == imp[w][r] IN
    /\ i # NoImport /\ i.pc = "access"
    /\ \/ /\ imp' = [imp EXCEPT ![w][r].pc = "read"]
          /\ UNCHANGED faults
       \/ /\ Fault
          /\ \E pc \in {"awsError", "failed"} : imp' = [imp EXCEPT ![w][r].pc = pc]
    /\ UNCHANGED <<now, s3, dbVars, esVars, job, requests, asked, cause>>

NextPage(i) ==
    {p \in Periods \ i.listed : \A q \in Periods \ i.listed : Page[p] <= Page[q]}

\* One page of ListObjectsV2 and the download of the manifests it names;
\* selectManifests keeps the latest LastModified of those it lets through.  A
\* manifest that cannot be read is logged and dropped.
ListPage(w, r) ==
    LET i    == imp[w][r]
        page == {p \in NextPage(i) : /\ s3[i.br.bucket][p].mod # 0
                                     /\ ModifiedAfter(i.br, s3[i.br.bucket][p].mod, TRUE)}
        Keep(kept) == \E lm \in Times :
            /\ lm = i.lm \/ \E p \in kept : lm = s3[i.br.bucket][p].mod
            /\ lm >= i.lm /\ \A p \in kept : lm >= s3[i.br.bucket][p].mod
            /\ imp' = [imp EXCEPT ![w][r] =
                   [i EXCEPT !.listed = @ \cup NextPage(i),
                             !.seen   = [p \in Periods |-> IF p \in kept THEN s3[i.br.bucket][p]
                                                                         ELSE i.seen[p]],
                             !.left   = @ \cup kept,
                             !.lm     = lm]]
    IN
    /\ i # NoImport /\ i.pc = "read"
    /\ i.listed # Periods
    /\ \/ Keep(page) /\ UNCHANGED <<faults, cause>>
       \/ \E p \in page : Keep(page \ {p}) /\ Fault /\ Blame(r, "fault")
    /\ UNCHANGED <<now, s3, dbVars, esVars, job, requests, asked>>

\* An error of the listing is logged; what was listed so far is imported.
ListFails(w, r) ==
    LET i == imp[w][r] IN
    /\ i # NoImport /\ i.pc = "read"
    /\ i.listed # Periods
    /\ imp' = [imp EXCEPT ![w][r].listed = Periods]
    /\ Fault /\ Blame(r, "fault")
    /\ UNCHANGED <<now, s3, dbVars, esVars, job, requests, asked>>

\* es.CleanCurrentMonthBillByBillRepositoryId: its error is ignored.
CleanMonth(w, r) ==
    LET i == imp[w][r] IN
    /\ i # NoImport /\ i.pc = "read" /\ ~i.cleaned
    /\ imp' = [imp EXCEPT ![w][r].cleaned = TRUE]
    /\ \/ /\ cleans' = cleans \cup {[repo |-> r, kind |-> "month"]}
          /\ UNCHANGED <<faults, cause>>
       \/ /\ Fault /\ Blame(r, "fault")
          /\ UNCHANGED cleans
    /\ UNCHANGED <<now, s3, dbVars, es, job, requests, asked>>

\* The delete-by-query runs at some time after the request.
RunClean(c) ==
    /\ c \in cleans
    /\ cleans' = cleans \ {c}
    /\ es' = [d \in Item |->
                 IF es[d] # NoDoc /\ es[d].repo = c.repo /\ (c.kind = "all" \/ ~es[d].inv)
                 THEN NoDoc ELSE es[d]]
    /\ UNCHANGED <<now, s3, dbVars, job, imp, histVars>>

\* importBill keeps the rows of a new manifest and the rows with no invoice;
\* the index request is a "create", refused when the document exists.
Accepted(i, p, inv) == ModifiedAfter(i.br, i.seen[p].mod, FALSE) \/ ~inv

WriteItem(w, r, p) ==
    LET i == imp[w][r]
        d == <<i.br.bucket, p>>
    IN
    /\ i # NoImport /\ i.pc = "read" /\ i.listed = Periods /\ i.cleaned
    /\ p \in i.left
    /\ imp' = [imp EXCEPT ![w][r].left = @ \ {p}]
    /\ \/ \E inv \in {i.seen[p].inv, s3[i.br.bucket][p].inv} :
              /\ es' = IF Accepted(i, p, inv) /\ es[d] = NoDoc
                       THEN [es EXCEPT ![d] = [repo |-> r, inv |-> inv]] ELSE es
              /\ IF es[d] # NoDoc /\ es[d].repo # r THEN Blame(r, "twin")
                 ELSE IF \E c \in cleans : c.repo = r THEN Blame(r, "late")
                 ELSE UNCHANGED cause
              /\ UNCHANGED faults
       \/ /\ Fault /\ Blame(r, "fault")
          /\ UNCHANGED es
    /\ UNCHANGED <<now, s3, dbVars, cleans, job, requests, asked>>

Imported(i) == i.pc = "read" /\ i.listed = Periods /\ i.cleaned /\ i.left = {}
Finished(i) == i.pc \in {"awsError", "failed", "over"} \/ Imported(i)

Leave(w) == /\ job' = [job EXCEPT ![w] = "idle"]
            /\ imp' = [imp EXCEPT ![w] = [r \in Repos |-> NoImport]]

\* Starting on a repository somebody else is already working on.
Overlap(rs) == cause' = [r \in Repos |-> IF r \in rs /\ InFlight(r) /\ cause[r] = "none"
                                         THEN "overlap" ELSE cause[r]]

-----------------------------------------------------------------------------
(* The HTTP handlers.  The goroutine starts inside the handler, and the    *)
(* decorator ends the transaction after the handler has returned.          *)

Request == requests < MaxRequests /\ requests' = requests + 1

Requested(b) == [bucket |-> b, lim |-> 0, next |-> 0, err |-> FALSE]

PostBillRepository(w, r, b) ==
    /\ job[w] = "idle" /\ r \notin used
    /\ Request
    /\ used' = used \cup {r}
    /\ tx' = [tx EXCEPT ![r] = [by |-> w, row |-> Requested(b)]]
    /\ job' = [job EXCEPT ![w] = "post"]
    /\ imp' = [imp EXCEPT ![w][r] = NewImport("access", Requested(b))]
    /\ UNCHANGED <<now, s3, rows, jobs, stuck, esVars, faults, asked, cause>>

\* AwsBillRepositoryByID of the PATCH and DELETE handlers, b is the body of
\* the PATCH request.
ReadRepository(w, r, kind, b) ==
    /\ job[w] = "idle" /\ rows[r] # NoRow
    /\ Request
    /\ Overlap({r})
    /\ job' = [job EXCEPT ![w] = kind]
    /\ imp' = [imp EXCEPT ![w][r] = NewImport("asked", Requested(b))]
    /\ UNCHANGED <<now, s3, dbVars, esVars, faults, asked>>

\* A bug: the handler forgets to copy the location.
SafeUpdateKeepsLocation(r, asking) == [asking EXCEPT !.bucket = rows[r].bucket]

\* UpdateBillRepositorySafe: the row of a PATCH is the body of the request, all
\* the other columns are reset.
SafeUpdate(r, asking) == asking

\* An UPDATE or DELETE of a row that is gone matches no row and is no error.
WriteRepository(w, r) ==
    LET i == imp[w][r] IN
    /\ job[w] \in {"patch", "delete"}
    /\ i # NoImport /\ i.pc = "asked" /\ Unlocked(r)
    /\ tx' = IF rows[r] = NoRow THEN tx
             ELSE [tx EXCEPT ![r] = [by |-> w, row |-> IF job[w] = "delete" THEN Gone
                                                  ELSE SafeUpdate(r, i.br)]]
    /\ imp' = [imp EXCEPT ![w][r].pc = "cleanAll"]
    /\ UNCHANGED <<now, s3, rows, used, jobs, stuck, esVars, job, histVars>>

\* Deleting a repository deletes its update jobs (ON DELETE CASCADE).
Commit(r) ==
    /\ ~Unlocked(r)
    /\ tx' = [tx EXCEPT ![r] = NoTx]
    /\ IF tx[r].row = Gone
       THEN /\ rows' = [rows EXCEPT ![r] = NoRow]
            /\ jobs' = [jobs EXCEPT ![r] = {}]
            /\ stuck' = stuck \ {r}
            /\ UNCHANGED asked
       ELSE /\ rows' = [rows EXCEPT ![r] = tx[r].row]
            /\ asked' = [asked EXCEPT ![r] = imp[tx[r].by][r].br.bucket]
            /\ UNCHANGED <<jobs, stuck>>
    /\ UNCHANGED <<now, s3, used, esVars, job, imp, faults, requests, cause>>

\* The decorator ignores the error of Commit.
CommitFails(r) ==
    /\ ~Unlocked(r)
    /\ tx' = [tx EXCEPT ![r] = NoTx]
    /\ Fault /\ Blame(r, "fault")
    /\ UNCHANGED <<now, s3, rows, used, jobs, stuck, esVars, job, imp, requests, asked>>

EndRequest(w) ==
    /\ job[w] \in Routes
    /\ \A r \in Repos : /\ imp[w][r] # NoImport => Finished(imp[w][r])
                        /\ ~HasLocked(w, r)
    /\ Leave(w)
    /\ UNCHANGED <<now, s3, dbVars, esVars, histVars>>

-----------------------------------------------------------------------------
(* What an ingestion task writes to a repository it has read earlier: the  *)
(* whole row, WHERE id = the repository's.                                 *)

\* A bug: writing the row back as Save or a REPLACE would.
Upsert(r, row) == row

UpdateUnsafe(r, row) == IF rows[r] = NoRow THEN NoRow ELSE row

\* A bug: remembering when the import ended, not the latest manifest it read.
NextUpdateFromNow(i) == [i.br EXCEPT !.lim = now, !.next = now + Interval, !.err = FALSE]

\* A bug: one interval too many.
NextUpdateLate(i) ==
    [i.br EXCEPT !.lim = MaxOf(i.lm, @), !.next = now + 2 * Interval, !.err = FALSE]

\* updateBillRepositoryForNextUpdate
NextUpdate(i) == [i.br EXCEPT !.lim = MaxOf(i.lm, @), !.next = now + Interval, !.err = FALSE]

-----------------------------------------------------------------------------
(* The command line task 'ingest'.  registerUpdate references the row, so  *)
(* it waits for a request that has it locked.                              *)

StartIngest(w, r) ==
    /\ job[w] = "idle" /\ rows[r] # NoRow /\ Unlocked(r)
    /\ Overlap({r})
    /\ jobs' = [jobs EXCEPT ![r] = @ \cup {w}]
    /\ job' = [job EXCEPT ![w] = "cli"]
    /\ imp' = [imp EXCEPT ![w][r] = NewImport("access", rows[r])]
    /\ UNCHANGED <<now, s3, rows, used, tx, stuck, esVars, faults, requests, asked>>

\* UpdateBillRepositoryWithoutContext: outside the task's transaction.
RecordBillError(w, r) ==
    LET i == imp[w][r] IN
    /\ i # NoImport /\ i.pc = "awsError" /\ job[w] = "cli" /\ Unlocked(r)
    /\ rows' = [rows EXCEPT ![r] = UpdateUnsafe(r, [i.br EXCEPT !.err = TRUE])]
    /\ imp' = [imp EXCEPT ![w][r].pc = "failed"]
    /\ UNCHANGED <<now, s3, used, tx, jobs, stuck, esVars, job, histVars>>

\* A bug: the task returns without completing its job.
CompletedOrNot(w, r) == TRUE

\* updateCompletion, whatever the outcome, before the task returns.
Completed(w, r) == w \notin jobs[r]

\* updateCompletion precedes the deferred Commit of the repository's row.
CompleteJob(w, r) ==
    /\ job[w] = "cli" /\ w \in jobs[r]
    /\ imp[w][r] # NoImport /\ Finished(imp[w][r]) /\ imp[w][r].pc # "awsError"
    /\ jobs' = [jobs EXCEPT ![r] = @ \ {w}]
    /\ UNCHANGED <<now, s3, rows, used, tx, stuck, esVars, job, imp, histVars>>

EndIngest(w, r) ==
    LET i == imp[w][r] IN
    /\ job[w] = "cli" /\ i # NoImport
    /\ Finished(i) /\ i.pc # "awsError" /\ Completed(w, r)
    /\ Unlocked(r)
    /\ \/ /\ rows' = IF i.pc = "failed" THEN rows
                     ELSE [rows EXCEPT ![r] = UpdateUnsafe(r, NextUpdate(i))]
          /\ UNCHANGED faults
       \/ Fault /\ UNCHANGED rows
    /\ Leave(w)
    /\ UNCHANGED <<now, s3, used, tx, jobs, stuck, esVars, requests, asked, cause>>

-----------------------------------------------------------------------------
(* The periodic task 'ingest-due': one UpdateReport goroutine for each due *)
(* repository, then one UPDATE for each conclusion, then Commit.           *)

Due == {r \in Repos : rows[r] # NoRow /\ rows[r].next <= now}

StartImports(w, rs, kind) ==
    /\ job[w] = "idle" /\ rs # {}
    /\ Overlap(rs)
    /\ job' = [job EXCEPT ![w] = kind]
    /\ imp' = [imp EXCEPT ![w] = [r \in Repos |-> IF r \in rs THEN NewImport("access", rows[r])
                                                             ELSE NoImport]]
    /\ UNCHANGED <<now, s3, dbVars, esVars, requests, asked>>

StartIngestDue(w) == StartImports(w, Due, "due") /\ UNCHANGED faults

\* The account of a repository cannot be read: UpdateDueReports returns, and closes the
\* channel of the goroutines it has started for the repositories before.
StartIngestDueFails(w) == \E rs \in SUBSET Due :
    rs # Due /\ StartImports(w, rs, "doomed") /\ Fault

\* taskIngestDue commits whatever the outcome: an UPDATE that fails ends the
\* loop over the conclusions, those before it stay.
EndIngestDue(w) ==
    LET mine == {r \in Repos : imp[w][r] # NoImport /\ imp[w][r].pc # "failed"}
        Apply(rs) == rows' = [r \in Repos |->
            IF r \notin rs THEN rows[r]
            ELSE IF imp[w][r].pc = "awsError"
                 THEN UpdateUnsafe(r, [imp[w][r].br EXCEPT !.err = TRUE])
                 ELSE UpdateUnsafe(r, NextUpdate(imp[w][r]))]
    IN
    /\ job[w] = "due"
    /\ \A r \in Repos : imp[w][r] # NoImport => Finished(imp[w][r])
    /\ \A r \in mine : Unlocked(r)
    /\ \/ Apply(mine) /\ UNCHANGED faults
       \/ \E rs \in SUBSET mine : rs # mine /\ Apply(rs) /\ Fault
    /\ Leave(w)
    /\ UNCHANGED <<now, s3, used, tx, jobs, stuck, esVars, requests, asked, cause>>

\* All goroutines had ended before the channel was closed; no row is written.
AbandonDue(w) ==
    /\ job[w] = "doomed"
    /\ \A r \in Repos : imp[w][r] # NoImport => Finished(imp[w][r])
    /\ Leave(w)
    /\ UNCHANGED <<now, s3, dbVars, esVars, histVars>>

-----------------------------------------------------------------------------
(* A process dies: its transactions are rolled back, its update job stays. *)

\* Workers of one process: a command line task, or some goroutines of one server.
Process(ws) ==
    \/ \E w \in Workers : ws = {w} /\ job[w] # "idle"
    \/ ws # {} /\ \A w \in ws : job[w] \in Routes \cup Periodic

\* The goroutine that has not asked for its deletion yet.
Cleaning(w, r) == imp[w][r] # NoImport /\ imp[w][r].pc = "cleanAll"

Die(ws) ==
    /\ Process(ws)
    /\ tx' = [r \in Repos |-> IF \E w \in ws : HasLocked(w, r) THEN NoTx ELSE tx[r]]
    /\ cause' = [r \in Repos |-> IF /\ cause[r] = "none"
                                    /\ \E w \in ws : HasLocked(w, r) \/ Cleaning(w, r)
                                 THEN "fault" ELSE cause[r]]
    /\ jobs' = [r \in Repos |-> jobs[r] \ ws]
    /\ stuck' = stuck \cup {r \in Repos : jobs[r] \cap ws # {}}
    /\ job' = [w \in Workers |-> IF w \in ws THEN "idle" ELSE job[w]]
    /\ imp' = [w \in Workers |-> IF w \in ws THEN [r \in Repos |-> NoImport] ELSE imp[w]]
    /\ UNCHANGED <<now, s3, rows, used, esVars, requests, asked>>

Crash(ws) == Die(ws) /\ Fault

\* A goroutine that UpdateDueReports has left sends on the closed channel, which ends
\* the server with all its requests; a task of its own ends with its goroutines.
Panic(ws) ==
    /\ \E w \in ws : /\ job[w] = "doomed"
                     /\ \/ \E r \in Repos : imp[w][r] # NoImport /\ Finished(imp[w][r])
                        \/ ws = {w}
    /\ Die(ws)
    /\ UNCHANGED faults

\* A job row counts as pending until its 'expired' date.
JobExpires(r) ==
    /\ r \in stuck
    /\ stuck' = stuck \ {r}
    /\ UNCHANGED <<now, s3, rows, used, tx, jobs, esVars, job, imp, histVars>>

-----------------------------------------------------------------------------
Init ==
    /\ now = 0
    /\ s3 = [b \in Buckets |-> [p \in Periods |-> Absent]]
    /\ rows = [r \in Repos |-> NoRow]
    /\ used = {}
    /\ tx = [r \in Repos |-> NoTx]
    /\ jobs = [r \in Repos |-> {}]
    /\ stuck = {}
    /\ es = [d \in Item |-> NoDoc]
    /\ cleans = {}
    /\ job = [w \in Workers |-> "idle"]
    /\ imp = [w \in Workers |-> [r \in Repos |-> NoImport]]
    /\ faults = 0
    /\ requests = 0
    /\ asked \in [Repos -> Buckets]
    /\ \A r, q \in Repos : asked[r] = asked[q]
    /\ cause = [r \in Repos |-> "none"]

Aws == Tick \/ \E b \in Buckets, p \in Periods : Publish(b, p)

UpdateReport(w, r) ==
    \/ CleanAll(w, r) \/ Access(w, r) \/ ListPage(w, r) \/ ListFails(w, r)
    \/ CleanMonth(w, r) \/ \E p \in Periods : WriteItem(w, r, p)

Handlers ==
    \/ \E w \in Workers, r \in Repos : \/ \E b \in Buckets : \/ PostBillRepository(w, r, b)
                                                             \/ ReadRepository(w, r, "patch", b)
                                       \/ ReadRepository(w, r, "delete", asked[r])
                                       \/ WriteRepository(w, r)
    \/ \E r \in Repos : Commit(r) \/ CommitFails(r)
    \/ \E w \in Workers : EndRequest(w)

IngestionTasks ==
    \/ \E w \in Workers, r \in Repos : \/ StartIngest(w, r) \/ RecordBillError(w, r)
                                       \/ CompleteJob(w, r) \/ EndIngest(w, r)
    \/ \E w \in Workers : \/ StartIngestDue(w) \/ StartIngestDueFails(w)
                          \/ EndIngestDue(w) \/ AbandonDue(w)

Next ==
    \/ Aws
    \/ \E w \in Workers, r \in Repos : UpdateReport(w, r)
    \/ \E c \in cleans : RunClean(c)
    \/ Handlers
    \/ IngestionTasks
    \/ \E ws \in SUBSET Workers : Crash(ws) \/ Panic(ws)
    \/ \E r \in Repos : JobExpires(r)

Spec == Init /\ [][Next]_vars

-----------------------------------------------------------------------------
(* Types.                                                                  *)

\* The type invariant of all the variables above.
TypeOK ==
    /\ now \in Times
    /\ s3 \in [Buckets -> [Periods -> Version]]
    /\ rows \in [Repos -> Row \cup {NoRow}]
    /\ used \in SUBSET Repos
    /\ tx \in [Repos -> [by : Workers, row : Row \cup {Gone}] \cup {NoTx}]
    /\ jobs \in [Repos -> SUBSET Workers]
    /\ stuck \in SUBSET Repos
    /\ es \in [Item -> Doc \cup {NoDoc}]
    /\ cleans \in SUBSET Clean
    /\ job \in [Workers -> Routes \cup Tasks \cup {"idle"}]
    /\ imp \in [Workers -> [Repos -> Import \cup {NoImport}]]
    /\ faults \in 0 .. MaxFaults
    /\ requests \in 0 .. MaxRequests
    /\ asked \in [Repos -> Buckets]
    /\ cause \in [Repos -> Causes]

-----------------------------------------------------------------------------
(* Safety.                                                                 *)

Settled(r) == rows[r] # NoRow /\ Unlocked(r)

\* An invoiced period that last_imported_manifest says is imported and that
\* the index does not hold: no later ingestion will import it.
Lost(r) == \E p \in Periods :
    LET v == s3[rows[r].bucket][p] IN
    /\ v.inv /\ v.mod <= rows[r].lim
    /\ es[<<rows[r].bucket, p>>] # [repo |-> r, inv |-> TRUE]

\* Invoiced line items are only lost, for good and in silence, through one of
\* the causes recorded: two jobs of a repository at once, a deletion
\* that ElasticSearch was still running, a manifest rewritten during the
\* listing or in the second of the latest one, a second repository on the
\* same bucket, or an error that ReadBills logs and drops.  Never through a
\* crash, a retry, a PATCH or an error of the AWS credentials alone.
LossHasCause == \A r \in Repos : Settled(r) /\ Lost(r) => cause[r] # "none"

\* A task only ever undoes the location the user has set when it was already
\* running when the user set it (or overlapped otherwise).
LocationHasCause ==
    \A r \in Repos : Settled(r) /\ rows[r].bucket # asked[r] => cause[r] # "none"

\* Once nothing works on a repository and its deletions have run, the index
\* holds no line item of a location it has left, by a PATCH or a DELETE,
\* unless something put it at risk.
OrphanHasCause ==
    \A r \in used :
        /\ Unlocked(r) /\ ~InFlight(r)
        /\ \A c \in cleans : c.repo # r
        /\ \E b \in Buckets, p \in Periods :
               /\ es[<<b, p>>] # NoDoc /\ es[<<b, p>>].repo = r
               /\ rows[r] # NoRow => rows[r].bucket # b
        => cause[r] # "none"

\* A repository that was deleted is never brought back by an ingestion that
\* still holds its row.
DeletedStaysDeleted ==
    [][\A r \in Repos : r \in used /\ rows[r] = NoRow /\ Unlocked(r) => rows'[r] = NoRow]_vars

\* The row of an update job that is still pending belongs to a task that is
\* still ingesting that repository.
PendingJobIsRunning ==
    \A r \in Repos : \A w \in jobs[r] : job[w] = "cli" /\ imp[w][r] # NoImport
=============================================================================
