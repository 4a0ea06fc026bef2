----------------------------- MODULE ReadBills -----------------------------
(***************************************************************************)
(* One call of ReadBills (aws/s3/readBills.go, aws/s3/fanIn.go): the       *)
(* goroutines that turn the keys of a bucket into line items, and the      *)
(* unbuffered channels between them.                                       *)
(*                                                                         *)
(*   getKeys -> getManifestKeys -> getManifests => mergecManifest          *)
(*           -> selectManifests -> importBills => mergecLineItem -> oli    *)
(*                                                                         *)
(* A goroutine holds at most one value, the one it is sending, so the      *)
(* stage of a key says whose hands it is in.  The two fans-in ("=>") start *)
(* one goroutine for each input and close their output when all are done.  *)
(* The context of the call is never cancelled.                             *)
(***************************************************************************)
EXTENDS Integers, FiniteSets

CONSTANTS
    Keys,         \* the objects of the bucket under the prefix
    ManifestKeys, \* those that match manifestKeyRegex
    Page,         \* the page of the listing each key is on
    MaxChecked,   \* MaxCheckedKeysByRepository
    Reports,      \* the report keys of all manifests
    Of,           \* the manifest each report is listed in
    Records,      \* the number of line items of a report
    OpenRecords,  \* the line items with no InvoiceId
    Month, Since, \* AddDate(0, 1, 0), and BillRepository.LastImportedManifest
    MaxTime       \* bound on the dates of the objects

ASSUME ReadBillsAssumption ==
    /\ ManifestKeys \subseteq Keys
    /\ Page \in [Keys -> Nat]
    /\ Of \in [Reports -> ManifestKeys]
    /\ {MaxChecked, Records, Month, Since, MaxTime} \subseteq Nat

VARIABLES
    modified,  \* LastModified of each object
    stage,     \* whose hands each key is in
    closed,    \* the channels that are closed
    lm,        \* the latest manifest selected so far, lm of selectManifests
    report,    \* the goroutines that read each report
    main,      \* what ReadBills itself is doing
    ingested,  \* the line items oli was called with
    result     \* what ReadBills has returned

vars == <<modified, stage, closed, lm, report, main, ingested, result>>

Times   == 0 .. MaxTime
Stage   == {"bucket", "old", "key", "other", "manifestKey", "spawned", "forwarding",
            "unread", "read", "unselected", "selected", "imported"}
Channel == {"keys", "manifestKeys", "manifestOuts", "manifests", "selected",
            "reportOuts", "lineItems"}
Record  == Reports \X (1 .. Records)

In(s) == {k \in Keys : stage[k] \in s}

Move(k, s) == stage' = [stage EXCEPT ![k] = s]

\* manifestsModifiedAfter(LastImportedManifest), with and without the month.
ModifiedAfter(k, oneMonthBefore) ==
    IF oneMonthBefore THEN modified[k] + Month > Since ELSE modified[k] > Since

-----------------------------------------------------------------------------
(* getKeys and listBillsFromRepositoryPage                                 *)

OnPage(n) == {k \in Keys : Page[k] = n}

\* A page is left when all of its keys were sent.
BetweenPages == \A k \in In({"bucket"}) : OnPage(Page[k]) \subseteq In({"bucket"})

\* count is only compared to its maximum at the end of a page.
OnNextPage(k) ==
    /\ \A j \in In({"bucket"}) : Page[k] <= Page[j]
    /\ BetweenPages => Cardinality(Keys \ In({"bucket", "old"})) < MaxChecked \/ In({"bucket"}) = Keys

ListKey(k) ==
    /\ "keys" \notin closed /\ In({"key"}) = {}
    /\ stage[k] = "bucket" /\ OnNextPage(k)
    /\ Move(k, IF ModifiedAfter(k, TRUE) THEN "key" ELSE "old")
    /\ UNCHANGED <<modified, closed, lm, report, main, ingested, result>>

\* The end of the listing, its maximum, or an error between two pages.
CloseKeys ==
    /\ "keys" \notin closed /\ In({"key"}) = {} /\ BetweenPages
    /\ closed' = closed \cup {"keys"}
    /\ UNCHANGED <<modified, stage, lm, report, main, ingested, result>>

-----------------------------------------------------------------------------
(* getManifestKeys and getManifests                                        *)

FilterKey(k) ==
    /\ stage[k] = "key" /\ In({"manifestKey"}) = {}
    /\ Move(k, IF k \in ManifestKeys THEN "manifestKey" ELSE "other")
    /\ UNCHANGED <<modified, closed, lm, report, main, ingested, result>>

CloseManifestKeys ==
    /\ "keys" \in closed /\ In({"key", "manifestKey"}) = {}
    /\ "manifestKeys" \notin closed
    /\ closed' = closed \cup {"manifestKeys"}
    /\ UNCHANGED <<modified, stage, lm, report, main, ingested, result>>

\* readManifest starts the download, mergecManifest the goroutine that
\* forwards it.
GetManifest(k) ==
    /\ stage[k] = "manifestKey"
    /\ Move(k, "spawned")
    /\ UNCHANGED <<modified, closed, lm, report, main, ingested, result>>

CloseManifestOuts ==
    /\ "manifestKeys" \in closed /\ "manifestOuts" \notin closed
    /\ closed' = closed \cup {"manifestOuts"}
    /\ UNCHANGED <<modified, stage, lm, report, main, ingested, result>>

ForwardManifest(k) ==
    /\ stage[k] = "spawned"
    /\ Move(k, "forwarding")
    /\ UNCHANGED <<modified, closed, lm, report, main, ingested, result>>

\* A manifest that cannot be downloaded or parsed is logged and dropped.
ReadManifest(k) ==
    /\ stage[k] = "forwarding"
    /\ \E s \in {"read", "unread"} : Move(k, s)
    /\ UNCHANGED <<modified, closed, lm, report, main, ingested, result>>

\* A bug: wg.Add is called by the goroutine it counts.
ManifestsStarted == In({"forwarding", "read"})

\* A bug: readManifest does not close its channel on an error.
ManifestsUnclosed == In({"spawned", "forwarding", "read", "unread"})

\* What wg.Wait of mergecManifest waits for.
ManifestsCounted == In({"spawned", "forwarding", "read"})

CloseManifests ==
    /\ "manifestOuts" \in closed /\ "manifests" \notin closed
    /\ ManifestsCounted = {}
    /\ closed' = closed \cup {"manifests"}
    /\ UNCHANGED <<modified, stage, lm, report, main, ingested, result>>

-----------------------------------------------------------------------------
(* selectManifests                                                         *)

SelectManifest(k) ==
    /\ stage[k] = "read" /\ "manifests" \notin closed /\ In({"selected"}) = {}
    /\ Move(k, IF ModifiedAfter(k, TRUE) THEN "selected" ELSE "unselected")
    /\ UNCHANGED <<modified, closed, lm, report, main, ingested, result>>

\* The promise is kept before the channel of the manifests is closed.
CloseSelected ==
    /\ "manifests" \in closed /\ In({"selected"}) = {} /\ "selected" \notin closed
    /\ closed' = closed \cup {"selected"}
    /\ UNCHANGED <<modified, stage, lm, report, main, ingested, result>>

-----------------------------------------------------------------------------
(* importBills                                                             *)

NoReader == [pc |-> "none", next |-> 1, hand |-> 0]

\* A bug: the last manifest, not the latest.
LastOne(k) == modified[k]

Latest(k) == IF modified[k] > lm THEN modified[k] ELSE lm

\* All the reports of the last manifest are started before the next one.
TakeManifest(k) ==
    /\ main = "manifests" /\ stage[k] = "selected"
    /\ \A r \in Reports : stage[Of[r]] = "imported" => report[r] # NoReader
    /\ Move(k, "imported")
    /\ lm' = Latest(k)
    /\ UNCHANGED <<modified, closed, report, main, ingested, result>>

ImportBill(r) ==
    /\ main = "manifests" /\ stage[Of[r]] = "imported" /\ report[r] = NoReader
    /\ report' = [report EXCEPT ![r].pc = "spawned"]
    /\ UNCHANGED <<modified, stage, closed, lm, main, ingested, result>>

DrainLineItems ==
    /\ main = "manifests" /\ "selected" \in closed
    /\ \A r \in Reports : stage[Of[r]] = "imported" => report[r] # NoReader
    /\ main' = "draining"
    /\ closed' = closed \cup {"reportOuts"}
    /\ UNCHANGED <<modified, stage, lm, report, ingested, result>>

-----------------------------------------------------------------------------
(* importBill, readBill and records: one chain for a report, whose end is  *)
(* the goroutine of mergecLineItem that forwards it.                       *)

ForwardReport(r) ==
    /\ report[r].pc = "spawned"
    /\ report' = [report EXCEPT ![r].pc = "reading"]
    /\ UNCHANGED <<modified, stage, closed, lm, main, ingested, result>>

\* The rows of a new manifest and the rows with no invoice.
ReadRecord(r) ==
    LET n == report[r].next IN
    /\ report[r].pc = "reading" /\ report[r].hand = 0 /\ n <= Records
    /\ report' = [report EXCEPT ![r].next = n + 1,
                      ![r].hand = IF ModifiedAfter(Of[r], FALSE) \/ <<r, n>> \in OpenRecords
                                  THEN n ELSE 0]
    /\ UNCHANGED <<modified, stage, closed, lm, main, ingested, result>>

\* The end of the file, or an error, which is logged, anywhere in the file.
EndReport(r) ==
    /\ report[r].pc = "reading"
    /\ report' = [report EXCEPT ![r].pc = IF report[r].next > Records THEN "done" ELSE "failed"]
    /\ UNCHANGED <<modified, stage, closed, lm, main, ingested, result>>

\* A bug: wg.Add is called by the goroutine it counts.
ReportsStarted == {r \in Reports : report[r].pc = "reading" \/ report[r].hand # 0}

\* What wg.Wait of mergecLineItem waits for.
ReportsCounted ==
    {r \in Reports : report[r].pc \in {"spawned", "reading"} \/ report[r].hand # 0}

CloseLineItems ==
    /\ "reportOuts" \in closed /\ "lineItems" \notin closed
    /\ ReportsCounted = {}
    /\ closed' = closed \cup {"lineItems"}
    /\ UNCHANGED <<modified, stage, lm, report, main, ingested, result>>

OnLineItem(r) ==
    /\ main = "draining" /\ report[r].hand # 0 /\ "lineItems" \notin closed
    /\ ingested' = ingested \cup {<<r, report[r].hand>>}
    /\ report' = [report EXCEPT ![r].hand = 0]
    /\ UNCHANGED <<modified, stage, closed, lm, main, result>>

\* oli(LineItem{}, false) flushes the bulk requests.
Flush ==
    /\ main = "draining" /\ "lineItems" \in closed
    /\ main' = "returned"
    /\ result' = lm
    /\ UNCHANGED <<modified, stage, closed, lm, report, ingested>>

-----------------------------------------------------------------------------
Init ==
    /\ modified \in [Keys -> Times]
    /\ stage = [k \in Keys |-> "bucket"]
    /\ closed = {}
    /\ lm = 0
    /\ report = [r \in Reports |-> NoReader]
    /\ main = "manifests"
    /\ ingested = {}
    /\ result = 0

Terminated == main = "returned" /\ UNCHANGED vars

KeyStep(k) ==
    \/ ListKey(k) \/ FilterKey(k) \/ GetManifest(k) \/ ForwardManifest(k)
    \/ ReadManifest(k) \/ SelectManifest(k) \/ TakeManifest(k)

ReportStep(r) ==
    ImportBill(r) \/ ForwardReport(r) \/ ReadRecord(r) \/ EndReport(r) \/ OnLineItem(r)

CloseStep ==
    \/ CloseKeys \/ CloseManifestKeys \/ CloseManifestOuts \/ CloseManifests
    \/ CloseSelected \/ DrainLineItems \/ CloseLineItems \/ Flush

Step == CloseStep \/ (\E k \in Keys : KeyStep(k)) \/ (\E r \in Reports : ReportStep(r))

Next == Step \/ Terminated

\* Every step moves a value or ends a goroutine, so it is enough that the
\* runtime never leaves every goroutine that can run waiting.
Spec == Init /\ [][Next]_vars /\ WF_vars(Step)

-----------------------------------------------------------------------------
\* The type invariant of all the variables above.
TypeOK ==
    /\ modified \in [Keys -> Times]
    /\ stage \in [Keys -> Stage]
    /\ closed \in SUBSET Channel
    /\ lm \in Times
    /\ report \in [Reports -> [pc : {"none", "spawned", "reading", "done", "failed"},
                               next : 1 .. Records + 1, hand : 0 .. Records]]
    /\ main \in {"manifests", "draining", "returned"}
    /\ ingested \in SUBSET Record
    /\ result \in Times

\* No goroutine of the pipeline is left with a value for a channel that is
\* closed: sending it would panic.
NoSendOnClosed ==
    /\ "keys" \in closed => In({"key"}) = {}
    /\ "manifestKeys" \in closed => In({"manifestKey"}) = {}
    /\ "manifests" \in closed => In({"spawned", "forwarding", "read"}) = {}
    /\ "selected" \in closed => In({"selected"}) = {}
    /\ "lineItems" \in closed => \A r \in Reports : report[r].hand = 0 /\ report[r].pc # "spawned"

\* When ReadBills returns, and with it the bulk processor is closed, oli has
\* been called with every line item that was read, of every manifest that was
\* selected, and no goroutine holds another one.
NothingLeftBehind ==
    main = "returned" =>
        /\ In({"key", "manifestKey", "spawned", "forwarding", "read", "selected"}) = {}
        /\ \A r \in Reports :
               /\ stage[Of[r]] = "imported" <=> report[r].pc \in {"done", "failed"}
               /\ \A n \in 1 .. report[r].next - 1 :
                      <<r, n>> \in ingested <=> \/ modified[Of[r]] > Since
                                                \/ <<r, n>> \in OpenRecords

\* The values and the goroutines of the pipeline have their types, and none is left with a
\* value for a channel that another goroutine has closed (fanIn.go, readBills.go).
PipelineIsSound == TypeOK /\ NoSendOnClosed

\* "ReadBills reads all LineItems from new bills in a BillRepository, and runs `oli` for
\* each one": a line item of a bill that the date it returns makes an old one is
\* missed, for good, only when its manifest or its report could not be read, which is
\* logged and dropped, or when the listing ended before its manifest.
MissHasCause ==
    main = "returned" =>
        \A r \in Reports : \A n \in 1 .. Records :
            Since < modified[Of[r]] /\ modified[Of[r]] <= result /\ <<r, n>> \notin ingested =>
                stage[Of[r]] \in {"bucket", "unread"} \/ report[r].pc = "failed"

\* ReadBills always returns: no goroutine waits for another for ever.
Returns == <>(main = "returned")

\* What its caller may rely on is the abstract import: manifests are taken and line items
\* passed on, in the order of their report, and the date is that of the latest one.
Promise == INSTANCE BillImport WITH
    Manifests <- ManifestKeys, dates <- modified, taken <- In({"imported"}),
    passed <- ingested, done <- (main = "returned"), date <- result

\* Every step of the goroutines of ReadBills is one of the abstract import or changes
\* nothing the caller could see: it passes no line item twice, out of order or of
\* a manifest it does not date, and nothing after it has returned.
ImplementsImport == Promise!Spec
=============================================================================
