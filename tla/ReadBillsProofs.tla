-------------------------- MODULE ReadBillsProofs --------------------------
(***************************************************************************)
(* Theorems on one call of ReadBills, for any numbers of objects, reports, *)
(* records and pages: no goroutine sends on a closed channel, no line item *)
(* is left behind, what is missed has a cause, and the call implements the *)
(* abstract import.  That every call returns is a liveness property, left  *)
(* to TLC.                                                                 *)
(***************************************************************************)
EXTENDS ReadBills, TLAPS

\* Channels are closed from the listing to the line items.
CloseOrder ==
    /\ "manifestKeys" \in closed => "keys" \in closed
    /\ "manifestOuts" \in closed => "manifestKeys" \in closed
    /\ "manifests" \in closed => "manifestOuts" \in closed
    /\ "selected" \in closed => "manifests" \in closed
    /\ main # "manifests" => "selected" \in closed
    /\ "reportOuts" \in closed => main # "manifests"
    /\ "lineItems" \in closed => "reportOuts" \in closed
    /\ main = "returned" => "lineItems" \in closed

\* No goroutine holds a value for a closed channel; of the line items, nor will any.
Drained ==
    /\ NoSendOnClosed
    /\ "lineItems" \in closed => ReportsCounted = {}

Known == {"manifestKey", "spawned", "forwarding", "unread", "read", "unselected",
          "selected", "imported"}

\* What the stage of a key says of it.
Sorted == \A k \in Keys :
    /\ stage[k] \in Known => k \in ManifestKeys
    /\ stage[k] = "other" => k \notin ManifestKeys
    /\ stage[k] \in {"selected", "imported"} => ModifiedAfter(k, TRUE)
    /\ stage[k] \in {"old", "unselected"} => ~ModifiedAfter(k, TRUE)

Wanted(r, n) == ModifiedAfter(Of[r], FALSE) \/ <<r, n>> \in OpenRecords

\* The goroutines of a report, and the line items it has handed over.
Handed(r) ==
    /\ report[r].pc = "none" => report[r].next = 1 /\ report[r].hand = 0
    /\ report[r].pc # "none" => stage[Of[r]] = "imported"
    /\ report[r].pc = "done" => report[r].next = Records + 1
    /\ main # "manifests" /\ stage[Of[r]] = "imported" => report[r].pc # "none"
    /\ report[r].hand # 0 =>
           report[r].next = report[r].hand + 1 /\ <<r, report[r].hand>> \notin ingested
    /\ \A n \in 1 .. Records :
           <<r, n>> \in ingested \/ report[r].hand = n <=> n < report[r].next /\ Wanted(r, n)

Reading == \A r \in Reports : Handed(r)

\* The promise so far: the date of the latest manifest taken.
LatestTaken ==
    /\ \A k \in In({"imported"}) : modified[k] <= lm
    /\ lm = 0 \/ \E k \in In({"imported"}) : modified[k] = lm

Pipeline == TypeOK /\ CloseOrder /\ Drained /\ Sorted /\ Reading /\ LatestTaken

-----------------------------------------------------------------------------
LEMMA PipelineInit == Init => Pipeline
<1> SUFFICES ASSUME Init PROVE Pipeline
    OBVIOUS
<1> USE ReadBillsAssumption DEF Init
<1>1. TypeOK
    BY DEF TypeOK, Times, Stage, Channel, Record, NoReader
<1>2. CloseOrder
    BY DEF CloseOrder
<1>3. Drained
    BY DEF Drained, NoSendOnClosed
<1>4. Sorted
    BY DEF Sorted, Known
<1>5. Reading
    BY DEF Reading, Handed, NoReader
<1>6. LatestTaken
    BY DEF LatestTaken, In
<1> QED BY <1>1, <1>2, <1>3, <1>4, <1>5, <1>6 DEF Pipeline

\* A key that moves, but not to the line items, leaves the reports and the promise alone.
LEMMA KeyMoves ==
    ASSUME Pipeline, NEW k \in Keys, NEW s \in Stage \ {"imported"},
           Move(k, s), stage[k] # "imported",
           UNCHANGED <<modified, closed, lm, report, main, ingested, result>>
    PROVE  TypeOK' /\ CloseOrder' /\ Reading' /\ LatestTaken'
<1> USE ReadBillsAssumption DEF Pipeline
<1>1. stage' = [stage EXCEPT ![k] = s] /\ stage \in [Keys -> Stage]
    BY DEF Move, TypeOK
<1>2. TypeOK'
    BY <1>1 DEF TypeOK
<1>3. CloseOrder'
    BY DEF CloseOrder
<1>4. \A j \in Keys : stage'[j] = "imported" <=> stage[j] = "imported"
    BY <1>1
<1>5. Reading'
    <2> SUFFICES ASSUME NEW r \in Reports PROVE Handed(r)'
        BY DEF Reading
    <2>1. Handed(r) /\ Of[r] \in Keys
        BY DEF Reading
    <2> QED BY <2>1, <1>4 DEF Handed, Wanted, ModifiedAfter
<1>6. In({"imported"})' = In({"imported"})
    BY <1>4 DEF In
<1>7. LatestTaken'
    BY <1>6 DEF LatestTaken
<1> QED BY <1>2, <1>3, <1>5, <1>7

LEMMA KeyStepKeeps ==
    ASSUME Pipeline, NEW k \in Keys, KeyStep(k), ~TakeManifest(k)
    PROVE  Pipeline'
<1> USE ReadBillsAssumption DEF Pipeline
<1>0. stage \in [Keys -> Stage]
    BY DEF TypeOK
<1>1. CASE ListKey(k)
    <2> DEFINE s == IF ModifiedAfter(k, TRUE) THEN "key" ELSE "old"
    <2>1. Move(k, s) /\ s \in Stage \ {"imported"} /\ stage[k] = "bucket"
        BY <1>1 DEF ListKey, Stage
    <2>2. UNCHANGED <<modified, closed, lm, report, main, ingested, result>>
        BY <1>1 DEF ListKey
    <2>3. TypeOK' /\ CloseOrder' /\ Reading' /\ LatestTaken'
        BY <2>1, <2>2, KeyMoves
    <2>4. Drained'
        BY <1>0, <1>1, <2>1, <2>2 DEF ListKey, Move, Drained, NoSendOnClosed, In, ReportsCounted
    <2>5. Sorted'
        BY <1>0, <2>1, <2>2 DEF Move, Sorted, Known, ModifiedAfter
    <2> QED BY <2>3, <2>4, <2>5
<1>2. CASE FilterKey(k)
    <2> DEFINE s == IF k \in ManifestKeys THEN "manifestKey" ELSE "other"
    <2>1. Move(k, s) /\ s \in Stage \ {"imported"} /\ stage[k] = "key"
        BY <1>2 DEF FilterKey, Stage
    <2>2. UNCHANGED <<modified, closed, lm, report, main, ingested, result>>
        BY <1>2 DEF FilterKey
    <2>3. TypeOK' /\ CloseOrder' /\ Reading' /\ LatestTaken'
        BY <2>1, <2>2, KeyMoves
    <2>4. Drained'
        BY <1>0, <2>1, <2>2 DEF CloseOrder, Move, Drained, NoSendOnClosed, In, ReportsCounted
    <2>5. Sorted'
        BY <1>0, <2>1, <2>2 DEF Move, Sorted, Known, ModifiedAfter
    <2> QED BY <2>3, <2>4, <2>5
<1>3. CASE GetManifest(k) \/ ForwardManifest(k) \/ ReadManifest(k)
    <2>1. PICK s \in {"spawned", "forwarding", "read", "unread"} : Move(k, s)
        BY <1>3 DEF GetManifest, ForwardManifest, ReadManifest
    <2>2. /\ UNCHANGED <<modified, closed, lm, report, main, ingested, result>>
          /\ stage[k] \in {"manifestKey", "spawned", "forwarding"}
        BY <1>3 DEF GetManifest, ForwardManifest, ReadManifest
    <2>3. TypeOK' /\ CloseOrder' /\ Reading' /\ LatestTaken'
        BY <2>1, <2>2, KeyMoves DEF Stage
    <2>4. Drained'
        BY <1>0, <2>1, <2>2 DEF CloseOrder, Move, Drained, NoSendOnClosed, In, ReportsCounted
    <2>5. Sorted'
        BY <1>0, <2>1, <2>2 DEF Move, Sorted, Known, ModifiedAfter
    <2> QED BY <2>3, <2>4, <2>5
<1>4. CASE SelectManifest(k)
    <2> DEFINE s == IF ModifiedAfter(k, TRUE) THEN "selected" ELSE "unselected"
    <2>1. Move(k, s) /\ s \in Stage \ {"imported"} /\ stage[k] = "read"
        BY <1>4 DEF SelectManifest, Stage
    <2>2. UNCHANGED <<modified, closed, lm, report, main, ingested, result>>
        BY <1>4 DEF SelectManifest
    <2>3. TypeOK' /\ CloseOrder' /\ Reading' /\ LatestTaken'
        BY <2>1, <2>2, KeyMoves
    <2>4. Drained'
        BY <1>0, <1>4, <2>1, <2>2
           DEF SelectManifest, CloseOrder, Move, Drained, NoSendOnClosed, In, ReportsCounted
    <2>5. Sorted'
        BY <1>0, <2>1, <2>2 DEF Move, Sorted, Known, ModifiedAfter
    <2> QED BY <2>3, <2>4, <2>5
<1> QED BY <1>1, <1>2, <1>3, <1>4 DEF KeyStep

LEMMA TakeManifestKeeps ==
    ASSUME Pipeline, NEW k \in Keys, TakeManifest(k)
    PROVE  Pipeline'
<1> USE ReadBillsAssumption DEF Pipeline
<1>1. /\ stage \in [Keys -> Stage] /\ stage' = [stage EXCEPT ![k] = "imported"]
      /\ stage[k] = "selected" /\ main = "manifests" /\ lm' = Latest(k)
      /\ UNCHANGED <<modified, closed, report, main, ingested, result>>
    BY DEF TakeManifest, Move, TypeOK
<1>2. modified \in [Keys -> Times] /\ lm \in Times
    BY DEF TypeOK
<1>3. TypeOK'
    BY <1>1, <1>2 DEF TypeOK, Stage, Latest
<1>4. CloseOrder'
    BY <1>1 DEF CloseOrder
<1>5. Drained'
    BY <1>1 DEF Drained, NoSendOnClosed, In, ReportsCounted
<1>6. Sorted'
    BY <1>1 DEF Sorted, Known, ModifiedAfter
<1>7. Reading'
    <2> SUFFICES ASSUME NEW r \in Reports PROVE Handed(r)'
        BY DEF Reading
    <2>1. Handed(r) /\ Of[r] \in Keys
        BY DEF Reading
    <2> QED BY <2>1, <1>1 DEF Handed, Wanted, ModifiedAfter
<1>8. LatestTaken'
    <2>1. In({"imported"})' = In({"imported"}) \cup {k}
        BY <1>1 DEF In
    <2>2. \A j \in In({"imported"}) : modified[j] \in Nat /\ modified[j] <= lm
        BY <1>2 DEF LatestTaken, Times, In
    <2>3. modified[k] \in Nat /\ lm \in Nat
        BY <1>2 DEF Times
    <2>4. modified' = modified /\ lm' = IF modified[k] > lm THEN modified[k] ELSE lm
        BY <1>1 DEF Latest
    <2>5. lm = 0 \/ \E j \in In({"imported"}) : modified[j] = lm
        BY DEF LatestTaken
    <2>6. \A j \in In({"imported"}) \cup {k} : modified[j] <= lm'
        BY <2>2, <2>3, <2>4
    <2>7. lm' = 0 \/ \E j \in In({"imported"}) \cup {k} : modified[j] = lm'
        BY <2>4, <2>5
    <2> QED BY <2>1, <2>4, <2>6, <2>7 DEF LatestTaken
<1> QED BY <1>3, <1>4, <1>5, <1>6, <1>7, <1>8

\* A step of one report leaves the keys and the other reports alone.
LEMMA ReportMoves ==
    ASSUME Pipeline, NEW r \in Reports, NEW new,
           new \in [pc : {"none", "spawned", "reading", "done", "failed"},
                    next : 1 .. Records + 1, hand : 0 .. Records],
           report' = [report EXCEPT ![r] = new],
           UNCHANGED <<modified, stage, closed, lm, main, result>>,
           \/ ingested' = ingested
           \/ \E n \in 1 .. Records : ingested' = ingested \cup {<<r, n>>}
    PROVE  /\ TypeOK' /\ CloseOrder' /\ Sorted' /\ LatestTaken'
           /\ Handed(r)' => Reading'
<1> USE ReadBillsAssumption DEF Pipeline
<1>1. TypeOK'
    BY DEF TypeOK, Record
<1>2. CloseOrder' /\ Sorted' /\ LatestTaken'
    BY DEF CloseOrder, Sorted, LatestTaken, In, Known, ModifiedAfter
<1>3. ASSUME Handed(r)', NEW q \in Reports PROVE Handed(q)'
    <2>1. CASE q = r
        BY <2>1, <1>3
    <2>2. CASE q # r
        <3>1. report'[q] = report[q] /\ \A n : <<q, n>> \in ingested' <=> <<q, n>> \in ingested
            BY <2>2 DEF TypeOK
        <3>2. Handed(q)
            BY DEF Reading
        <3> QED BY <3>1, <3>2 DEF Handed, Wanted, ModifiedAfter
    <2> QED BY <2>1, <2>2
<1> QED BY <1>1, <1>2, <1>3 DEF Reading

LEMMA ReportStepKeeps ==
    ASSUME Pipeline, NEW r \in Reports, ReportStep(r)
    PROVE  Pipeline'
<1> USE ReadBillsAssumption DEF Pipeline
<1>0. /\ report \in [Reports -> [pc : {"none", "spawned", "reading", "done", "failed"},
                                 next : 1 .. Records + 1, hand : 0 .. Records]]
      /\ Handed(r) /\ Of[r] \in Keys
    BY DEF TypeOK, Reading
<1>1. CASE ImportBill(r)
    <2> DEFINE new == [report[r] EXCEPT !.pc = "spawned"]
    <2>1. /\ report' = [report EXCEPT ![r] = new]
          /\ UNCHANGED <<modified, stage, closed, lm, main, ingested, result>>
          /\ main = "manifests" /\ stage[Of[r]] = "imported" /\ report[r].pc = "none"
        BY <1>0, <1>1 DEF ImportBill, NoReader
    <2>2. TypeOK' /\ CloseOrder' /\ Sorted' /\ LatestTaken' /\ (Handed(r)' => Reading')
        BY <1>0, <2>1, ReportMoves
    <2>3. Handed(r)'
        BY <1>0, <2>1 DEF Handed, Wanted, ModifiedAfter
    <2>4. Drained'
        BY <1>0, <2>1 DEF CloseOrder, Drained, NoSendOnClosed, In, ReportsCounted
    <2> QED BY <2>2, <2>3, <2>4
<1>2. CASE ForwardReport(r) \/ EndReport(r)
    <2>1. PICK pc \in {"reading", "done", "failed"} :
              /\ report' = [report EXCEPT ![r] = [report[r] EXCEPT !.pc = pc]]
              /\ pc = "done" => report[r].next > Records
        BY <1>0, <1>2 DEF ForwardReport, EndReport
    <2>2. /\ report[r].pc \in {"spawned", "reading"}
          /\ UNCHANGED <<modified, stage, closed, lm, main, ingested, result>>
        BY <1>2 DEF ForwardReport, EndReport
    <2>3. TypeOK' /\ CloseOrder' /\ Sorted' /\ LatestTaken' /\ (Handed(r)' => Reading')
        BY <1>0, <2>1, <2>2, ReportMoves
    <2>4. Handed(r)'
        BY <1>0, <2>1, <2>2 DEF Handed, Wanted, ModifiedAfter
    <2>5. Drained'
        BY <1>0, <2>1, <2>2 DEF Drained, NoSendOnClosed, In, ReportsCounted
    <2> QED BY <2>3, <2>4, <2>5
<1>3. CASE ReadRecord(r)
    <2> DEFINE n == report[r].next
               new == [report[r] EXCEPT !.next = n + 1, !.hand = IF Wanted(r, n) THEN n ELSE 0]
    <2>1. /\ report' = [report EXCEPT ![r] = new]
          /\ report[r].pc = "reading" /\ report[r].hand = 0 /\ n \in 1 .. Records
          /\ UNCHANGED <<modified, stage, closed, lm, main, ingested, result>>
        <3>1. /\ report[r].pc = "reading" /\ report[r].hand = 0 /\ n \in 1 .. Records
              /\ UNCHANGED <<modified, stage, closed, lm, main, ingested, result>>
            BY <1>0, <1>3 DEF ReadRecord
        <3>2. report' = [report EXCEPT ![r].next = n + 1,
                             ![r].hand = IF Wanted(r, n) THEN n ELSE 0]
            BY <1>3 DEF ReadRecord, Wanted
        <3> HIDE DEF Pipeline
        <3>3. report' = [report EXCEPT ![r] = new]
            BY <1>0, <3>2
        <3> QED BY <3>1, <3>3
    <2>2. new \in [pc : {"none", "spawned", "reading", "done", "failed"},
                   next : 1 .. Records + 1, hand : 0 .. Records]
        <3>1. n + 1 \in 1 .. Records + 1 /\ (IF Wanted(r, n) THEN n ELSE 0) \in 0 .. Records
            BY <2>1
        <3> QED BY <1>0, <3>1
    <2>3. TypeOK' /\ CloseOrder' /\ Sorted' /\ LatestTaken' /\ (Handed(r)' => Reading')
        BY <2>1, <2>2, ReportMoves
    <2>4. Handed(r)'
        <3>1. /\ report'[r].pc = "reading" /\ report'[r].next = n + 1
              /\ report'[r].hand = IF Wanted(r, n) THEN n ELSE 0
            BY <1>0, <2>1
        <3>2. \A i \in 1 .. Records : <<r, i>> \in ingested <=> i < n /\ Wanted(r, i)
            BY <1>0, <2>1 DEF Handed
        <3>3. \A i : Wanted(r, i)' <=> Wanted(r, i)
            BY <2>1 DEF Wanted, ModifiedAfter
        <3>4. stage'[Of[r]] = "imported"
            BY <1>0, <2>1 DEF Handed
        <3>5. <<r, n>> \notin ingested
            BY <3>2, <2>1
        <3>6. \A i \in 1 .. Records :
                  <<r, i>> \in ingested \/ report'[r].hand = i <=> i < n + 1 /\ Wanted(r, i)
            BY <3>1, <3>2, <2>1
        <3> QED BY <2>1, <3>1, <3>3, <3>4, <3>5, <3>6 DEF Handed
    <2>5. Drained'
        BY <1>0, <2>1 DEF Drained, NoSendOnClosed, In, ReportsCounted
    <2> QED BY <2>3, <2>4, <2>5
<1>4. CASE OnLineItem(r)
    <2> DEFINE n == report[r].hand
               new == [report[r] EXCEPT !.hand = 0]
    <2>1. /\ report' = [report EXCEPT ![r] = new] /\ n \in 1 .. Records
          /\ ingested' = ingested \cup {<<r, n>>}
          /\ UNCHANGED <<modified, stage, closed, lm, main, result>>
        BY <1>0, <1>4 DEF OnLineItem
    <2>5. new \in [pc : {"none", "spawned", "reading", "done", "failed"},
                   next : 1 .. Records + 1, hand : 0 .. Records]
        BY <1>0
    <2> HIDE DEF new
    <2>2. TypeOK' /\ CloseOrder' /\ Sorted' /\ LatestTaken' /\ (Handed(r)' => Reading')
        BY <2>1, <2>5, ReportMoves
    <2> USE DEF new
    <2>3. Handed(r)'
        BY <1>0, <2>1 DEF Handed, Wanted, ModifiedAfter
    <2>4. Drained'
        BY <1>0, <2>1 DEF Drained, NoSendOnClosed, In, ReportsCounted
    <2> QED BY <2>2, <2>3, <2>4
<1> QED BY <1>1, <1>2, <1>3, <1>4 DEF ReportStep

LEMMA CloseStepKeeps ==
    ASSUME Pipeline, CloseStep
    PROVE  Pipeline'
<1> USE ReadBillsAssumption DEF Pipeline
<1>1. UNCHANGED <<modified, stage, lm, report, ingested>>
    BY DEF CloseStep, CloseKeys, CloseManifestKeys, CloseManifestOuts, CloseManifests,
           CloseSelected, DrainLineItems, CloseLineItems, Flush
<1>2. TypeOK'
    BY <1>1 DEF TypeOK, Channel, CloseStep, CloseKeys, CloseManifestKeys, CloseManifestOuts,
           CloseManifests, CloseSelected, DrainLineItems, CloseLineItems, Flush
<1>3. CloseOrder'
    BY DEF CloseOrder, TypeOK, CloseStep, CloseKeys, CloseManifestKeys, CloseManifestOuts,
           CloseManifests, CloseSelected, DrainLineItems, CloseLineItems, Flush
<1>4. Drained'
    BY <1>1 DEF Drained, NoSendOnClosed, In, ReportsCounted, ManifestsCounted, TypeOK, CloseStep,
           CloseKeys, CloseManifestKeys, CloseManifestOuts, CloseManifests, CloseSelected,
           DrainLineItems, CloseLineItems, Flush
<1>5. Sorted' /\ LatestTaken'
    BY <1>1 DEF Sorted, LatestTaken, In, Known, ModifiedAfter
<1>6. Reading'
    <2> SUFFICES ASSUME NEW r \in Reports PROVE Handed(r)'
        BY DEF Reading
    <2>1. Handed(r)
        BY DEF Reading
    <2>2. main' # "manifests" /\ stage[Of[r]] = "imported" => report[r].pc # "none"
        <3>1. CASE DrainLineItems
            BY <3>1, <2>1 DEF DrainLineItems, Handed, NoReader, TypeOK
        <3>2. CASE main # "manifests" \/ main' = main
            BY <3>2, <2>1 DEF Handed
        <3> QED BY <3>1, <3>2 DEF CloseStep, CloseKeys, CloseManifestKeys, CloseManifestOuts,
                CloseManifests, CloseSelected, CloseLineItems, Flush
    <2> QED BY <1>1, <2>1, <2>2 DEF Handed, Wanted, ModifiedAfter
<1> QED BY <1>2, <1>3, <1>4, <1>5, <1>6

LEMMA PipelineNext == Pipeline /\ [Next]_vars => Pipeline'
<1> SUFFICES ASSUME Pipeline, [Next]_vars PROVE Pipeline'
    OBVIOUS
<1>1. CASE CloseStep
    BY <1>1, CloseStepKeeps
<1>2. ASSUME NEW k \in Keys, KeyStep(k) PROVE Pipeline'
    BY <1>2, KeyStepKeeps, TakeManifestKeeps
<1>3. ASSUME NEW r \in Reports, ReportStep(r) PROVE Pipeline'
    BY <1>3, ReportStepKeeps
<1>4. CASE UNCHANGED vars
    BY <1>4 DEF vars, Pipeline, TypeOK, CloseOrder, Drained, NoSendOnClosed, ReportsCounted, Sorted,
           Reading, Handed, Wanted, LatestTaken, In, ModifiedAfter
<1> QED BY <1>1, <1>2, <1>3, <1>4 DEF Next, Step, Terminated

\* The invariant of the pipeline: the order in which its channels are closed, that none
\* of them is closed while somebody holds a value for it, what the stage of a key says,
\* which line items of each report were handed over, and the promise.
THEOREM PipelineHolds == Spec => []Pipeline
BY PipelineInit, PipelineNext, PTL DEF Spec

\* No goroutine of the pipeline sends on a channel that another one has closed
\* (aws/s3/fanIn.go, aws/s3/readBills.go).
THEOREM PipelineSound == Spec => []PipelineIsSound
<1>1. Pipeline => PipelineIsSound
    BY DEF Pipeline, Drained, PipelineIsSound
<1> QED BY <1>1, PipelineHolds, PTL

-----------------------------------------------------------------------------
\* When the call returns every goroutine has handed over what it held.
LEMMA AllDone ==
    ASSUME Pipeline, main = "returned"
    PROVE  /\ In({"key", "manifestKey", "spawned", "forwarding", "read", "selected"}) = {}
           /\ \A r \in Reports : report[r].pc \in {"none", "done", "failed"} /\ report[r].hand = 0
<1> USE DEF Pipeline
<1>1. /\ {"keys", "manifestKeys", "manifests", "selected", "lineItems"} \subseteq closed
    BY DEF CloseOrder
<1>2. In({"key", "manifestKey", "spawned", "forwarding", "read", "selected"}) = {}
    BY <1>1 DEF Drained, NoSendOnClosed, In
<1>3. ReportsCounted = {}
    BY <1>1 DEF Drained
<1>4. \A r \in Reports : report[r].pc \in {"none", "done", "failed"} /\ report[r].hand = 0
    BY <1>3 DEF ReportsCounted, TypeOK
<1> QED BY <1>2, <1>4

\* When ReadBills returns, the line items that were read are with its caller, and nothing
\* is left in the pipeline.
THEOREM NothingIsLeftBehind == Spec => []NothingLeftBehind
<1>1. ASSUME Pipeline PROVE NothingLeftBehind
    <2> SUFFICES ASSUME main = "returned"
                 PROVE  /\ In({"key", "manifestKey", "spawned", "forwarding", "read", "selected"}) = {}
                        /\ \A r \in Reports :
                               /\ stage[Of[r]] = "imported" <=> report[r].pc \in {"done", "failed"}
                               /\ \A n \in 1 .. report[r].next - 1 :
                                      <<r, n>> \in ingested <=> \/ modified[Of[r]] > Since
                                                                \/ <<r, n>> \in OpenRecords
        BY DEF NothingLeftBehind
    <2>1. In({"key", "manifestKey", "spawned", "forwarding", "read", "selected"}) = {}
        BY <1>1, AllDone
    <2>2. ASSUME NEW r \in Reports
          PROVE  /\ stage[Of[r]] = "imported" <=> report[r].pc \in {"done", "failed"}
                 /\ \A n \in 1 .. report[r].next - 1 :
                        <<r, n>> \in ingested <=> \/ modified[Of[r]] > Since
                                                  \/ <<r, n>> \in OpenRecords
        <3>1. report[r].pc \in {"none", "done", "failed"} /\ report[r].hand = 0
            BY <1>1, AllDone
        <3>2. Handed(r) /\ report[r].next \in 1 .. Records + 1 /\ Records \in Nat
            BY <1>1, ReadBillsAssumption DEF Pipeline, Reading, TypeOK
        <3>3. stage[Of[r]] = "imported" <=> report[r].pc \in {"done", "failed"}
            BY <3>1, <3>2 DEF Handed
        <3>4. ASSUME NEW n \in 1 .. report[r].next - 1
              PROVE  <<r, n>> \in ingested <=> modified[Of[r]] > Since \/ <<r, n>> \in OpenRecords
            <4>1. n \in 1 .. Records /\ n < report[r].next /\ report[r].hand # n
                BY <3>1, <3>2
            <4> QED BY <3>2, <4>1 DEF Handed, Wanted, ModifiedAfter
        <3> QED BY <3>3, <3>4
    <2> QED BY <2>1, <2>2
<1> QED BY <1>1, PipelineHolds, PTL

\* A line item of a new bill is missed only when its manifest or its report could not be
\* read, or the listing ended before its manifest.
THEOREM MissesHaveCause == Spec => []MissHasCause
<1>1. ASSUME Pipeline PROVE MissHasCause
    <2> SUFFICES ASSUME main = "returned", NEW r \in Reports, NEW n \in 1 .. Records,
                        Since < modified[Of[r]], <<r, n>> \notin ingested
                 PROVE  stage[Of[r]] \in {"bucket", "unread"} \/ report[r].pc = "failed"
        BY DEF MissHasCause
    <2> DEFINE k == Of[r]
    <2>1. k \in Keys /\ k \in ManifestKeys /\ {Since, Month, Records} \subseteq Nat
        BY ReadBillsAssumption
    <2>2. modified[k] \in Nat /\ stage[k] \in Stage
        BY <1>1, <2>1, ReadBillsAssumption DEF Pipeline, TypeOK, Times
    <2>3. stage[k] \notin {"key", "manifestKey", "spawned", "forwarding", "read", "selected"}
        BY <1>1, <2>1, AllDone DEF In
    <2>4. ModifiedAfter(k, TRUE) /\ Wanted(r, n)
        BY <2>1, <2>2 DEF ModifiedAfter, Wanted
    <2>5. stage[k] \notin {"old", "unselected", "other"}
        BY <1>1, <2>1, <2>4 DEF Pipeline, Sorted
    <2>6. CASE stage[k] = "imported"
        <3>1. Handed(r)
            BY <1>1 DEF Pipeline, Reading
        <3>2. report[r].pc \in {"done", "failed"} /\ report[r].hand = 0
            BY <1>1, <2>6, <3>1, AllDone DEF Handed
        <3>3. ~(n < report[r].next)
            BY <2>4, <3>1, <3>2 DEF Handed
        <3> QED BY <2>1, <3>1, <3>2, <3>3 DEF Handed
    <2> QED BY <2>2, <2>3, <2>5, <2>6 DEF Stage
<1> QED BY <1>1, PipelineHolds, PTL

-----------------------------------------------------------------------------
\* Every call of ReadBills is an abstract import, as its caller sees it.
THEOREM ImportImplemented == Spec => ImplementsImport
<1>1. Init => Promise!Init
    BY DEF Init, Promise!Init, In
<1>2. ASSUME Pipeline, [Next]_vars PROVE [Promise!Next]_(Promise!vars)
    <2> USE <1>2, ReadBillsAssumption DEF Pipeline
    <2>0. /\ stage \in [Keys -> Stage]
          /\ report \in [Reports -> [pc : {"none", "spawned", "reading", "done", "failed"},
                                     next : 1 .. Records + 1, hand : 0 .. Records]]
        BY DEF TypeOK
    <2>1. ASSUME NEW k \in Keys, TakeManifest(k) PROVE Promise!Take(k) /\ k \in ManifestKeys
        <3>1. /\ stage[k] = "selected" /\ stage' = [stage EXCEPT ![k] = "imported"]
              /\ main = "manifests"
              /\ UNCHANGED <<modified, main, ingested, result>>
            BY <2>1 DEF TakeManifest, Move
        <3>2. In({"imported"})' = In({"imported"}) \cup {k} /\ k \notin In({"imported"})
            BY <2>0, <3>1 DEF In
        <3>3. k \in ManifestKeys /\ Promise!Recent(k)
            BY <3>1 DEF Sorted, Known, ModifiedAfter, Promise!Recent
        <3> QED BY <3>1, <3>2, <3>3 DEF Promise!Take
    <2>2. ASSUME NEW r \in Reports, OnLineItem(r)
          PROVE  Promise!Pass(r, report[r].hand) /\ report[r].hand \in 1 .. Records
        <3> DEFINE n == report[r].hand
        <3>1. /\ n \in 1 .. Records /\ ingested' = ingested \cup {<<r, n>>}
              /\ main = "draining" /\ UNCHANGED <<modified, stage, main, result>>
            BY <2>0, <2>2 DEF OnLineItem
        <3>2. Handed(r) /\ Of[r] \in Keys
            BY DEF Reading
        <3>3. /\ stage[Of[r]] = "imported" /\ <<r, n>> \notin ingested
              /\ report[r].next = n + 1 /\ Wanted(r, n)
            BY <2>0, <3>1, <3>2 DEF Handed
        <3>4. \A i \in 1 .. n - 1 : Wanted(r, i) => <<r, i>> \in ingested
            BY <3>1, <3>2, <3>3 DEF Handed
        <3>5. \A i : Promise!Wanted(r, i) <=> Wanted(r, i)
            BY DEF Promise!Wanted, Wanted, ModifiedAfter
        <3>6. Of[r] \in In({"imported"}) /\ In({"imported"})' = In({"imported"})
            BY <3>1, <3>2, <3>3 DEF In
        <3> QED BY <3>1, <3>3, <3>4, <3>5, <3>6 DEF Promise!Pass
    <2>3. CASE Flush
        <3>1. /\ main = "draining" /\ main' = "returned" /\ result' = lm
              /\ UNCHANGED <<modified, stage, lm, ingested>>
            BY <2>3 DEF Flush
        <3>2. In({"imported"})' = In({"imported"})
            BY <3>1 DEF In
        <3>3. Promise!IsLatest(lm)
            BY DEF LatestTaken, Promise!IsLatest
        <3> QED BY <3>1, <3>2, <3>3 DEF Promise!Return, Promise!IsLatest, Promise!Next
    <2>4. ASSUME UNCHANGED <<modified, ingested, result>>,
                 main' # "returned" \/ main' = main, main # "returned" \/ main' = main,
                 \A k \in Keys : stage'[k] = "imported" <=> stage[k] = "imported"
          PROVE  UNCHANGED Promise!vars
        BY <2>4 DEF Promise!vars, In
    <2>5. ASSUME NEW k \in Keys, KeyStep(k), ~TakeManifest(k) PROVE UNCHANGED Promise!vars
        <3>1. PICK s \in Stage \ {"imported"} : Move(k, s)
            BY <2>5 DEF KeyStep, ListKey, FilterKey, GetManifest, ForwardManifest, ReadManifest,
                   SelectManifest, Stage
        <3>2. stage[k] # "imported" /\ UNCHANGED <<modified, main, ingested, result>>
            BY <2>5 DEF KeyStep, ListKey, FilterKey, GetManifest, ForwardManifest, ReadManifest,
                   SelectManifest
        <3>3. \A j \in Keys : stage'[j] = "imported" <=> stage[j] = "imported"
            BY <2>0, <3>1, <3>2 DEF Move
        <3> QED BY <2>4, <3>2, <3>3
    <2>6. ASSUME NEW r \in Reports, ReportStep(r), ~OnLineItem(r) PROVE UNCHANGED Promise!vars
        <3>1. UNCHANGED <<modified, stage, main, ingested, result>>
            BY <2>6 DEF ReportStep, ImportBill, ForwardReport, ReadRecord, EndReport
        <3> QED BY <2>4, <3>1
    <2>7. CASE CloseStep /\ ~Flush
        <3>1. UNCHANGED <<modified, stage, ingested, result>>
            BY <2>7 DEF CloseStep, CloseKeys, CloseManifestKeys, CloseManifestOuts, CloseManifests,
                   CloseSelected, DrainLineItems, CloseLineItems
        <3>2. main' = main \/ (main = "manifests" /\ main' = "draining")
            BY <2>7 DEF CloseStep, CloseKeys, CloseManifestKeys, CloseManifestOuts, CloseManifests,
                   CloseSelected, DrainLineItems, CloseLineItems
        <3> QED BY <2>4, <3>1, <3>2
    <2>8. CASE UNCHANGED vars
        BY <2>4, <2>8 DEF vars
    <2> QED BY <2>1, <2>2, <2>3, <2>5, <2>6, <2>7, <2>8 DEF Next, Step, Terminated, KeyStep, ReportStep,
               Promise!Next
<1> QED BY <1>1, <1>2, PipelineHolds, PTL DEF Spec, ImplementsImport, Promise!Spec
=============================================================================
