------------------------ MODULE BillIngestionProofs ------------------------
(***************************************************************************)
(* Proofs about BillIngestion, for any number of repositories, buckets,    *)
(* periods, workers, faults and requests.  First the types and who works   *)
(* on what; then the rows of aws_bill_repository and aws_bill_update_job,  *)
(* for which the first lemmas say what any step may do to one variable:    *)
(* the inductive invariants are proved from them and not from the actions. *)
(* Last the line items: nothing invoiced is lost in silence, and no line   *)
(* item is left where its repository is not any more.  Both are statements *)
(* about a repository that nothing has put at risk yet, so RepoInv only    *)
(* speaks of those; what LastModified, the requests and the ids obey in    *)
(* any case is Clocked and DocsInUse.                                      *)
(***************************************************************************)
EXTENDS BillIngestion, TLAPS

-----------------------------------------------------------------------------
(* Who is working on what.                                                 *)

\* An idle worker works on nothing, and only the periodic task works on more
\* than one repository.
OneEach ==
    \A w \in Workers : \A r, q \in Repos :
        /\ job[w] = "idle" => imp[w][r] = NoImport
        /\ job[w] \notin Periodic /\ imp[w][r] # NoImport /\ imp[w][q] # NoImport => r = q

\* An uncommitted write belongs to a request that is still being served.
TxOwner ==
    \A r \in Repos : tx[r] # NoTx => /\ job[tx[r].by] \in Routes
                                     /\ imp[tx[r].by][r] # NoImport

Structure == TypeOK /\ OneEach /\ TxOwner

\* A step after which everybody still works on what they worked on.
KeepsImports ==
    /\ job' = job
    /\ \A w \in Workers : \A r \in Repos :
           /\ imp'[w][r] = NoImport <=> imp[w][r] = NoImport
           /\ imp[w][r] # NoImport => imp'[w][r].br = imp[w][r].br

-----------------------------------------------------------------------------
(* Updates of the nested records.                                          *)

LEMMA ImpUpdate ==
    ASSUME imp \in [Workers -> [Repos -> Import \cup {NoImport}]],
           NEW w \in Workers, NEW r \in Repos, NEW i \in Import
    PROVE  [imp EXCEPT ![w][r] = i] \in [Workers -> [Repos -> Import \cup {NoImport}]]
OBVIOUS

LEMMA PcUpdate ==
    ASSUME imp \in [Workers -> [Repos -> Import \cup {NoImport}]],
           NEW w \in Workers, NEW r \in Repos, imp[w][r] # NoImport, NEW pc \in Phase
    PROVE  [imp EXCEPT ![w][r].pc = pc] \in [Workers -> [Repos -> Import \cup {NoImport}]]
<1>1. imp[w][r] \in Import
  OBVIOUS
<1>2. [imp[w][r] EXCEPT !.pc = pc] \in Import
  BY <1>1 DEF Import
<1>3. [imp EXCEPT ![w][r].pc = pc] = [imp EXCEPT ![w][r] = [imp[w][r] EXCEPT !.pc = pc]]
  OBVIOUS
<1> QED
  BY <1>2, <1>3, ImpUpdate

LEMMA FreshImport ==
    ASSUME NEW pc \in Phase, NEW br \in Row
    PROVE  NewImport(pc, br) \in Import
<1>1. 0 \in Times
  BY BillIngestionAssumption DEF Times
<1>2. Absent \in Version
  BY <1>1 DEF Absent, Version
<1> QED
  BY <1>1, <1>2 DEF NewImport, Import

LEMMA RequestedRow ==
    ASSUME NEW b \in Buckets
    PROVE  Requested(b) \in Row
BY BillIngestionAssumption DEF Requested, Row, Times

LEMMA NextUpdateRow ==
    ASSUME NEW i \in Import, now \in Times
    PROVE  NextUpdate(i) \in Row
<1> USE BillIngestionAssumption
<1>1. i.br \in Row /\ i.lm \in Times
  BY DEF Import
<1>2. now + Interval \in 0 .. MaxTime + Interval
  BY DEF Times
<1>3. i.br.lim \in Times
  BY <1>1 DEF Row
<1>4. MaxOf(i.lm, i.br.lim) \in Times
  BY <1>1, <1>3 DEF MaxOf, Times
<1> QED
  BY <1>1, <1>2, <1>4 DEF NextUpdate, Row

LEMMA ImportType ==
    ASSUME Structure, NEW w \in Workers, NEW r \in Repos, imp[w][r] # NoImport
    PROVE  imp[w][r] \in Import
BY DEF Structure, TypeOK

\* A worker that goes on with a repository does not change who works on what.
LEMMA GoOn ==
    ASSUME Structure, NEW w \in Workers, NEW r \in Repos, imp[w][r] # NoImport,
           NEW i \in Import, i.br = imp[w][r].br,
           imp' = [imp EXCEPT ![w][r] = i], UNCHANGED job
    PROVE  /\ imp' \in [Workers -> [Repos -> Import \cup {NoImport}]]
           /\ OneEach' /\ KeepsImports
           /\ tx' = tx => TxOwner'
<1>1. imp \in [Workers -> [Repos -> Import \cup {NoImport}]]
  BY DEF Structure, TypeOK
<1>2. \A v \in Workers : \A q \in Repos : imp'[v][q] = NoImport <=> imp[v][q] = NoImport
  BY <1>1, MarkersAssumption
<1>3. KeepsImports
  BY <1>1, <1>2 DEF KeepsImports
<1>4. OneEach'
  BY <1>2 DEF OneEach, Structure
<1>5. tx' = tx => TxOwner'
  BY <1>2 DEF TxOwner, Structure, TypeOK
<1> QED
  BY <1>1, <1>3, <1>4, <1>5, ImpUpdate

LEMMA GoOnPc ==
    ASSUME Structure, NEW w \in Workers, NEW r \in Repos, imp[w][r] # NoImport,
           NEW pc \in Phase, imp' = [imp EXCEPT ![w][r].pc = pc], UNCHANGED job
    PROVE  /\ imp' \in [Workers -> [Repos -> Import \cup {NoImport}]]
           /\ OneEach' /\ KeepsImports
           /\ tx' = tx => TxOwner'
<1>1. imp[w][r] \in Import
  BY ImportType
<1>2. [imp[w][r] EXCEPT !.pc = pc] \in Import /\ [imp[w][r] EXCEPT !.pc = pc].br = imp[w][r].br
  BY <1>1 DEF Import
<1>3. imp \in [Workers -> [Repos -> Import \cup {NoImport}]]
  BY DEF Structure, TypeOK
<1>4. imp' = [imp EXCEPT ![w][r] = [imp[w][r] EXCEPT !.pc = pc]]
  BY <1>3
<1> QED
  BY <1>2, <1>4, GoOn, ZenonT(60)

LEMMA BlameType ==
    ASSUME cause \in [Repos -> Causes], NEW r \in Repos, NEW why \in Causes, Blame(r, why)
    PROVE  cause' \in [Repos -> Causes]
BY DEF Blame

LEMMA FaultType ==
    ASSUME faults \in 0 .. MaxFaults, Fault
    PROVE  faults' \in 0 .. MaxFaults
BY BillIngestionAssumption DEF Fault

LEMMA RequestType ==
    ASSUME requests \in 0 .. MaxRequests, Request
    PROVE  requests' \in 0 .. MaxRequests
BY BillIngestionAssumption DEF Request

LEMMA OverlapType ==
    ASSUME cause \in [Repos -> Causes], NEW rs \in SUBSET Repos, Overlap(rs)
    PROVE  cause' \in [Repos -> Causes]
BY DEF Overlap, Causes

-----------------------------------------------------------------------------
(* Every step preserves the structure.                                     *)

LEMMA AwsStep == Structure /\ Aws => Structure'
<1> USE BillIngestionAssumption DEF Structure, TypeOK, dbVars, esVars, histVars
<1>1. CASE Tick
  BY <1>1 DEF Tick, Times, OneEach, TxOwner
<1>2. ASSUME TypeOK, NEW b \in Buckets, NEW p \in Periods, Publish(b, p)
      PROVE  TypeOK'
  <2>1. s3' \in [Buckets -> [Periods -> Version]]
    BY <1>2 DEF Publish, Version
  <2>2. cause' \in [Repos -> Causes]
    BY <1>2 DEF Publish, Causes
  <2> QED
    BY <1>2, <2>1, <2>2 DEF Publish
<1>3. ASSUME NEW b \in Buckets, NEW p \in Periods, Publish(b, p)
      PROVE  UNCHANGED <<job, imp, tx>>
  BY <1>3 DEF Publish
<1> QED
  BY <1>1, <1>2, <1>3 DEF Aws, OneEach, TxOwner

LEMMA CleanAllStep ==
    ASSUME Structure, NEW w \in Workers, NEW r \in Repos, CleanAll(w, r)
    PROVE  Structure' /\ KeepsImports
<1>1. PICK pc \in {"over", "access"} : imp' = [imp EXCEPT ![w][r].pc = pc]
  BY DEF CleanAll
<1>2. imp' \in [Workers -> [Repos -> Import \cup {NoImport}]] /\ OneEach' /\ TxOwner' /\ KeepsImports
  <2>1. imp[w][r] # NoImport /\ UNCHANGED <<job, tx>>
    BY DEF CleanAll, dbVars
  <2> QED
    BY <1>1, <2>1, GoOnPc DEF Phase
<1>3. cleans' \in SUBSET Clean
  BY DEF CleanAll, Clean, CleanOldBills, Structure, TypeOK
<1>4. faults' \in 0 .. MaxFaults /\ cause' \in [Repos -> Causes]
  BY FaultType, BlameType DEF CleanAll, Causes, Structure, TypeOK
<1> QED
  BY <1>2, <1>3, <1>4 DEF CleanAll, Structure, TypeOK, dbVars

LEMMA AccessStep ==
    ASSUME Structure, NEW w \in Workers, NEW r \in Repos, Access(w, r)
    PROVE  Structure' /\ KeepsImports
<1>1. PICK pc \in {"read", "awsError", "failed"} : imp' = [imp EXCEPT ![w][r].pc = pc]
  BY DEF Access
<1>2. imp' \in [Workers -> [Repos -> Import \cup {NoImport}]] /\ OneEach' /\ TxOwner' /\ KeepsImports
  <2>1. imp[w][r] # NoImport /\ UNCHANGED <<job, tx>>
    BY DEF Access, dbVars
  <2> QED
    BY <1>1, <2>1, GoOnPc DEF Phase
<1>3. faults' \in 0 .. MaxFaults
  BY FaultType DEF Access, Structure, TypeOK
<1> QED
  BY <1>2, <1>3 DEF Access, Structure, TypeOK, dbVars, esVars

LEMMA ListPageStep ==
    ASSUME Structure, NEW w \in Workers, NEW r \in Repos, ListPage(w, r)
    PROVE  Structure' /\ KeepsImports
<1> DEFINE i == imp[w][r]
<1>1. i # NoImport /\ i \in Import
  BY ImportType DEF ListPage
<1>2. PICK kept \in SUBSET Periods, lm \in Times :
          imp' = [imp EXCEPT ![w][r] =
                     [i EXCEPT !.listed = @ \cup NextPage(i),
                               !.seen   = [p \in Periods |-> IF p \in kept THEN s3[i.br.bucket][p]
                                                                           ELSE i.seen[p]],
                               !.left   = @ \cup kept,
                               !.lm     = lm]]
  <2> DEFINE page == {p \in NextPage(i) : /\ s3[i.br.bucket][p].mod # 0
                                          /\ ModifiedAfter(i.br, s3[i.br.bucket][p].mod, TRUE)}
  <2>1. page \in SUBSET Periods
    BY DEF NextPage
  <2>2. \A p \in page : page \ {p} \in SUBSET Periods
    BY <2>1
  <2> QED
    BY <2>1, <2>2 DEF ListPage
<1> DEFINE seen == [p \in Periods |-> IF p \in kept THEN s3[i.br.bucket][p] ELSE i.seen[p]]
<1>3. seen \in [Periods -> Version]
  <2>1. i.br.bucket \in Buckets /\ i.seen \in [Periods -> Version]
    BY <1>1 DEF Import, Row
  <2>2. s3 \in [Buckets -> [Periods -> Version]]
    BY DEF Structure, TypeOK
  <2> QED
    BY <2>1, <2>2
<1> HIDE DEF seen
<1> DEFINE after == [i EXCEPT !.listed = @ \cup NextPage(i), !.seen = seen, !.left = @ \cup kept, !.lm = lm]
<1>4. after \in Import /\ after.br = i.br
  BY <1>1, <1>3 DEF Import, NextPage
<1>5. UNCHANGED <<job, tx>>
  BY DEF ListPage, dbVars
<1>6. imp' \in [Workers -> [Repos -> Import \cup {NoImport}]] /\ OneEach' /\ TxOwner' /\ KeepsImports
  <2>1. imp' = [imp EXCEPT ![w][r] = after]
    BY <1>2 DEF seen
  <2> HIDE DEF after
  <2> QED
    BY <1>1, <1>4, <1>5, <2>1, GoOn
<1>7. faults' \in 0 .. MaxFaults /\ cause' \in [Repos -> Causes]
  BY FaultType, BlameType DEF Structure, TypeOK, ListPage, Causes
<1> QED
  BY <1>6, <1>7 DEF ListPage, Structure, TypeOK, dbVars, esVars

LEMMA ListFailsStep ==
    ASSUME Structure, NEW w \in Workers, NEW r \in Repos, ListFails(w, r)
    PROVE  Structure' /\ KeepsImports
<1>1. imp[w][r] # NoImport /\ imp[w][r] \in Import
  BY ImportType DEF ListFails
<1>2. [imp[w][r] EXCEPT !.listed = Periods] \in Import /\ [imp[w][r] EXCEPT !.listed = Periods].br = imp[w][r].br
  BY <1>1 DEF Import
<1>3. imp' = [imp EXCEPT ![w][r] = [imp[w][r] EXCEPT !.listed = Periods]]
  BY DEF ListFails
<1>4. imp' \in [Workers -> [Repos -> Import \cup {NoImport}]] /\ OneEach' /\ TxOwner' /\ KeepsImports
  <2>1. UNCHANGED <<job, tx>>
    BY DEF ListFails, dbVars
  <2> QED
    BY <1>1, <1>2, <1>3, <2>1, GoOn
<1>5. faults' \in 0 .. MaxFaults /\ cause' \in [Repos -> Causes]
  BY FaultType, BlameType DEF Structure, TypeOK, ListFails, Causes
<1> QED
  BY <1>4, <1>5 DEF ListFails, Structure, TypeOK, dbVars, esVars

LEMMA CleanMonthStep ==
    ASSUME Structure, NEW w \in Workers, NEW r \in Repos, CleanMonth(w, r)
    PROVE  Structure' /\ KeepsImports
<1>1. imp[w][r] # NoImport /\ imp[w][r] \in Import
  BY ImportType DEF CleanMonth
<1>2. [imp[w][r] EXCEPT !.cleaned = TRUE] \in Import /\ [imp[w][r] EXCEPT !.cleaned = TRUE].br = imp[w][r].br
  BY <1>1 DEF Import
<1>3. imp' = [imp EXCEPT ![w][r] = [imp[w][r] EXCEPT !.cleaned = TRUE]]
  BY DEF CleanMonth
<1>4. imp' \in [Workers -> [Repos -> Import \cup {NoImport}]] /\ OneEach' /\ TxOwner' /\ KeepsImports
  <2>1. UNCHANGED <<job, tx>>
    BY DEF CleanMonth, dbVars
  <2> QED
    BY <1>1, <1>2, <1>3, <2>1, GoOn
<1>5. faults' \in 0 .. MaxFaults /\ cause' \in [Repos -> Causes]
  BY FaultType, BlameType DEF Structure, TypeOK, CleanMonth, Causes
<1>6. cleans' \in SUBSET Clean
  BY DEF Structure, TypeOK, CleanMonth, Clean
<1> QED
  BY <1>4, <1>5, <1>6 DEF CleanMonth, Structure, TypeOK, dbVars

LEMMA RunCleanStep ==
    ASSUME Structure, NEW c \in cleans, RunClean(c)
    PROVE  Structure'
<1>1. es' \in [Item -> Doc \cup {NoDoc}]
  BY DEF Structure, TypeOK, RunClean
<1> QED
  BY <1>1 DEF RunClean, Structure, TypeOK, OneEach, TxOwner, dbVars, histVars

LEMMA WriteItemStep ==
    ASSUME Structure, NEW w \in Workers, NEW r \in Repos, NEW p \in Periods, WriteItem(w, r, p)
    PROVE  Structure' /\ KeepsImports
<1>1. imp[w][r] # NoImport /\ imp[w][r] \in Import
  BY ImportType DEF WriteItem
<1>2. [imp[w][r] EXCEPT !.left = @ \ {p}] \in Import /\ [imp[w][r] EXCEPT !.left = @ \ {p}].br = imp[w][r].br
  BY <1>1 DEF Import
<1>3. imp' = [imp EXCEPT ![w][r] = [imp[w][r] EXCEPT !.left = @ \ {p}]]
  BY DEF WriteItem
<1>4. imp' \in [Workers -> [Repos -> Import \cup {NoImport}]] /\ OneEach' /\ TxOwner' /\ KeepsImports
  <2>1. UNCHANGED <<job, tx>>
    BY DEF WriteItem, dbVars
  <2> QED
    BY <1>1, <1>2, <1>3, <2>1, GoOn
<1>5. faults' \in 0 .. MaxFaults /\ cause' \in [Repos -> Causes]
  BY FaultType, BlameType DEF Structure, TypeOK, WriteItem, Causes
<1>6. es' \in [Item -> Doc \cup {NoDoc}]
  <2>1. imp[w][r].seen[p].inv \in BOOLEAN /\ imp[w][r].br.bucket \in Buckets
    BY <1>1 DEF Import, Version, Row
  <2>2. s3[imp[w][r].br.bucket][p].inv \in BOOLEAN
    BY <2>1 DEF Structure, TypeOK, Version
  <2>3. <<imp[w][r].br.bucket, p>> \in Item
    BY <2>1 DEF Item
  <2>4. \A inv \in BOOLEAN : [repo |-> r, inv |-> inv] \in Doc
    BY DEF Doc
  <2>5. es \in [Item -> Doc \cup {NoDoc}]
    BY DEF Structure, TypeOK
  <2>6. \/ es' = es
        \/ \E inv \in BOOLEAN : es' = [es EXCEPT ![<<imp[w][r].br.bucket, p>>] = [repo |-> r, inv |-> inv]]
    BY <2>1, <2>2 DEF WriteItem
  <2> QED
    BY <2>3, <2>4, <2>5, <2>6
<1> QED
  BY <1>4, <1>5, <1>6 DEF WriteItem, Structure, TypeOK, dbVars

LEMMA UpdateReportStep ==
    ASSUME Structure, NEW w \in Workers, NEW r \in Repos, UpdateReport(w, r)
    PROVE  Structure' /\ KeepsImports
BY CleanAllStep, AccessStep, ListPageStep, ListFailsStep, CleanMonthStep, WriteItemStep
   DEF UpdateReport

\* An idle worker that starts on one repository, with or without a write.
LEMMA BeginOne ==
    ASSUME Structure, NEW w \in Workers, NEW r \in Repos, job[w] = "idle",
           NEW i \in Import, imp' = [imp EXCEPT ![w][r] = i],
           NEW kind \in Routes \cup {"cli"}, job' = [job EXCEPT ![w] = kind]
    PROVE  /\ imp' \in [Workers -> [Repos -> Import \cup {NoImport}]]
           /\ job' \in [Workers -> Routes \cup Tasks \cup {"idle"}]
           /\ OneEach'
           /\ \A v \in Workers : job[v] \in Routes => job'[v] = job[v] /\ imp'[v] = imp[v]
           /\ i # NoImport
<1>1. imp \in [Workers -> [Repos -> Import \cup {NoImport}]]
  BY DEF Structure, TypeOK
<1>2. job \in [Workers -> Routes \cup Tasks \cup {"idle"}]
  BY DEF Structure, TypeOK
<1>3. imp' \in [Workers -> [Repos -> Import \cup {NoImport}]]
  BY <1>1, ImpUpdate
<1>4. job' \in [Workers -> Routes \cup Tasks \cup {"idle"}]
  BY <1>2 DEF Tasks
<1>5. i # NoImport
  BY MarkersAssumption
<1>6. \A v \in Workers \ {w} : job'[v] = job[v] /\ imp'[v] = imp[v]
  BY <1>1, <1>2
<1>7. \A q \in Repos \ {r} : imp'[w][q] = NoImport
  BY <1>1 DEF Structure, OneEach
<1>8. job'[w] # "idle"
  BY <1>2 DEF Routes
<1>9. OneEach'
  BY <1>6, <1>7, <1>8 DEF OneEach, Structure
<1> QED
  BY <1>3, <1>4, <1>5, <1>6, <1>9 DEF Routes

\* A worker that ends, when it has no uncommitted write.
LEMMA LeaveStep ==
    ASSUME Structure, NEW w \in Workers, Leave(w)
    PROVE  /\ imp' \in [Workers -> [Repos -> Import \cup {NoImport}]]
           /\ job' \in [Workers -> Routes \cup Tasks \cup {"idle"}]
           /\ OneEach'
           /\ \A v \in Workers \ {w} : job'[v] = job[v] /\ imp'[v] = imp[v]
<1> USE DEF Leave
<1>1. imp \in [Workers -> [Repos -> Import \cup {NoImport}]]
  BY DEF Structure, TypeOK
<1>2. job \in [Workers -> Routes \cup Tasks \cup {"idle"}]
  BY DEF Structure, TypeOK
<1>3. imp' \in [Workers -> [Repos -> Import \cup {NoImport}]]
  BY <1>1
<1>4. job' \in [Workers -> Routes \cup Tasks \cup {"idle"}]
  BY <1>2
<1>5. \A v \in Workers \ {w} : job'[v] = job[v] /\ imp'[v] = imp[v]
  BY <1>1, <1>2
<1>6. \A q \in Repos : imp'[w][q] = NoImport
  BY <1>1
<1>7. OneEach'
  BY <1>5, <1>6 DEF OneEach, Structure
<1> QED
  BY <1>3, <1>4, <1>5, <1>7

LEMMA PostBillRepositoryStep ==
    ASSUME Structure, NEW w \in Workers, NEW r \in Repos, NEW b \in Buckets,
           PostBillRepository(w, r, b)
    PROVE  Structure'
<1>1. Requested(b) \in Row
  BY RequestedRow
<1> DEFINE i == NewImport("access", Requested(b))
<1>2. i \in Import
  BY <1>1, FreshImport DEF Phase
<1> HIDE DEF i
<1>3. /\ job[w] = "idle" /\ imp' = [imp EXCEPT ![w][r] = i] /\ job' = [job EXCEPT ![w] = "post"]
      /\ tx' = [tx EXCEPT ![r] = [by |-> w, row |-> Requested(b)]]
  BY DEF PostBillRepository, i
<1>4. /\ imp' \in [Workers -> [Repos -> Import \cup {NoImport}]]
      /\ job' \in [Workers -> Routes \cup Tasks \cup {"idle"}]
      /\ OneEach'
      /\ \A v \in Workers : job[v] \in Routes => job'[v] = job[v] /\ imp'[v] = imp[v]
      /\ i # NoImport
  BY <1>2, <1>3, BeginOne DEF Routes
<1>5. tx' \in [Repos -> [by : Workers, row : Row \cup {Gone}] \cup {NoTx}]
  BY <1>1, <1>3 DEF Structure, TypeOK
<1>6. job'[w] = "post" /\ imp'[w][r] = i
  BY <1>3 DEF Structure, TypeOK
<1>7. TxOwner'
  BY <1>3, <1>4, <1>6 DEF TxOwner, Structure, TypeOK, Routes
<1>8. requests' \in 0 .. MaxRequests
  BY RequestType DEF Structure, TypeOK, PostBillRepository
<1> QED
  BY <1>4, <1>5, <1>7, <1>8 DEF Structure, TypeOK, PostBillRepository, esVars

LEMMA ReadRepositoryStep ==
    ASSUME Structure, NEW w \in Workers, NEW r \in Repos, NEW b \in Buckets,
           NEW kind \in Routes, ReadRepository(w, r, kind, b)
    PROVE  Structure'
<1> DEFINE i == NewImport("asked", Requested(b))
<1>1. i \in Import
  BY RequestedRow, FreshImport DEF Phase
<1> HIDE DEF i
<1>2. job[w] = "idle" /\ imp' = [imp EXCEPT ![w][r] = i] /\ job' = [job EXCEPT ![w] = kind] /\ tx' = tx
  BY DEF ReadRepository, dbVars, i
<1>3. /\ imp' \in [Workers -> [Repos -> Import \cup {NoImport}]]
      /\ job' \in [Workers -> Routes \cup Tasks \cup {"idle"}]
      /\ OneEach'
      /\ \A v \in Workers : job[v] \in Routes => job'[v] = job[v] /\ imp'[v] = imp[v]
  BY <1>1, <1>2, BeginOne
<1>4. TxOwner'
  BY <1>2, <1>3 DEF TxOwner, Structure, TypeOK
<1>5. requests' \in 0 .. MaxRequests /\ cause' \in [Repos -> Causes]
  BY RequestType, OverlapType DEF Structure, TypeOK, ReadRepository
<1> QED
  BY <1>3, <1>4, <1>5 DEF Structure, TypeOK, ReadRepository, dbVars, esVars

LEMMA WriteRepositoryStep ==
    ASSUME Structure, NEW w \in Workers, NEW r \in Repos, WriteRepository(w, r)
    PROVE  Structure' /\ KeepsImports
<1>1. imp[w][r] # NoImport /\ imp[w][r] \in Import
  BY ImportType DEF WriteRepository
<1>2. imp' = [imp EXCEPT ![w][r].pc = "cleanAll"] /\ job' = job /\ job[w] \in Routes
  BY DEF WriteRepository, Routes
<1>3. imp' \in [Workers -> [Repos -> Import \cup {NoImport}]] /\ OneEach' /\ KeepsImports
  BY <1>1, <1>2, GoOnPc DEF Phase
<1>4. tx' \in [Repos -> [by : Workers, row : Row \cup {Gone}] \cup {NoTx}]
  BY <1>1 DEF WriteRepository, SafeUpdate, Structure, TypeOK, Import
<1>5. \A q \in Repos : tx'[q] # NoTx => tx'[q] = tx[q] \/ (q = r /\ tx'[q].by = w)
  BY DEF WriteRepository, Structure, TypeOK
<1>6. TxOwner'
  BY <1>1, <1>2, <1>3, <1>5 DEF TxOwner, Structure, TypeOK, KeepsImports
<1> QED
  BY <1>3, <1>4, <1>6 DEF WriteRepository, Structure, TypeOK, esVars, histVars

\* The owner of an uncommitted write is working on its repository.
LEMMA OwnerType ==
    ASSUME Structure, NEW r \in Repos, tx[r] # NoTx
    PROVE  /\ tx[r].by \in Workers /\ tx[r].row \in Row \cup {Gone}
           /\ imp[tx[r].by][r] \in Import
<1>1. tx[r] \in [by : Workers, row : Row \cup {Gone}]
  BY DEF Structure, TypeOK
<1>2. imp[tx[r].by][r] # NoImport
  BY DEF Structure, TxOwner
<1> QED
  BY <1>1, <1>2, ImportType

LEMMA CommitStep ==
    ASSUME Structure, NEW r \in Repos, Commit(r)
    PROVE  Structure'
<1>1. tx[r] # NoTx
  BY DEF Commit, Unlocked
<1>2. imp[tx[r].by][r].br.bucket \in Buckets
  BY <1>1, OwnerType DEF Import, Row
<1>3. asked' \in [Repos -> Buckets]
  BY <1>2 DEF Commit, Structure, TypeOK
<1>4. rows' \in [Repos -> Row \cup {NoRow}]
  BY <1>1, OwnerType DEF Commit, Structure, TypeOK
<1>5. jobs' \in [Repos -> SUBSET Workers] /\ stuck' \in SUBSET Repos
  BY DEF Commit, Structure, TypeOK
<1>6. tx' \in [Repos -> [by : Workers, row : Row \cup {Gone}] \cup {NoTx}]
  BY DEF Commit, Structure, TypeOK
<1>7. OneEach' /\ TxOwner'
  BY DEF Commit, Structure, TypeOK, OneEach, TxOwner, esVars
<1> QED
  BY <1>3, <1>4, <1>5, <1>6, <1>7 DEF Commit, Structure, TypeOK, esVars

LEMMA CommitFailsStep ==
    ASSUME Structure, NEW r \in Repos, CommitFails(r)
    PROVE  Structure'
<1>1. faults' \in 0 .. MaxFaults /\ cause' \in [Repos -> Causes]
  BY FaultType, BlameType DEF Structure, TypeOK, CommitFails, Causes
<1>2. tx' \in [Repos -> [by : Workers, row : Row \cup {Gone}] \cup {NoTx}]
  BY DEF CommitFails, Structure, TypeOK
<1>3. OneEach' /\ TxOwner'
  BY DEF CommitFails, Structure, TypeOK, OneEach, TxOwner
<1> QED
  BY <1>1, <1>2, <1>3 DEF CommitFails, Structure, TypeOK, esVars

LEMMA EndRequestStep ==
    ASSUME Structure, NEW w \in Workers, EndRequest(w)
    PROVE  Structure'
<1>1. /\ imp' \in [Workers -> [Repos -> Import \cup {NoImport}]]
      /\ job' \in [Workers -> Routes \cup Tasks \cup {"idle"}]
      /\ OneEach'
      /\ \A v \in Workers \ {w} : job'[v] = job[v] /\ imp'[v] = imp[v]
  BY LeaveStep DEF EndRequest
<1>2. \A r \in Repos : tx[r] # NoTx => tx[r].by \in Workers \ {w}
  BY OwnerType DEF EndRequest, HasLocked
<1>3. tx' = tx
  BY DEF EndRequest, dbVars
<1>4. TxOwner'
  BY <1>1, <1>2, <1>3 DEF TxOwner, Structure
<1> QED
  BY <1>1, <1>4 DEF EndRequest, Structure, TypeOK, dbVars, esVars, histVars

LEMMA StartIngestStep ==
    ASSUME Structure, NEW w \in Workers, NEW r \in Repos, StartIngest(w, r)
    PROVE  Structure'
<1> DEFINE i == NewImport("access", rows[r])
<1>1. i \in Import
  BY FreshImport DEF Phase, StartIngest, Structure, TypeOK
<1> HIDE DEF i
<1>2. job[w] = "idle" /\ imp' = [imp EXCEPT ![w][r] = i] /\ job' = [job EXCEPT ![w] = "cli"] /\ tx' = tx
  BY DEF StartIngest, i
<1>3. /\ imp' \in [Workers -> [Repos -> Import \cup {NoImport}]]
      /\ job' \in [Workers -> Routes \cup Tasks \cup {"idle"}]
      /\ OneEach'
      /\ \A v \in Workers : job[v] \in Routes => job'[v] = job[v] /\ imp'[v] = imp[v]
  BY <1>1, <1>2, BeginOne
<1>4. TxOwner'
  BY <1>2, <1>3, OwnerType DEF TxOwner, Structure
<1>5. cause' \in [Repos -> Causes]
  BY OverlapType DEF Structure, TypeOK, StartIngest
<1>6. jobs' \in [Repos -> SUBSET Workers]
  BY DEF Structure, TypeOK, StartIngest
<1> QED
  BY <1>3, <1>4, <1>5, <1>6 DEF Structure, TypeOK, StartIngest, esVars

LEMMA RecordBillErrorStep ==
    ASSUME Structure, NEW w \in Workers, NEW r \in Repos, RecordBillError(w, r)
    PROVE  Structure' /\ KeepsImports
<1>1. imp[w][r] # NoImport /\ imp[w][r] \in Import
  BY ImportType DEF RecordBillError
<1>2. imp' \in [Workers -> [Repos -> Import \cup {NoImport}]] /\ OneEach' /\ TxOwner' /\ KeepsImports
  BY <1>1, GoOnPc DEF RecordBillError, Phase
<1>3. [imp[w][r].br EXCEPT !.err = TRUE] \in Row
  BY <1>1 DEF Import, Row
<1>4. rows' \in [Repos -> Row \cup {NoRow}]
  BY <1>3 DEF RecordBillError, UpdateUnsafe, Structure, TypeOK
<1> QED
  BY <1>2, <1>4 DEF RecordBillError, Structure, TypeOK, esVars, histVars

LEMMA CompleteJobStep ==
    ASSUME Structure, NEW w \in Workers, NEW r \in Repos, CompleteJob(w, r)
    PROVE  Structure'
<1>1. jobs' \in [Repos -> SUBSET Workers]
  BY DEF CompleteJob, Structure, TypeOK
<1> QED
  BY <1>1 DEF CompleteJob, Structure, TypeOK, OneEach, TxOwner, esVars, histVars

\* A task that ends owns no uncommitted write.
LEMMA TaskLeaves ==
    ASSUME Structure, NEW w \in Workers, job[w] \in Tasks, Leave(w), UNCHANGED tx
    PROVE  /\ imp' \in [Workers -> [Repos -> Import \cup {NoImport}]]
           /\ job' \in [Workers -> Routes \cup Tasks \cup {"idle"}]
           /\ OneEach' /\ TxOwner'
<1>1. /\ imp' \in [Workers -> [Repos -> Import \cup {NoImport}]]
      /\ job' \in [Workers -> Routes \cup Tasks \cup {"idle"}]
      /\ OneEach'
      /\ \A v \in Workers \ {w} : job'[v] = job[v] /\ imp'[v] = imp[v]
  BY LeaveStep
<1>2. \A r \in Repos : tx[r] # NoTx => tx[r].by \in Workers \ {w}
  BY OwnerType DEF TxOwner, Structure, Routes, Tasks, Periodic
<1>3. TxOwner'
  BY <1>1, <1>2 DEF TxOwner, Structure
<1> QED
  BY <1>1, <1>3

LEMMA EndIngestStep ==
    ASSUME Structure, NEW w \in Workers, NEW r \in Repos, EndIngest(w, r)
    PROVE  Structure'
<1>1. /\ imp' \in [Workers -> [Repos -> Import \cup {NoImport}]]
      /\ job' \in [Workers -> Routes \cup Tasks \cup {"idle"}]
      /\ OneEach' /\ TxOwner'
  BY TaskLeaves DEF EndIngest, Tasks
<1>2. imp[w][r] \in Import
  BY ImportType DEF EndIngest
<1>3. NextUpdate(imp[w][r]) \in Row
  BY <1>2, NextUpdateRow DEF Structure, TypeOK
<1>4. rows' \in [Repos -> Row \cup {NoRow}]
  BY <1>3 DEF EndIngest, UpdateUnsafe, Structure, TypeOK
<1>5. faults' \in 0 .. MaxFaults
  BY FaultType DEF EndIngest, Structure, TypeOK
<1> QED
  BY <1>1, <1>4, <1>5 DEF EndIngest, Structure, TypeOK, esVars

LEMMA StartImportsStep ==
    ASSUME Structure, NEW w \in Workers, NEW rs \in SUBSET Due, NEW kind \in Periodic,
           StartImports(w, rs, kind), faults' \in 0 .. MaxFaults
    PROVE  Structure'
<1> DEFINE is == [r \in Repos |-> IF r \in rs THEN NewImport("access", rows[r]) ELSE NoImport]
<1>1. imp \in [Workers -> [Repos -> Import \cup {NoImport}]]
  BY DEF Structure, TypeOK
<1>2. job \in [Workers -> Routes \cup Tasks \cup {"idle"}]
  BY DEF Structure, TypeOK
<1>3. \A r \in rs : NewImport("access", rows[r]) \in Import
  BY FreshImport DEF Due, Phase, Structure, TypeOK
<1>4. is \in [Repos -> Import \cup {NoImport}]
  BY <1>3
<1> HIDE DEF is
<1>5. job[w] = "idle" /\ imp' = [imp EXCEPT ![w] = is] /\ job' = [job EXCEPT ![w] = kind] /\ tx' = tx
  BY DEF StartImports, dbVars, is
<1>6. imp' \in [Workers -> [Repos -> Import \cup {NoImport}]]
  BY <1>1, <1>4, <1>5
<1>7. job' \in [Workers -> Routes \cup Tasks \cup {"idle"}] /\ job'[w] = kind /\ kind # "idle"
  BY <1>2, <1>5 DEF Tasks, Periodic
<1>8. \A v \in Workers \ {w} : job'[v] = job[v] /\ imp'[v] = imp[v]
  BY <1>1, <1>2, <1>5
<1>9. OneEach'
  BY <1>7, <1>8 DEF OneEach, Structure
<1>10. \A r \in Repos : tx[r] # NoTx => tx[r].by \in Workers \ {w}
  <2>1. job[w] \notin Routes
    BY <1>5 DEF Routes
  <2> QED
    BY <2>1, OwnerType DEF TxOwner, Structure
<1>11. TxOwner'
  BY <1>5, <1>8, <1>10 DEF TxOwner, Structure
<1>12. cause' \in [Repos -> Causes]
  <2>1. rs \in SUBSET Repos
    BY DEF Due
  <2> QED
    BY <2>1, OverlapType DEF Structure, TypeOK, StartImports
<1> QED
  BY <1>6, <1>7, <1>9, <1>11, <1>12 DEF Structure, TypeOK, StartImports, dbVars, esVars

LEMMA StartIngestDueStep ==
    ASSUME Structure, NEW w \in Workers, StartIngestDue(w)
    PROVE  Structure'
BY StartImportsStep DEF StartIngestDue, Periodic, Structure, TypeOK

LEMMA StartIngestDueFailsStep ==
    ASSUME Structure, NEW w \in Workers, StartIngestDueFails(w)
    PROVE  Structure'
BY StartImportsStep, FaultType DEF StartIngestDueFails, Periodic, Structure, TypeOK

\* What a periodic task may have made of a row.
RowsAfter(w, rs) == [r \in Repos |->
    IF r \notin rs THEN rows[r]
    ELSE IF imp[w][r].pc = "awsError" THEN UpdateUnsafe(r, [imp[w][r].br EXCEPT !.err = TRUE])
    ELSE UpdateUnsafe(r, NextUpdate(imp[w][r]))]

LEMMA EndIngestDueRows ==
    ASSUME NEW w \in Workers, EndIngestDue(w)
    PROVE  \E rs \in SUBSET {r \in Repos : imp[w][r] # NoImport /\ imp[w][r].pc # "failed"} :
               /\ \A r \in rs : Unlocked(r)
               /\ rows' = RowsAfter(w, rs)
<1> DEFINE mine == {r \in Repos : imp[w][r] # NoImport /\ imp[w][r].pc # "failed"}
<1>1. \E rs \in SUBSET mine : rows' = RowsAfter(w, rs)
  BY DEF EndIngestDue, RowsAfter
<1>2. \A r \in mine : Unlocked(r)
  BY DEF EndIngestDue
<1> QED
  BY <1>1, <1>2

LEMMA EndIngestDueStep ==
    ASSUME Structure, NEW w \in Workers, EndIngestDue(w)
    PROVE  Structure'
<1>1. /\ imp' \in [Workers -> [Repos -> Import \cup {NoImport}]]
      /\ job' \in [Workers -> Routes \cup Tasks \cup {"idle"}]
      /\ OneEach' /\ TxOwner'
  BY TaskLeaves DEF EndIngestDue, Tasks, Periodic
<1>2. PICK rs \in SUBSET {r \in Repos : imp[w][r] # NoImport /\ imp[w][r].pc # "failed"} :
          rows' = RowsAfter(w, rs)
  BY EndIngestDueRows
<1>3. \A r \in rs : /\ [imp[w][r].br EXCEPT !.err = TRUE] \in Row
                     /\ NextUpdate(imp[w][r]) \in Row
  <2> TAKE r \in rs
  <2>1. imp[w][r] \in Import
    BY ImportType
  <2>2. NextUpdate(imp[w][r]) \in Row
    BY <2>1, NextUpdateRow DEF Structure, TypeOK
  <2>3. [imp[w][r].br EXCEPT !.err = TRUE] \in Row
    BY <2>1 DEF Import, Row
  <2> QED
    BY <2>2, <2>3
<1>4. rows \in [Repos -> Row \cup {NoRow}]
  BY DEF Structure, TypeOK
<1>5. rows' \in [Repos -> Row \cup {NoRow}]
  BY <1>2, <1>3, <1>4 DEF RowsAfter, UpdateUnsafe
<1>6. faults' \in 0 .. MaxFaults
  BY FaultType DEF EndIngestDue, Structure, TypeOK
<1> QED
  BY <1>1, <1>5, <1>6 DEF EndIngestDue, Structure, TypeOK, esVars

LEMMA AbandonDueStep ==
    ASSUME Structure, NEW w \in Workers, AbandonDue(w)
    PROVE  Structure'
<1>1. /\ imp' \in [Workers -> [Repos -> Import \cup {NoImport}]]
      /\ job' \in [Workers -> Routes \cup Tasks \cup {"idle"}]
      /\ OneEach' /\ TxOwner'
  <2>1. job[w] \in Tasks /\ Leave(w) /\ UNCHANGED tx
    BY DEF AbandonDue, Tasks, Periodic, dbVars
  <2> QED
    BY <2>1, TaskLeaves
<1> QED
  BY <1>1 DEF AbandonDue, Structure, TypeOK, dbVars, esVars, histVars

LEMMA DieStep ==
    ASSUME Structure, NEW ws \in SUBSET Workers, Die(ws), faults' \in 0 .. MaxFaults
    PROVE  Structure'
<1>1. /\ imp' \in [Workers -> [Repos -> Import \cup {NoImport}]]
      /\ job' \in [Workers -> Routes \cup Tasks \cup {"idle"}]
  BY DEF Die, Structure, TypeOK
<1>2. \A w \in ws : job'[w] = "idle" /\ \A r \in Repos : imp'[w][r] = NoImport
  BY DEF Die
<1>3. \A v \in Workers \ ws : job'[v] = job[v] /\ imp'[v] = imp[v]
  BY DEF Die
<1>4. OneEach'
  BY <1>2, <1>3 DEF OneEach, Structure
<1>5. \A r \in Repos : tx'[r] = IF \E w \in ws : HasLocked(w, r) THEN NoTx ELSE tx[r]
  BY DEF Die
<1>6. tx' \in [Repos -> [by : Workers, row : Row \cup {Gone}] \cup {NoTx}]
  BY DEF Die, Structure, TypeOK
<1>7. \A r \in Repos : tx'[r] # NoTx => tx'[r] = tx[r] /\ tx[r].by \in Workers \ ws
  BY <1>5, OwnerType DEF HasLocked
<1>8. TxOwner'
  BY <1>3, <1>7 DEF TxOwner, Structure
<1>9. cause' \in [Repos -> Causes]
  BY DEF Die, Structure, TypeOK, Causes
<1>10. jobs' \in [Repos -> SUBSET Workers] /\ stuck' \in SUBSET Repos
  BY DEF Die, Structure, TypeOK
<1> QED
  BY <1>1, <1>4, <1>6, <1>8, <1>9, <1>10 DEF Die, Structure, TypeOK, esVars

LEMMA CrashStep ==
    ASSUME Structure, NEW ws \in SUBSET Workers, Crash(ws)
    PROVE  Structure'
BY DieStep, FaultType DEF Crash, Structure, TypeOK

LEMMA PanicStep ==
    ASSUME Structure, NEW ws \in SUBSET Workers, Panic(ws)
    PROVE  Structure'
BY DieStep DEF Panic, Structure, TypeOK

LEMMA JobExpiresStep ==
    ASSUME Structure, NEW r \in Repos, JobExpires(r)
    PROVE  Structure'
BY DEF JobExpires, Structure, TypeOK, OneEach, TxOwner, esVars, histVars

LEMMA StructureInit == Init => Structure
<1> USE BillIngestionAssumption
<1>1. ASSUME Init PROVE TypeOK
  BY <1>1 DEF Init, TypeOK, Times, Absent, Version, Causes
<1> QED
  BY <1>1 DEF Init, Structure, OneEach, TxOwner

LEMMA StructureNext == Structure /\ [Next]_vars => Structure'
<1> SUFFICES ASSUME Structure, [Next]_vars
             PROVE  Structure'
  OBVIOUS
<1>1. CASE Aws
  BY <1>1, AwsStep
<1>2. CASE \E w \in Workers, r \in Repos : UpdateReport(w, r)
  BY <1>2, UpdateReportStep
<1>3. CASE \E c \in cleans : RunClean(c)
  BY <1>3, RunCleanStep
<1>4. CASE Handlers
  <2>1. \A r \in Repos : asked[r] \in Buckets
    BY DEF Structure, TypeOK
  <2> QED
    BY <1>4, <2>1, PostBillRepositoryStep, ReadRepositoryStep, WriteRepositoryStep, CommitStep,
       CommitFailsStep, EndRequestStep DEF Handlers, Routes
<1>5. CASE IngestionTasks
  BY <1>5, StartIngestStep, RecordBillErrorStep, CompleteJobStep, EndIngestStep,
     StartIngestDueStep, StartIngestDueFailsStep, EndIngestDueStep, AbandonDueStep
     DEF IngestionTasks
<1>6. CASE \E ws \in SUBSET Workers : Crash(ws) \/ Panic(ws)
  BY <1>6, CrashStep, PanicStep
<1>7. CASE \E r \in Repos : JobExpires(r)
  BY <1>7, JobExpiresStep
<1>8. CASE UNCHANGED vars
  BY <1>8 DEF vars, dbVars, esVars, histVars, Structure, TypeOK, OneEach, TxOwner
<1> QED
  BY <1>1, <1>2, <1>3, <1>4, <1>5, <1>6, <1>7, <1>8 DEF Next

\* The variables keep their types, an idle worker works on nothing, and an
\* uncommitted write always belongs to a request in progress.
THEOREM StructureHolds == Spec => []Structure
  BY StructureInit, StructureNext, PTL DEF Spec

THEOREM TypeCorrect == Spec => []TypeOK
<1>1. Structure => TypeOK
  BY DEF Structure
<1> QED
  BY <1>1, StructureHolds, PTL

-----------------------------------------------------------------------------
(* What a step may do.                                                     *)

\* What an ingestion task may write to a row.
TaskWrites(w, r) ==
    {UpdateUnsafe(r, [imp[w][r].br EXCEPT !.err = TRUE]), UpdateUnsafe(r, NextUpdate(imp[w][r]))}

\* A row only changes by the commit of a request, or by a task that is
\* working on it, while no request has it locked.
LEMMA RowsChange ==
    ASSUME Structure, [Next]_vars, NEW r \in Repos
    PROVE  \/ rows'[r] = rows[r]
           \/ Commit(r)
           \/ \E w \in Workers : /\ job[w] \in Tasks /\ imp[w][r] # NoImport
                                 /\ Unlocked(r) /\ rows'[r] \in TaskWrites(w, r)
<1>0. rows \in [Repos -> Row \cup {NoRow}]
  BY DEF Structure, TypeOK
<1>1. CASE Aws
  BY <1>1 DEF Aws, Tick, Publish, dbVars
<1>2. ASSUME NEW w \in Workers, NEW q \in Repos, UpdateReport(w, q)
      PROVE  rows' = rows
  BY <1>2 DEF UpdateReport, CleanAll, Access, ListPage, ListFails, CleanMonth, WriteItem, dbVars
<1>3. ASSUME NEW c \in cleans, RunClean(c)
      PROVE  rows' = rows
  BY <1>3 DEF RunClean, dbVars
<1>4. CASE Handlers
  <2>1. ASSUME NEW q \in Repos, q # r, Commit(q)
        PROVE  rows'[r] = rows[r]
    BY <1>0, <2>1 DEF Commit
  <2> QED
    BY <1>4, <2>1, ZenonT(60) DEF Handlers, PostBillRepository, ReadRepository, WriteRepository, CommitFails,
                      EndRequest, dbVars
<1>5. ASSUME NEW w \in Workers, NEW q \in Repos, RecordBillError(w, q)
      PROVE  rows'[r] = rows[r] \/ (q = r /\ rows'[r] \in TaskWrites(w, r))
  BY <1>0, <1>5 DEF RecordBillError, TaskWrites
<1>6. ASSUME NEW w \in Workers, NEW q \in Repos, EndIngest(w, q)
      PROVE  rows'[r] = rows[r] \/ (q = r /\ rows'[r] \in TaskWrites(w, r))
  BY <1>0, <1>6 DEF EndIngest, TaskWrites
<1>7. ASSUME NEW w \in Workers, EndIngestDue(w)
      PROVE  \/ rows'[r] = rows[r]
             \/ imp[w][r] # NoImport /\ Unlocked(r) /\ rows'[r] \in TaskWrites(w, r)
  <2>1. PICK rs \in SUBSET {q \in Repos : imp[w][q] # NoImport /\ imp[w][q].pc # "failed"} :
            /\ \A q \in rs : Unlocked(q)
            /\ rows' = RowsAfter(w, rs)
    BY <1>7, EndIngestDueRows
  <2>2. CASE r \in rs
    BY <2>1, <2>2 DEF RowsAfter, TaskWrites
  <2>3. CASE r \notin rs
    BY <2>1, <2>3 DEF RowsAfter
  <2> QED
    BY <2>2, <2>3
<1>8. CASE IngestionTasks
  <2>1. ASSUME NEW w \in Workers, NEW q \in Repos, StartIngest(w, q) \/ CompleteJob(w, q)
        PROVE  rows' = rows
    BY <2>1 DEF StartIngest, CompleteJob
  <2>2. ASSUME NEW w \in Workers, StartIngestDue(w) \/ StartIngestDueFails(w) \/ AbandonDue(w)
        PROVE  rows' = rows
    BY <2>2 DEF StartIngestDue, StartIngestDueFails, StartImports, AbandonDue, dbVars
  <2>3. ASSUME NEW w \in Workers, NEW q \in Repos, RecordBillError(w, q) \/ EndIngest(w, q)
        PROVE  job[w] \in Tasks /\ imp[w][q] # NoImport /\ Unlocked(q)
    BY <2>3 DEF RecordBillError, EndIngest, Tasks
  <2>4. ASSUME NEW w \in Workers, EndIngestDue(w)
        PROVE  job[w] \in Tasks
    BY <2>4 DEF EndIngestDue, Tasks, Periodic
  <2>5. CASE \E w \in Workers, q \in Repos : RecordBillError(w, q) \/ EndIngest(w, q)
    BY <1>5, <1>6, <2>3, <2>5
  <2>6. CASE \E w \in Workers : EndIngestDue(w)
    BY <1>7, <2>4, <2>6
  <2> QED
    BY <1>8, <2>1, <2>2, <2>5, <2>6 DEF IngestionTasks
<1>9. CASE UNCHANGED vars
  BY <1>9 DEF vars, dbVars
<1>10. ASSUME NEW ws \in SUBSET Workers, Crash(ws) \/ Panic(ws)
       PROVE  rows' = rows
  BY <1>10 DEF Crash, Panic, Die
<1>11. ASSUME NEW q \in Repos, JobExpires(q)
       PROVE  rows' = rows
  BY <1>11 DEF JobExpires
<1> QED
  BY <1>1, <1>2, <1>3, <1>4, <1>8, <1>9, <1>10, <1>11 DEF Next

\* A repository that was deleted is never brought back.
THEOREM DeletedForGood == Spec => DeletedStaysDeleted
<1> DEFINE Stays == \A r \in Repos : r \in used /\ rows[r] = NoRow /\ Unlocked(r) => rows'[r] = NoRow
<1>1. ASSUME Structure, [Next]_vars, NEW r \in Repos, rows[r] = NoRow, Unlocked(r)
      PROVE  rows'[r] = NoRow
  <2>1. ~Commit(r)
    BY <1>1 DEF Commit
  <2>2. \A w \in Workers : rows'[r] \in TaskWrites(w, r) => rows'[r] = NoRow
    BY <1>1 DEF TaskWrites, UpdateUnsafe
  <2> QED
    BY <1>1, <2>1, <2>2, RowsChange
<1>2. Structure /\ [Next]_vars => [Stays]_vars
  BY <1>1
<1> QED
  BY <1>2, StructureHolds, PTL DEF Spec, DeletedStaysDeleted

-----------------------------------------------------------------------------
(* What becomes of a worker in a step.                                     *)

GoesOn(w) ==
    /\ job'[w] = job[w]
    /\ \A r \in Repos : /\ imp'[w][r] = NoImport <=> imp[w][r] = NoImport
                        /\ imp[w][r] # NoImport => imp'[w][r].br = imp[w][r].br

Begins(w) ==
    \/ \E r \in Repos, b \in Buckets :
           \/ PostBillRepository(w, r, b)
           \/ \E kind \in {"patch", "delete"} : ReadRepository(w, r, kind, b)
    \/ \E r \in Repos : StartIngest(w, r)
    \/ \E rs \in SUBSET Due, kind \in Periodic : StartImports(w, rs, kind)

Ends(w) ==
    \/ EndRequest(w) \/ EndIngestDue(w) \/ AbandonDue(w)
    \/ \E r \in Repos : EndIngest(w, r)

Dies(w) == \E ws \in SUBSET Workers : w \in ws /\ Die(ws)

\* The periodic task begins as any other, whether or not it will be left.
LEMMA DueBegins ==
    ASSUME NEW w \in Workers, StartIngestDue(w) \/ StartIngestDueFails(w)
    PROVE  Begins(w)
BY DEF Begins, StartIngestDue, StartIngestDueFails, Periodic

\* Whoever is not of the process that dies is not disturbed.
LEMMA DieLeavesOthers ==
    ASSUME Structure, NEW ws \in SUBSET Workers, Die(ws), NEW w \in Workers
    PROVE  GoesOn(w) \/ Dies(w)
<1>1. w \in ws => Dies(w)
  BY DEF Dies
<1>2. w \notin ws => job'[w] = job[w] /\ imp'[w] = imp[w]
  BY DEF Die
<1>3. w \notin ws => GoesOn(w)
  BY <1>2 DEF GoesOn
<1> QED
  BY <1>1, <1>3

LEMMA OthersGoOn ==
    ASSUME Structure, NEW v \in Workers, Begins(v) \/ Ends(v), NEW w \in Workers \ {v}
    PROVE  GoesOn(w) /\ imp'[w] = imp[w]
<1>1. /\ imp \in [Workers -> [Repos -> Import \cup {NoImport}]]
      /\ job \in [Workers -> Routes \cup Tasks \cup {"idle"}]
  BY DEF Structure, TypeOK
<1>2. \/ Leave(v)
      \/ /\ \E kind : job' = [job EXCEPT ![v] = kind]
         /\ \/ \E r, i : imp' = [imp EXCEPT ![v][r] = i]
            \/ \E is : imp' = [imp EXCEPT ![v] = is]
  <2>1. ASSUME NEW r \in Repos, NEW b \in Buckets, PostBillRepository(v, r, b)
        PROVE  /\ \E kind : job' = [job EXCEPT ![v] = kind]
               /\ \E i : imp' = [imp EXCEPT ![v][r] = i]
    BY <2>1 DEF PostBillRepository
  <2>2. ASSUME NEW r \in Repos, NEW b \in Buckets, NEW kind, ReadRepository(v, r, kind, b)
        PROVE  /\ job' = [job EXCEPT ![v] = kind]
               /\ \E i : imp' = [imp EXCEPT ![v][r] = i]
    BY <2>2 DEF ReadRepository
  <2>3. ASSUME NEW r \in Repos, StartIngest(v, r)
        PROVE  /\ \E kind : job' = [job EXCEPT ![v] = kind]
               /\ \E i : imp' = [imp EXCEPT ![v][r] = i]
    BY <2>3 DEF StartIngest
  <2>4. ASSUME NEW rs \in SUBSET Due, NEW kind \in Periodic, StartImports(v, rs, kind)
        PROVE  /\ job' = [job EXCEPT ![v] = kind]
               /\ \E is : imp' = [imp EXCEPT ![v] = is]
    BY <2>4 DEF StartImports
  <2>5. Ends(v) => Leave(v)
    BY DEF Ends, EndRequest, EndIngestDue, AbandonDue, EndIngest
  <2> QED
    BY <2>1, <2>2, <2>3, <2>4, <2>5 DEF Begins
<1>3. job'[w] = job[w] /\ imp'[w] = imp[w]
  <2>1. CASE Leave(v)
    BY <1>1, <2>1 DEF Leave
  <2>2. CASE \E kind : job' = [job EXCEPT ![v] = kind]
    BY <1>1, <1>2, <2>1, <2>2
  <2> QED
    BY <1>2, <2>1, <2>2
<1> QED
  BY <1>3 DEF GoesOn

LEMMA WorkerChange ==
    ASSUME Structure, [Next]_vars, NEW w \in Workers
    PROVE  GoesOn(w) \/ Begins(w) \/ Ends(w) \/ Dies(w)
<1>1. KeepsImports => GoesOn(w)
  BY DEF KeepsImports, GoesOn
<1>2. UNCHANGED <<job, imp>> => GoesOn(w)
  BY DEF GoesOn
<1>3. CASE Aws
  BY <1>2, <1>3 DEF Aws, Tick, Publish
<1>4. CASE \E v \in Workers, r \in Repos : UpdateReport(v, r)
  BY <1>1, <1>4, UpdateReportStep
<1>5. CASE \E c \in cleans : RunClean(c)
  BY <1>2, <1>5 DEF RunClean
<1>6. CASE Handlers
  <2>1. ASSUME NEW v \in Workers, NEW r \in Repos, NEW b \in Buckets,
               PostBillRepository(v, r, b) \/ ReadRepository(v, r, "patch", b)
        PROVE  Begins(v)
    BY <2>1 DEF Begins
  <2>2. ASSUME NEW v \in Workers, NEW r \in Repos, ReadRepository(v, r, "delete", asked[r])
        PROVE  Begins(v)
    BY <2>2 DEF Begins, Structure, TypeOK
  <2>3. ASSUME NEW v \in Workers, NEW r \in Repos, WriteRepository(v, r)
        PROVE  GoesOn(w)
    BY <1>1, <2>3, WriteRepositoryStep
  <2>4. ASSUME NEW r \in Repos, Commit(r) \/ CommitFails(r)
        PROVE  GoesOn(w)
    <3>1. UNCHANGED <<job, imp>>
      BY <2>4 DEF Commit, CommitFails
    <3> QED
      BY <1>2, <3>1
  <2>5. ASSUME NEW v \in Workers, EndRequest(v)
        PROVE  Ends(v)
    BY <2>5 DEF Ends
  <2> QED
    BY <1>6, <2>1, <2>2, <2>3, <2>4, <2>5, OthersGoOn DEF Handlers
<1>7. CASE IngestionTasks
  <2>1. ASSUME NEW v \in Workers, NEW r \in Repos, StartIngest(v, r) \/ EndIngest(v, r)
        PROVE  Begins(v) \/ Ends(v)
    BY <2>1 DEF Begins, Ends
  <2>2. ASSUME NEW v \in Workers, StartIngestDue(v) \/ StartIngestDueFails(v)
                                  \/ EndIngestDue(v) \/ AbandonDue(v)
        PROVE  Begins(v) \/ Ends(v)
    BY <2>2, DueBegins DEF Ends
  <2>3. ASSUME NEW v \in Workers, NEW r \in Repos, RecordBillError(v, r)
        PROVE  GoesOn(w)
    BY <1>1, <2>3, RecordBillErrorStep
  <2>4. ASSUME NEW v \in Workers, NEW r \in Repos, CompleteJob(v, r)
        PROVE  GoesOn(w)
    BY <1>2, <2>4 DEF CompleteJob
  <2> QED
    BY <1>7, <2>1, <2>2, <2>3, <2>4, OthersGoOn DEF IngestionTasks
<1>8. CASE \E ws \in SUBSET Workers : Crash(ws) \/ Panic(ws)
  BY <1>8, DieLeavesOthers DEF Crash, Panic
<1>9. CASE \E r \in Repos : JobExpires(r)
  BY <1>2, <1>9 DEF JobExpires
<1>10. CASE UNCHANGED vars
  BY <1>2, <1>10 DEF vars
<1> QED
  BY <1>3, <1>4, <1>5, <1>6, <1>7, <1>8, <1>9, <1>10 DEF Next

-----------------------------------------------------------------------------
(* The update jobs.                                                        *)

LEMMA JobsChange ==
    ASSUME Structure, [Next]_vars, NEW w \in Workers, NEW r \in Repos, w \in jobs'[r]
    PROVE  (w \in jobs[r] /\ ~Dies(w)) \/ StartIngest(w, r)
<1>0. jobs \in [Repos -> SUBSET Workers]
  BY DEF Structure, TypeOK
<1>1. ~Dies(w)
  BY DEF Dies, Die
<1>2. CASE Aws
  BY <1>1, <1>2 DEF Aws, Tick, Publish, dbVars
<1>3. ASSUME NEW v \in Workers, NEW q \in Repos, UpdateReport(v, q)
      PROVE  jobs' = jobs
  BY <1>3 DEF UpdateReport, CleanAll, Access, ListPage, ListFails, CleanMonth, WriteItem, dbVars
<1>4. ASSUME NEW c \in cleans, RunClean(c)
      PROVE  jobs' = jobs
  BY <1>4 DEF RunClean, dbVars
<1>5. ASSUME Handlers
      PROVE  jobs'[r] \subseteq jobs[r]
  BY <1>0, <1>5, ZenonT(60) DEF Handlers, PostBillRepository, ReadRepository, WriteRepository, Commit, CommitFails,
                    EndRequest, dbVars
<1>6. ASSUME NEW v \in Workers, NEW q \in Repos, StartIngest(v, q)
      PROVE  w \in jobs[r] \/ StartIngest(w, r)
  BY <1>0, <1>6 DEF StartIngest
<1>7. ASSUME NEW v \in Workers, NEW q \in Repos,
             RecordBillError(v, q) \/ CompleteJob(v, q) \/ EndIngest(v, q)
      PROVE  jobs'[r] \subseteq jobs[r]
  BY <1>0, <1>7 DEF RecordBillError, CompleteJob, EndIngest
<1>8. ASSUME NEW v \in Workers, StartIngestDue(v) \/ StartIngestDueFails(v)
                                 \/ EndIngestDue(v) \/ AbandonDue(v)
      PROVE  jobs' = jobs
  BY <1>8 DEF StartIngestDue, StartIngestDueFails, StartImports, EndIngestDue, AbandonDue, dbVars
<1>9. CASE IngestionTasks
  BY <1>1, <1>6, <1>7, <1>8, <1>9 DEF IngestionTasks
<1>10. ASSUME NEW ws \in SUBSET Workers, Crash(ws) \/ Panic(ws)
       PROVE  jobs'[r] \subseteq jobs[r]
  BY <1>10 DEF Crash, Panic, Die
<1>11. ASSUME NEW q \in Repos, JobExpires(q)
       PROVE  jobs' = jobs
  BY <1>11 DEF JobExpires
<1>12. CASE UNCHANGED vars
  BY <1>1, <1>12 DEF vars, dbVars
<1> QED
  BY <1>1, <1>2, <1>3, <1>4, <1>5, <1>9, <1>10, <1>11, <1>12 DEF Next

\* The row of an update job that is pending belongs to a task that is still
\* ingesting that repository: every return of the task completes its job.
THEOREM PendingRuns == Spec => []PendingJobIsRunning
<1>1. Init => PendingJobIsRunning
  BY DEF Init, PendingJobIsRunning
<1>2. Structure /\ PendingJobIsRunning /\ [Next]_vars => PendingJobIsRunning'
  <2> SUFFICES ASSUME Structure, PendingJobIsRunning, [Next]_vars,
                      NEW r \in Repos, NEW w \in Workers, w \in jobs'[r]
               PROVE  job'[w] = "cli" /\ imp'[w][r] # NoImport
    <3>1. Structure /\ [Next]_vars => jobs' \in [Repos -> SUBSET Workers]
      BY StructureNext DEF Structure, TypeOK
    <3> QED
      BY <3>1 DEF PendingJobIsRunning
  <2>1. CASE StartIngest(w, r)
    <3>1. /\ imp \in [Workers -> [Repos -> Import \cup {NoImport}]]
          /\ job \in [Workers -> Routes \cup Tasks \cup {"idle"}]
          /\ rows[r] \in Row \cup {NoRow}
      BY DEF Structure, TypeOK
    <3>2. rows[r] \in Row
      BY <2>1, <3>1 DEF StartIngest
    <3>3. NewImport("access", rows[r]) # NoImport
      BY <3>2, FreshImport, MarkersAssumption DEF Phase
    <3> QED
      BY <2>1, <3>1, <3>3 DEF StartIngest
  <2>2. CASE w \in jobs[r] /\ ~Dies(w)
    <3>1. job[w] = "cli" /\ imp[w][r] # NoImport
      BY <2>2 DEF PendingJobIsRunning
    <3>2. ~Begins(w)
      BY <3>1 DEF Begins, PostBillRepository, ReadRepository, StartIngest, StartImports
    <3>3. ~EndRequest(w) /\ ~EndIngestDue(w) /\ ~AbandonDue(w)
      BY <3>1 DEF EndRequest, EndIngestDue, AbandonDue, Routes
    <3>4. ASSUME NEW q \in Repos, EndIngest(w, q)
          PROVE  FALSE
      <4>1. q = r
        BY <3>1, <3>4 DEF EndIngest, Structure, OneEach, Periodic
      <4> QED
        BY <2>2, <3>4, <4>1 DEF EndIngest, Completed
    <3>5. GoesOn(w)
      BY <2>2, <3>2, <3>3, <3>4, WorkerChange DEF Ends
    <3> QED
      BY <3>1, <3>5 DEF GoesOn
  <2> QED
    BY <2>1, <2>2, JobsChange
<1> QED
  BY <1>1, <1>2, StructureHolds, PTL DEF Spec

-----------------------------------------------------------------------------
(* The location of a repository: everybody who may write a row agrees with *)
(* the user on its location, as long as nothing has put the repository at  *)
(* risk.                                                                   *)

\* An id is in use before anything refers to it.
IdsInUse ==
    \A r \in Repos :
        /\ rows[r] # NoRow \/ tx[r] # NoTx => r \in used
        /\ \A w \in Workers : imp[w][r] # NoImport => r \in used

AtMostOne(r) == \A w, v \in Workers : imp[w][r] # NoImport /\ imp[v][r] # NoImport => w = v

RowAgrees(r) == rows[r] # NoRow => rows[r].bucket = asked[r]

TaskAgrees(r) ==
    \A w \in Workers : job[w] \in Tasks /\ imp[w][r] # NoImport => imp[w][r].br.bucket = asked[r]

RequestAgrees(r) ==
    tx[r] # NoTx /\ tx[r].row # Gone => tx[r].row.bucket = imp[tx[r].by][r].br.bucket

Agreement == \A r \in Repos :
    cause[r] = "none" => AtMostOne(r) /\ RowAgrees(r) /\ TaskAgrees(r) /\ RequestAgrees(r)

LocationInv == IdsInUse /\ Agreement

LEMMA CauseKept ==
    ASSUME Structure, [Next]_vars, NEW r \in Repos, cause'[r] = "none"
    PROVE  cause[r] = "none"
<1>0. cause \in [Repos -> Causes]
  BY DEF Structure, TypeOK
<1>1. ASSUME NEW q \in Repos, NEW why \in Causes \ {"none"}, Blame(q, why)
      PROVE  cause[r] = "none"
  BY <1>0, <1>1 DEF Blame
<1>2. ASSUME NEW rs \in SUBSET Repos, Overlap(rs)
      PROVE  cause[r] = "none"
  BY <1>2 DEF Overlap
<1>3. CASE Aws
  BY <1>3 DEF Aws, Tick, Publish, histVars
<1>4. ASSUME NEW w \in Workers, NEW q \in Repos, UpdateReport(w, q)
      PROVE  cause[r] = "none"
  <2>1. CASE CleanAll(w, q) \/ Access(w, q) \/ ListPage(w, q) \/ ListFails(w, q) \/ CleanMonth(w, q)
    BY <1>1, <2>1 DEF CleanAll, Access, ListPage, ListFails, CleanMonth, Causes
  <2>2. ASSUME NEW p \in Periods, WriteItem(w, q, p)
        PROVE  cause[r] = "none"
    BY <1>1, <2>2 DEF WriteItem, Causes
  <2> QED
    BY <1>4, <2>1, <2>2 DEF UpdateReport
<1>5. CASE Handlers
  BY <1>1, <1>2, <1>5, ZenonT(60) DEF Handlers, PostBillRepository, ReadRepository, WriteRepository, Commit,
                          CommitFails, EndRequest, histVars, Causes
<1>6. CASE IngestionTasks
  <2>1. ASSUME NEW w \in Workers, NEW rs \in SUBSET Due, NEW kind, StartImports(w, rs, kind)
        PROVE  cause[r] = "none"
    BY <1>2, <2>1 DEF StartImports, Due
  <2>2. ASSUME NEW w \in Workers, StartIngestDue(w) \/ StartIngestDueFails(w)
        PROVE  cause[r] = "none"
    BY <2>1, <2>2 DEF StartIngestDue, StartIngestDueFails
  <2> QED
    BY <1>2, <1>6, <2>2, ZenonT(60) DEF IngestionTasks, StartIngest, RecordBillError, CompleteJob, EndIngest,
                            EndIngestDue, AbandonDue, histVars
<1>7. ASSUME NEW ws \in SUBSET Workers, Crash(ws) \/ Panic(ws)
      PROVE  cause[r] = "none"
  BY <1>7 DEF Crash, Panic, Die
<1>8. CASE (\E c \in cleans : RunClean(c)) \/ (\E q \in Repos : JobExpires(q)) \/ UNCHANGED vars
  BY <1>8 DEF RunClean, JobExpires, vars, histVars
<1> QED
  BY <1>3, <1>4, <1>5, <1>6, <1>7, <1>8 DEF Next

LEMMA AskedChange ==
    ASSUME Structure, [Next]_vars, NEW r \in Repos
    PROVE  asked'[r] = asked[r] \/ Commit(r)
<1>0. asked \in [Repos -> Buckets]
  BY DEF Structure, TypeOK
<1>1. CASE Aws
  BY <1>1 DEF Aws, Tick, Publish, histVars
<1>2. ASSUME NEW w \in Workers, NEW q \in Repos, UpdateReport(w, q)
      PROVE  asked' = asked
  BY <1>2 DEF UpdateReport, CleanAll, Access, ListPage, ListFails, CleanMonth, WriteItem
<1>3. CASE Handlers
  <2>1. ASSUME NEW q \in Repos, q # r, Commit(q)
        PROVE  asked'[r] = asked[r]
    BY <1>0, <2>1 DEF Commit
  <2> QED
    BY <1>3, <2>1, ZenonT(60) DEF Handlers, PostBillRepository, ReadRepository, WriteRepository, CommitFails,
                      EndRequest, histVars
<1>4. CASE IngestionTasks
  BY <1>4, ZenonT(60) DEF IngestionTasks, StartIngest, RecordBillError, CompleteJob, EndIngest, StartIngestDue,
              StartIngestDueFails, StartImports, EndIngestDue, AbandonDue, histVars
<1>5. ASSUME NEW ws \in SUBSET Workers, Crash(ws) \/ Panic(ws)
      PROVE  asked' = asked
  BY <1>5 DEF Crash, Panic, Die
<1>6. CASE (\E c \in cleans : RunClean(c)) \/ (\E q \in Repos : JobExpires(q)) \/ UNCHANGED vars
  BY <1>6 DEF RunClean, JobExpires, vars, histVars
<1> QED
  BY <1>1, <1>2, <1>3, <1>4, <1>5, <1>6 DEF Next

LEMMA TxChange ==
    ASSUME Structure, [Next]_vars, NEW r \in Repos, tx'[r] # NoTx
    PROVE  \/ tx'[r] = tx[r] /\ ~Commit(r) /\ ~Dies(tx[r].by)
           \/ \E w \in Workers, b \in Buckets : PostBillRepository(w, r, b)
           \/ \E w \in Workers : WriteRepository(w, r)
<1>0. tx \in [Repos -> [by : Workers, row : Row \cup {Gone}] \cup {NoTx}]
  BY DEF Structure, TypeOK
<1>00. ~Commit(r) /\ (tx'[r] = tx[r] => ~Dies(tx[r].by))
  BY <1>0 DEF Commit, Dies, Die, HasLocked
<1>1. CASE Aws
  BY <1>00, <1>1 DEF Aws, Tick, Publish, dbVars
<1>2. ASSUME NEW w \in Workers, NEW q \in Repos, UpdateReport(w, q)
      PROVE  tx' = tx
  BY <1>2 DEF UpdateReport, CleanAll, Access, ListPage, ListFails, CleanMonth, WriteItem, dbVars
<1>3. CASE Handlers
  <2>1. ASSUME NEW q \in Repos, Commit(q) \/ CommitFails(q)
        PROVE  tx'[r] = tx[r]
    BY <1>0, <2>1 DEF Commit, CommitFails
  <2>2. ASSUME NEW w \in Workers, NEW q \in Repos, WriteRepository(w, q)
        PROVE  tx'[r] = tx[r] \/ q = r
    BY <1>0, <2>2 DEF WriteRepository
  <2>3. ASSUME NEW w \in Workers, NEW q \in Repos, NEW b \in Buckets, PostBillRepository(w, q, b)
        PROVE  tx'[r] = tx[r] \/ q = r
    BY <1>0, <2>3 DEF PostBillRepository
  <2>4. ASSUME NEW w \in Workers, NEW q \in Repos, NEW kind, NEW b, ReadRepository(w, q, kind, b)
        PROVE  tx' = tx
    BY <2>4 DEF ReadRepository, dbVars
  <2>5. ASSUME NEW w \in Workers, EndRequest(w)
        PROVE  tx' = tx
    BY <2>5 DEF EndRequest, dbVars
  <2> QED
    BY <1>00, <1>3, <2>1, <2>2, <2>3, <2>4, <2>5 DEF Handlers
<1>4. CASE IngestionTasks
  BY <1>00, <1>4, ZenonT(60) DEF IngestionTasks, StartIngest, RecordBillError, CompleteJob, EndIngest, StartIngestDue,
                     StartIngestDueFails, StartImports, EndIngestDue, AbandonDue, dbVars
<1>5. ASSUME NEW ws \in SUBSET Workers, Crash(ws) \/ Panic(ws)
      PROVE  tx'[r] = tx[r]
  BY <1>5 DEF Crash, Panic, Die
<1>6. CASE (\E c \in cleans : RunClean(c)) \/ (\E q \in Repos : JobExpires(q)) \/ UNCHANGED vars
  BY <1>00, <1>6 DEF RunClean, JobExpires, vars, dbVars
<1> QED
  BY <1>00, <1>1, <1>2, <1>3, <1>4, <1>5, <1>6 DEF Next

LEMMA UsedGrows ==
    ASSUME Structure, [Next]_vars
    PROVE  used \subseteq used'
<1>1. CASE Aws
  BY <1>1 DEF Aws, Tick, Publish, dbVars
<1>2. ASSUME NEW w \in Workers, NEW q \in Repos, UpdateReport(w, q)
      PROVE  used' = used
  BY <1>2 DEF UpdateReport, CleanAll, Access, ListPage, ListFails, CleanMonth, WriteItem, dbVars
<1>3. CASE Handlers
  BY <1>3, ZenonT(60) DEF Handlers, PostBillRepository, ReadRepository, WriteRepository, Commit, CommitFails,
              EndRequest, dbVars
<1>4. CASE IngestionTasks
  BY <1>4, ZenonT(60) DEF IngestionTasks, StartIngest, RecordBillError, CompleteJob, EndIngest, StartIngestDue,
              StartIngestDueFails, StartImports, EndIngestDue, AbandonDue, dbVars
<1>5. CASE \E ws \in SUBSET Workers : Crash(ws) \/ Panic(ws)
  BY <1>5 DEF Crash, Panic, Die
<1>6. CASE (\E c \in cleans : RunClean(c)) \/ (\E q \in Repos : JobExpires(q)) \/ UNCHANGED vars
  BY <1>6 DEF RunClean, JobExpires, vars, dbVars
<1> QED
  BY <1>1, <1>2, <1>3, <1>4, <1>5, <1>6 DEF Next

\* A worker starts with a new repository, or with the row as it is now; two at
\* once on the same repository are an overlap.
LEMMA BeginsOn ==
    ASSUME Structure, NEW w \in Workers, Begins(w), NEW r \in Repos, imp'[w][r] # NoImport
    PROVE  /\ job[w] = "idle" /\ imp[w][r] = NoImport
           /\ asked' = asked
           /\ \/ \E b \in Buckets : PostBillRepository(w, r, b)
              \/ /\ rows[r] # NoRow
                 /\ InFlight(r) => cause'[r] # "none"
                 /\ job'[w] \in Tasks => imp'[w][r].br = rows[r]
<1>1. /\ imp \in [Workers -> [Repos -> Import \cup {NoImport}]]
      /\ job \in [Workers -> Routes \cup Tasks \cup {"idle"}]
  BY DEF Structure, TypeOK
<1>2. job[w] = "idle"
  BY DEF Begins, PostBillRepository, ReadRepository, StartIngest, StartImports
<1>3. \A q \in Repos : imp[w][q] = NoImport
  BY <1>2 DEF Structure, OneEach
<1>4. asked' = asked
  BY DEF Begins, PostBillRepository, ReadRepository, StartIngest, StartImports
<1>5. ASSUME NEW rs \in SUBSET Repos, r \in rs, Overlap(rs), InFlight(r)
      PROVE  cause'[r] # "none"
  BY <1>5 DEF Overlap
<1>6. ASSUME NEW q \in Repos, NEW b \in Buckets, PostBillRepository(w, q, b)
      PROVE  PostBillRepository(w, r, b)
  <2>1. q = r
    BY <1>1, <1>3, <1>6 DEF PostBillRepository
  <2> QED
    BY <1>6, <2>1
<1>7. ASSUME NEW q \in Repos, NEW b \in Buckets, NEW kind \in {"patch", "delete"}, ReadRepository(w, q, kind, b)
      PROVE  /\ rows[r] # NoRow /\ (InFlight(r) => cause'[r] # "none")
             /\ job'[w] \notin Tasks
  <2>1. q = r
    BY <1>1, <1>3, <1>7 DEF ReadRepository
  <2>2. job'[w] \notin Tasks
    BY <1>1, <1>7 DEF ReadRepository, Tasks, Periodic
  <2> QED
    BY <1>5, <1>7, <2>1, <2>2 DEF ReadRepository
<1>8. ASSUME NEW q \in Repos, StartIngest(w, q)
      PROVE  /\ rows[r] # NoRow /\ (InFlight(r) => cause'[r] # "none")
             /\ imp'[w][r].br = rows[r]
  <2>1. q = r
    BY <1>1, <1>3, <1>8 DEF StartIngest
  <2>2. imp'[w][r] = NewImport("access", rows[r])
    BY <1>1, <1>8, <2>1 DEF StartIngest
  <2> QED
    BY <1>5, <1>8, <2>1, <2>2 DEF StartIngest, NewImport
<1>9. ASSUME NEW rs \in SUBSET Due, NEW kind \in Periodic, StartImports(w, rs, kind)
      PROVE  /\ rows[r] # NoRow /\ (InFlight(r) => cause'[r] # "none")
             /\ imp'[w][r].br = rows[r]
  <2>1. imp'[w][r] = IF r \in rs THEN NewImport("access", rows[r]) ELSE NoImport
    BY <1>1, <1>9 DEF StartImports
  <2>2. r \in rs /\ imp'[w][r].br = rows[r]
    BY <2>1 DEF NewImport
  <2>3. Overlap(rs) /\ rs \in SUBSET Repos
    BY <1>9 DEF StartImports, Due
  <2> QED
    BY <1>5, <2>2, <2>3 DEF Due
<1> QED
  BY <1>2, <1>3, <1>4, <1>6, <1>7, <1>8, <1>9 DEF Begins

LEMMA EndsOff ==
    ASSUME Structure, NEW w \in Workers, Ends(w) \/ Dies(w), NEW r \in Repos
    PROVE  imp'[w][r] = NoImport
<1>1. imp \in [Workers -> [Repos -> Import \cup {NoImport}]]
  BY DEF Structure, TypeOK
<1>2. Dies(w) => imp'[w][r] = NoImport
  BY DEF Dies, Die
<1>3. Ends(w) => Leave(w)
  BY DEF Ends, EndRequest, EndIngestDue, AbandonDue, EndIngest
<1> QED
  BY <1>1, <1>2, <1>3 DEF Leave

\* Who works on a repository after a step was working on it, or begins.
LEMMA InFlightChange ==
    ASSUME Structure, [Next]_vars, NEW w \in Workers, NEW r \in Repos, imp'[w][r] # NoImport
    PROVE  \/ /\ imp[w][r] # NoImport
              /\ job'[w] = job[w] /\ imp'[w][r].br = imp[w][r].br
           \/ Begins(w)
<1>1. CASE GoesOn(w)
  BY <1>1 DEF GoesOn
<1> QED
  BY <1>1, WorkerChange, EndsOff

LEMMA IdsInUseStep == Structure /\ IdsInUse /\ [Next]_vars => IdsInUse'
<1> SUFFICES ASSUME Structure, IdsInUse, [Next]_vars, NEW r \in Repos
             PROVE  /\ rows'[r] # NoRow \/ tx'[r] # NoTx => r \in used'
                    /\ \A w \in Workers : imp'[w][r] # NoImport => r \in used'
  BY DEF IdsInUse
<1>1. ASSUME NEW w \in Workers, NEW b \in Buckets, PostBillRepository(w, r, b)
      PROVE  r \in used'
  BY <1>1 DEF PostBillRepository
<1>2. ASSUME NEW w \in Workers, imp'[w][r] # NoImport
      PROVE  r \in used'
  <2>1. CASE Begins(w)
    BY <1>1, <1>2, <2>1, BeginsOn, UsedGrows DEF IdsInUse
  <2>2. CASE imp[w][r] # NoImport
    BY <2>2, UsedGrows DEF IdsInUse
  <2> QED
    BY <1>2, <2>1, <2>2, InFlightChange
<1>3. ASSUME tx'[r] # NoTx
      PROVE  r \in used'
  <2>1. ASSUME NEW w \in Workers, WriteRepository(w, r)
        PROVE  r \in used'
    BY <2>1, UsedGrows DEF WriteRepository, IdsInUse
  <2> QED
    BY <1>1, <1>3, <2>1, TxChange, UsedGrows DEF IdsInUse
<1>4. ASSUME rows'[r] # NoRow
      PROVE  r \in used'
  <2>1. CASE Commit(r)
    BY <2>1, UsedGrows DEF Commit, Unlocked, IdsInUse
  <2>2. CASE \E w \in Workers : imp[w][r] # NoImport
    BY <2>2, UsedGrows DEF IdsInUse
  <2> QED
    BY <1>4, <2>1, <2>2, RowsChange, UsedGrows DEF IdsInUse
<1> QED
  BY <1>2, <1>3, <1>4

LEMMA AtMostOneStep ==
    ASSUME Structure, IdsInUse, [Next]_vars, NEW r \in Repos, AtMostOne(r), cause'[r] = "none"
    PROVE  AtMostOne(r)'
<1> SUFFICES ASSUME NEW w \in Workers, NEW v \in Workers \ {w},
                    imp'[w][r] # NoImport, imp'[v][r] # NoImport
             PROVE  FALSE
  BY DEF AtMostOne
<1>1. ASSUME NEW x \in Workers, NEW y \in Workers \ {x}, Begins(x),
             imp'[x][r] # NoImport, imp'[y][r] # NoImport
      PROVE  FALSE
  <2>1. imp[y][r] # NoImport
    BY <1>1, OthersGoOn
  <2>2. InFlight(r) /\ r \in used
    BY <2>1 DEF InFlight, IdsInUse
  <2> QED
    BY <1>1, <2>2, BeginsOn DEF PostBillRepository
<1>2. imp[w][r] # NoImport /\ imp[v][r] # NoImport
  BY <1>1, InFlightChange
<1> QED
  BY <1>2 DEF AtMostOne

LEMMA RowAgreesStep ==
    ASSUME Structure, [Next]_vars, NEW r \in Repos, RowAgrees(r), TaskAgrees(r), RequestAgrees(r)
    PROVE  RowAgrees(r)'
<1>1. CASE Commit(r)
  <2>1. tx[r] # NoTx
    BY <1>1 DEF Commit, Unlocked
  <2>2. rows \in [Repos -> Row \cup {NoRow}] /\ asked \in [Repos -> Buckets]
    BY DEF Structure, TypeOK
  <2> QED
    BY <1>1, <2>1, <2>2 DEF Commit, RowAgrees, RequestAgrees
<1>2. CASE asked'[r] = asked[r] /\ rows'[r] = rows[r]
  BY <1>2 DEF RowAgrees
<1>3. ASSUME asked'[r] = asked[r], NEW w \in Workers, job[w] \in Tasks, imp[w][r] # NoImport,
             rows'[r] \in TaskWrites(w, r)
      PROVE  RowAgrees(r)'
  <2>1. imp[w][r].br.bucket = asked[r]
    BY <1>3 DEF TaskAgrees
  <2>2. imp[w][r].br \in Row
    BY <1>3, ImportType DEF Import
  <2>3. [imp[w][r].br EXCEPT !.err = TRUE].bucket = asked[r]
    BY <2>1, <2>2 DEF Row
  <2>4. NextUpdate(imp[w][r]).bucket = asked[r]
    BY <2>1, <2>2 DEF Row, NextUpdate
  <2> QED
    BY <1>3, <2>3, <2>4 DEF TaskWrites, UpdateUnsafe, RowAgrees
<1> QED
  BY <1>1, <1>2, <1>3, AskedChange, RowsChange

LEMMA TaskAgreesStep ==
    ASSUME Structure, [Next]_vars, NEW r \in Repos, AtMostOne(r), RowAgrees(r), TaskAgrees(r)
    PROVE  TaskAgrees(r)'
<1> SUFFICES ASSUME NEW w \in Workers, job'[w] \in Tasks, imp'[w][r] # NoImport
             PROVE  imp'[w][r].br.bucket = asked'[r]
  BY DEF TaskAgrees
<1>1. CASE imp[w][r] # NoImport /\ job'[w] = job[w] /\ imp'[w][r].br = imp[w][r].br
  <2>1. ~Commit(r)
    <3>1. job[w] \notin Routes
      BY <1>1 DEF Routes, Tasks, Periodic
    <3>2. tx[r] # NoTx => tx[r].by = w
      BY <1>1, OwnerType DEF AtMostOne, Structure, TxOwner
    <3> QED
      BY <3>1, <3>2 DEF Commit, Unlocked, Structure, TxOwner
  <2> QED
    BY <1>1, <2>1, AskedChange DEF TaskAgrees
<1>2. CASE Begins(w)
  <2>1. ~\E b \in Buckets : PostBillRepository(w, r, b)
    BY DEF PostBillRepository, Structure, TypeOK, Tasks, Periodic
  <2> QED
    BY <1>2, <2>1, BeginsOn DEF RowAgrees
<1> QED
  BY <1>1, <1>2, InFlightChange

LEMMA RequestAgreesStep ==
    ASSUME Structure, [Next]_vars, NEW r \in Repos, RequestAgrees(r)
    PROVE  RequestAgrees(r)'
<1> SUFFICES ASSUME tx'[r] # NoTx, tx'[r].row # Gone
             PROVE  tx'[r].row.bucket = imp'[tx'[r].by][r].br.bucket
  BY DEF RequestAgrees
<1>0. /\ imp \in [Workers -> [Repos -> Import \cup {NoImport}]]
      /\ tx \in [Repos -> [by : Workers, row : Row \cup {Gone}] \cup {NoTx}]
  BY DEF Structure, TypeOK
<1>1. CASE tx'[r] = tx[r] /\ ~Commit(r) /\ ~Dies(tx[r].by)
  <2> DEFINE w == tx[r].by
  <2>1. w \in Workers /\ job[w] \in Routes /\ imp[w][r] # NoImport
    BY <1>1, OwnerType DEF Structure, TxOwner
  <2>2. ~Begins(w)
    BY <2>1 DEF Begins, PostBillRepository, ReadRepository, StartIngest, StartImports, Routes
  <2>3. ~Ends(w)
    BY <1>1, <2>1 DEF Ends, EndRequest, EndIngestDue, AbandonDue, EndIngest, HasLocked, Routes
  <2>4. GoesOn(w)
    BY <1>1, <2>1, <2>2, <2>3, WorkerChange
  <2> QED
    BY <1>1, <2>1, <2>4 DEF GoesOn, RequestAgrees
<1>2. ASSUME NEW w \in Workers, NEW b \in Buckets, PostBillRepository(w, r, b)
      PROVE  tx'[r].row.bucket = imp'[tx'[r].by][r].br.bucket
  BY <1>0, <1>2 DEF PostBillRepository, NewImport
<1>3. ASSUME NEW w \in Workers, WriteRepository(w, r)
      PROVE  tx'[r].row.bucket = imp'[tx'[r].by][r].br.bucket
  <2>1. imp[w][r] # NoImport
    BY <1>3 DEF WriteRepository
  <2>2. imp'[w][r].br = imp[w][r].br
    BY <1>3, <2>1, WriteRepositoryStep DEF KeepsImports
  <2>3. tx[r] = NoTx
    BY <1>3 DEF WriteRepository, Unlocked
  <2>4. tx'[r].by = w /\ tx'[r].row = imp[w][r].br
    BY <1>0, <1>3, <2>3 DEF WriteRepository, SafeUpdate
  <2> QED
    BY <2>2, <2>4
<1> QED
  BY <1>1, <1>2, <1>3, TxChange

LEMMA LocationInit == Init => LocationInv
BY DEF Init, LocationInv, IdsInUse, Agreement, AtMostOne, RowAgrees, TaskAgrees, RequestAgrees

LEMMA LocationNext == Structure /\ LocationInv /\ [Next]_vars => LocationInv'
<1> SUFFICES ASSUME Structure, LocationInv, [Next]_vars
             PROVE  LocationInv'
  OBVIOUS
<1>1. IdsInUse'
  BY IdsInUseStep DEF LocationInv
<1>2. ASSUME NEW r \in Repos, cause'[r] = "none"
      PROVE  AtMostOne(r)' /\ RowAgrees(r)' /\ TaskAgrees(r)' /\ RequestAgrees(r)'
  <2>1. AtMostOne(r) /\ RowAgrees(r) /\ TaskAgrees(r) /\ RequestAgrees(r) /\ IdsInUse
    BY <1>2, CauseKept DEF LocationInv, Agreement
  <2> QED
    BY <1>2, <2>1, AtMostOneStep, RowAgreesStep, TaskAgreesStep, RequestAgreesStep
<1> QED
  BY <1>1, <1>2 DEF LocationInv, Agreement

\* The location of a repository is the one the user last set, unless one of
\* the recorded causes has put the repository at risk: no interleaving of the
\* handlers, the tasks, the crashes and the retries can move it otherwise.
THEOREM LocationKept == Spec => []LocationHasCause
<1>1. LocationInv => LocationHasCause
  BY DEF LocationInv, Agreement, RowAgrees, LocationHasCause, Settled
<1> QED
  BY <1>1, LocationInit, LocationNext, StructureHolds, PTL DEF Spec

-----------------------------------------------------------------------------
(* What becomes of the import of a worker in a step.                       *)

\* A worker starts with an empty import.
LEMMA BeginsFresh ==
    ASSUME Structure, NEW w \in Workers, Begins(w), NEW r \in Repos, imp'[w][r] # NoImport
    PROVE  \/ \E b \in Buckets : PostBillRepository(w, r, b)
           \/ \E b \in Buckets, kind \in {"patch", "delete"} : ReadRepository(w, r, kind, b)
           \/ /\ job'[w] \in Tasks /\ rows[r] # NoRow
              /\ imp'[w][r] = NewImport("access", rows[r])
<1>1. /\ imp \in [Workers -> [Repos -> Import \cup {NoImport}]]
      /\ job \in [Workers -> Routes \cup Tasks \cup {"idle"}]
  BY DEF Structure, TypeOK
<1>2. \A q \in Repos : imp[w][q] = NoImport
  BY BeginsOn DEF Begins, PostBillRepository, ReadRepository, StartIngest, StartImports, Structure, OneEach
<1>3. ASSUME NEW q \in Repos, NEW b \in Buckets, PostBillRepository(w, q, b)
      PROVE  PostBillRepository(w, r, b)
  <2>1. q = r
    BY <1>1, <1>2, <1>3 DEF PostBillRepository
  <2> QED
    BY <1>3, <2>1
<1>4. ASSUME NEW q \in Repos, NEW b \in Buckets, NEW kind \in {"patch", "delete"},
             ReadRepository(w, q, kind, b)
      PROVE  ReadRepository(w, r, kind, b)
  <2>1. q = r
    BY <1>1, <1>2, <1>4 DEF ReadRepository
  <2> QED
    BY <1>4, <2>1
<1>5. ASSUME NEW q \in Repos, StartIngest(w, q)
      PROVE  /\ job'[w] \in Tasks /\ rows[r] # NoRow
             /\ imp'[w][r] = NewImport("access", rows[r])
  <2>1. q = r
    BY <1>1, <1>2, <1>5 DEF StartIngest
  <2> QED
    BY <1>1, <1>5, <2>1 DEF StartIngest, Tasks
<1>6. ASSUME NEW rs \in SUBSET Due, NEW kind \in Periodic, StartImports(w, rs, kind)
      PROVE  /\ job'[w] \in Tasks /\ rows[r] # NoRow
             /\ imp'[w][r] = NewImport("access", rows[r])
  <2>1. imp'[w][r] = IF r \in rs THEN NewImport("access", rows[r]) ELSE NoImport
    BY <1>1, <1>6 DEF StartImports
  <2>2. job'[w] \in Tasks
    BY <1>1, <1>6 DEF StartImports, Tasks
  <2> QED
    BY <2>1, <2>2 DEF Due
<1> QED
  BY <1>3, <1>4, <1>5, <1>6 DEF Begins

\* A step of the goroutine or the task that works on a repository.
WorksOn(w, r) == UpdateReport(w, r) \/ WriteRepository(w, r) \/ RecordBillError(w, r)

LEMMA UpdateLeavesOthers ==
    ASSUME Structure, NEW v \in Workers, NEW q \in Repos, WorksOn(v, q)
    PROVE  /\ job' = job
           /\ \A w \in Workers : \A r \in Repos : w # v \/ r # q => imp'[w][r] = imp[w][r]
<1>1. imp \in [Workers -> [Repos -> Import \cup {NoImport}]]
  BY DEF Structure, TypeOK
<1>2. ASSUME NEW i, imp' = [imp EXCEPT ![v][q] = i]
      PROVE  \A w \in Workers : \A r \in Repos : w # v \/ r # q => imp'[w][r] = imp[w][r]
  BY <1>1, <1>2
<1>3. CASE CleanAll(v, q) \/ Access(v, q) \/ WriteRepository(v, q) \/ RecordBillError(v, q)
  <2>1. job' = job /\ \E pc : imp' = [imp EXCEPT ![v][q].pc = pc]
    BY <1>3 DEF CleanAll, Access, WriteRepository, RecordBillError
  <2>2. \E i : imp' = [imp EXCEPT ![v][q] = i]
    BY <1>1, <2>1
  <2> QED
    BY <1>2, <2>1, <2>2
<1>4. CASE ListPage(v, q)
  <2>1. job' = job /\ \E i : imp' = [imp EXCEPT ![v][q] = i]
    BY <1>4 DEF ListPage
  <2> QED
    BY <1>2, <2>1
<1>5. CASE ListFails(v, q) \/ CleanMonth(v, q)
  <2>1. job' = job /\ (imp' = [imp EXCEPT ![v][q].listed = Periods] \/ imp' = [imp EXCEPT ![v][q].cleaned = TRUE])
    BY <1>5 DEF ListFails, CleanMonth
  <2>2. \E i : imp' = [imp EXCEPT ![v][q] = i]
    BY <1>1, <2>1
  <2> QED
    BY <1>2, <2>1, <2>2
<1>6. ASSUME NEW p \in Periods, WriteItem(v, q, p)
      PROVE  job' = job /\ \E i : imp' = [imp EXCEPT ![v][q] = i]
  <2>1. job' = job /\ imp' = [imp EXCEPT ![v][q].left = @ \ {p}]
    BY <1>6 DEF WriteItem
  <2> QED
    BY <1>1, <2>1
<1> QED
  BY <1>2, <1>3, <1>4, <1>5, <1>6 DEF WorksOn, UpdateReport

\* What a worker holds of a repository after a step.
LEMMA ImportChange ==
    ASSUME Structure, [Next]_vars, NEW w \in Workers, NEW r \in Repos, imp'[w][r] # NoImport
    PROVE  \/ imp'[w][r] = imp[w][r] /\ job'[w] = job[w]
           \/ WorksOn(w, r)
           \/ Begins(w)
<1>1. UNCHANGED <<job, imp>> => imp'[w][r] = imp[w][r] /\ job'[w] = job[w]
  OBVIOUS
<1>2. ASSUME NEW v \in Workers, NEW q \in Repos, WorksOn(v, q)
      PROVE  (imp'[w][r] = imp[w][r] /\ job'[w] = job[w]) \/ WorksOn(w, r)
  BY <1>2, UpdateLeavesOthers
<1>3. ASSUME NEW v \in Workers, Begins(v) \/ Ends(v)
      PROVE  (imp'[w][r] = imp[w][r] /\ job'[w] = job[w]) \/ Begins(w)
  <2>1. CASE v = w
    BY <1>3, <2>1, EndsOff
  <2>2. CASE v # w
    BY <1>3, <2>2, OthersGoOn DEF GoesOn
  <2> QED
    BY <2>1, <2>2
<1>4. CASE Aws
  BY <1>1, <1>4 DEF Aws, Tick, Publish
<1>5. CASE \E v \in Workers, q \in Repos : UpdateReport(v, q)
  BY <1>2, <1>5 DEF WorksOn
<1>6. CASE \E c \in cleans : RunClean(c)
  BY <1>1, <1>6 DEF RunClean
<1>7. CASE Handlers
  <2>1. ASSUME NEW v \in Workers, NEW q \in Repos, NEW b \in Buckets,
               PostBillRepository(v, q, b) \/ ReadRepository(v, q, "patch", b)
        PROVE  Begins(v)
    BY <2>1 DEF Begins
  <2>2. ASSUME NEW v \in Workers, NEW q \in Repos, ReadRepository(v, q, "delete", asked[q])
        PROVE  Begins(v)
    BY <2>2 DEF Begins, Structure, TypeOK
  <2>3. ASSUME NEW q \in Repos, Commit(q) \/ CommitFails(q)
        PROVE  UNCHANGED <<job, imp>>
    BY <2>3 DEF Commit, CommitFails
  <2>4. \A v \in Workers : EndRequest(v) => Ends(v)
    BY DEF Ends
  <2>5. \A v \in Workers, q \in Repos : WriteRepository(v, q) => WorksOn(v, q)
    BY DEF WorksOn
  <2> QED
    BY <1>1, <1>2, <1>3, <1>7, <2>1, <2>2, <2>3, <2>4, <2>5 DEF Handlers
<1>8. CASE IngestionTasks
  <2>1. ASSUME NEW v \in Workers, NEW q \in Repos, StartIngest(v, q) \/ EndIngest(v, q)
        PROVE  Begins(v) \/ Ends(v)
    BY <2>1 DEF Begins, Ends
  <2>2. ASSUME NEW v \in Workers, StartIngestDue(v) \/ StartIngestDueFails(v)
                                  \/ EndIngestDue(v) \/ AbandonDue(v)
        PROVE  Begins(v) \/ Ends(v)
    BY <2>2, DueBegins DEF Ends
  <2>3. \A v \in Workers, q \in Repos : RecordBillError(v, q) => WorksOn(v, q)
    BY DEF WorksOn
  <2>4. ASSUME NEW v \in Workers, NEW q \in Repos, CompleteJob(v, q)
        PROVE  UNCHANGED <<job, imp>>
    BY <2>4 DEF CompleteJob
  <2> QED
    BY <1>1, <1>2, <1>3, <1>8, <2>1, <2>2, <2>3, <2>4 DEF IngestionTasks
<1>9. ASSUME NEW ws \in SUBSET Workers, Die(ws)
      PROVE  imp'[w][r] = imp[w][r] /\ job'[w] = job[w]
  BY <1>9 DEF Die
<1>10. CASE \E ws \in SUBSET Workers : Crash(ws) \/ Panic(ws)
  BY <1>9, <1>10 DEF Crash, Panic
<1>11. CASE (\E q \in Repos : JobExpires(q)) \/ UNCHANGED vars
  BY <1>1, <1>11 DEF JobExpires, vars
<1> QED
  BY <1>4, <1>5, <1>6, <1>7, <1>8, <1>10, <1>11 DEF Next

-----------------------------------------------------------------------------
(* The clock: what has been imported was modified before.                  *)

\* What the phases of an import say of the job.
Phased(w, r) ==
    /\ job[w] \in Tasks \cup {"post"} => imp[w][r].pc \in {"access", "read", "awsError", "failed"}
    /\ job[w] = "delete" => imp[w][r].pc \in {"asked", "cleanAll", "over"}

\* lm is the latest LastModified of the manifests kept, all of pages listed.
LatestSeen(i) ==
    /\ \A p \in Periods : i.seen[p].mod <= i.lm
    /\ i.lm = 0 \/ \E p \in Periods : i.seen[p].mod = i.lm
    /\ \A p \in Periods \ i.listed : i.seen[p].mod = 0

\* Only a task reads a last_imported_manifest other than zero.
ImportClocked(w, r) ==
    /\ imp[w][r].br.lim <= now /\ imp[w][r].lm <= now
    /\ job[w] \in Routes => imp[w][r].br.lim = 0
    /\ LatestSeen(imp[w][r])
    /\ Phased(w, r)

Clocked ==
    /\ \A b \in Buckets : \A p \in Periods : /\ s3[b][p].mod <= now
                                             /\ s3[b][p].inv => s3[b][p].mod > 0
    /\ \A r \in Repos : rows[r] # NoRow => rows[r].lim <= now
    /\ \A r \in Repos : tx[r] # NoTx /\ tx[r].row # Gone => tx[r].row.lim = 0
    /\ \A w \in Workers : \A r \in Repos : imp[w][r] # NoImport => ImportClocked(w, r)

LEMMA NowChange ==
    ASSUME Structure, [Next]_vars
    PROVE  now <= now' /\ now \in Nat
<1>1. now \in Nat
  BY BillIngestionAssumption DEF Structure, TypeOK, Times
<1>2. now' = now => now <= now'
  BY <1>1
<1>3. CASE Aws
  BY <1>1, <1>3 DEF Aws, Tick, Publish
<1>4. ASSUME NEW w \in Workers, NEW q \in Repos, UpdateReport(w, q)
      PROVE  now' = now
  BY <1>4 DEF UpdateReport, CleanAll, Access, ListPage, ListFails, CleanMonth, WriteItem
<1>5. ASSUME Handlers
      PROVE  now' = now
  BY <1>5, ZenonT(60) DEF Handlers, PostBillRepository, ReadRepository, WriteRepository, Commit, CommitFails,
              EndRequest
<1>6. ASSUME IngestionTasks
      PROVE  now' = now
  BY <1>6, ZenonT(60) DEF IngestionTasks, StartIngest, RecordBillError, CompleteJob, EndIngest, StartIngestDue,
                    StartIngestDueFails, StartImports, EndIngestDue, AbandonDue
<1>7. ASSUME NEW ws \in SUBSET Workers, Crash(ws) \/ Panic(ws)
      PROVE  now' = now
  BY <1>7 DEF Crash, Panic, Die
<1>8. ASSUME (\E c \in cleans : RunClean(c)) \/ (\E q \in Repos : JobExpires(q)) \/ UNCHANGED vars
      PROVE  now' = now
  BY <1>8 DEF RunClean, JobExpires, vars
<1> QED
  BY <1>1, <1>2, <1>3, <1>4, <1>5, <1>6, <1>7, <1>8 DEF Next

LEMMA S3Change ==
    ASSUME Structure, [Next]_vars
    PROVE  s3' = s3 \/ \E b \in Buckets, p \in Periods : Publish(b, p)
<1>1. CASE Aws
  BY <1>1 DEF Aws, Tick
<1>2. ASSUME NEW w \in Workers, NEW q \in Repos, UpdateReport(w, q)
      PROVE  s3' = s3
  BY <1>2 DEF UpdateReport, CleanAll, Access, ListPage, ListFails, CleanMonth, WriteItem
<1>3. CASE Handlers
  BY <1>3, ZenonT(60) DEF Handlers, PostBillRepository, ReadRepository, WriteRepository, Commit, CommitFails,
              EndRequest
<1>4. CASE IngestionTasks
  BY <1>4, ZenonT(60) DEF IngestionTasks, StartIngest, RecordBillError, CompleteJob, EndIngest, StartIngestDue,
              StartIngestDueFails, StartImports, EndIngestDue, AbandonDue
<1>5. ASSUME NEW ws \in SUBSET Workers, Crash(ws) \/ Panic(ws)
      PROVE  s3' = s3
  BY <1>5 DEF Crash, Panic, Die
<1>6. CASE (\E c \in cleans : RunClean(c)) \/ (\E q \in Repos : JobExpires(q)) \/ UNCHANGED vars
  BY <1>6 DEF RunClean, JobExpires, vars
<1> QED
  BY <1>1, <1>2, <1>3, <1>4, <1>5, <1>6 DEF Next

\* What becomes of one manifest.
LEMMA PublishManifest ==
    ASSUME Structure, NEW b \in Buckets, NEW p \in Periods, Publish(b, p),
           NEW a \in Buckets, NEW q \in Periods
    PROVE  \/ s3'[a][q] = s3[a][q]
           \/ /\ a = b /\ q = p /\ ~s3[a][q].inv
              /\ s3'[a][q].mod = now /\ now > 0 /\ now' = now
<1>1. s3 \in [Buckets -> [Periods -> Version]]
  BY DEF Structure, TypeOK
<1>2. PICK inv \in BOOLEAN : s3' = [s3 EXCEPT ![b][p] = [mod |-> now, inv |-> inv]]
  BY DEF Publish
<1>3. CASE a = b /\ q = p
  BY <1>1, <1>2, <1>3 DEF Publish
<1>4. CASE ~(a = b /\ q = p)
  BY <1>1, <1>2, <1>4
<1> QED
  BY <1>3, <1>4

\* One page of the listing, as the actions of the listing see it.
Listed(w, r, kept, lm) ==
    LET i == imp[w][r] IN
    /\ kept \in SUBSET NextPage(i)
    /\ \A p \in kept : s3[i.br.bucket][p].mod # 0
    /\ lm \in Times
    /\ lm = i.lm \/ \E p \in kept : lm = s3[i.br.bucket][p].mod
    /\ lm >= i.lm /\ \A p \in kept : lm >= s3[i.br.bucket][p].mod
    /\ imp'[w][r].pc = i.pc /\ imp'[w][r].br = i.br /\ imp'[w][r].cleaned = i.cleaned
    /\ imp'[w][r].listed = i.listed \cup NextPage(i)
    /\ imp'[w][r].seen = [p \in Periods |-> IF p \in kept THEN s3[i.br.bucket][p] ELSE i.seen[p]]
    /\ imp'[w][r].left = i.left \cup kept
    /\ imp'[w][r].lm = lm

\* A manifest that is not kept does not exist, or is older than a month, or it
\* is the one that could not be read.
LEMMA ListPageListed ==
    ASSUME Structure, NEW w \in Workers, NEW r \in Repos, ListPage(w, r)
    PROVE  \E kept, lm :
               /\ Listed(w, r, kept, lm)
               /\ \/ cause'[r] # "none"
                  \/ /\ cause' = cause
                     /\ \A p \in NextPage(imp[w][r]) \ kept :
                            LET v == s3[imp[w][r].br.bucket][p]
                            IN  v.mod = 0 \/ ~ModifiedAfter(imp[w][r].br, v.mod, TRUE)
<1> DEFINE i == imp[w][r]
           page == {p \in NextPage(i) : /\ s3[i.br.bucket][p].mod # 0
                                        /\ ModifiedAfter(i.br, s3[i.br.bucket][p].mod, TRUE)}
           After(kept, lm) == [i EXCEPT !.listed = @ \cup NextPage(i),
                                        !.seen   = [p \in Periods |-> IF p \in kept THEN s3[i.br.bucket][p]
                                                                                    ELSE i.seen[p]],
                                        !.left   = @ \cup kept,
                                        !.lm     = lm]
           Keep(kept) == \E lm \in Times :
               /\ lm = i.lm \/ \E p \in kept : lm = s3[i.br.bucket][p].mod
               /\ lm >= i.lm /\ \A p \in kept : lm >= s3[i.br.bucket][p].mod
               /\ imp' = [imp EXCEPT ![w][r] = After(kept, lm)]
<1>1. i # NoImport /\ i \in Import
  BY ImportType DEF ListPage
<1>2. imp \in [Workers -> [Repos -> Import \cup {NoImport}]] /\ cause \in [Repos -> Causes]
  BY DEF Structure, TypeOK
<1>3. ASSUME NEW kept \in SUBSET page, Keep(kept)
      PROVE  \E lm : Listed(w, r, kept, lm)
  <2>1. PICK lm \in Times :
               /\ lm = i.lm \/ \E p \in kept : lm = s3[i.br.bucket][p].mod
               /\ lm >= i.lm /\ \A p \in kept : lm >= s3[i.br.bucket][p].mod
               /\ imp' = [imp EXCEPT ![w][r] = After(kept, lm)]
    BY <1>3
  <2>2. imp'[w][r] = After(kept, lm)
    BY <1>2, <2>1
  <2>3. /\ imp'[w][r].pc = i.pc /\ imp'[w][r].br = i.br /\ imp'[w][r].cleaned = i.cleaned
        /\ imp'[w][r].listed = i.listed \cup NextPage(i)
        /\ imp'[w][r].seen = [p \in Periods |-> IF p \in kept THEN s3[i.br.bucket][p] ELSE i.seen[p]]
        /\ imp'[w][r].left = i.left \cup kept
        /\ imp'[w][r].lm = lm
    BY <1>1, <2>2 DEF Import
  <2>4. kept \in SUBSET NextPage(i) /\ \A p \in kept : s3[i.br.bucket][p].mod # 0
    OBVIOUS
  <2> QED
    BY <2>1, <2>3, <2>4 DEF Listed
<1>4. CASE Keep(page) /\ UNCHANGED <<faults, cause>>
  <2>1. PICK lm : Listed(w, r, page, lm)
    BY <1>3, <1>4
  <2>2. \A p \in NextPage(i) \ page : s3[i.br.bucket][p].mod = 0
                                      \/ ~ModifiedAfter(i.br, s3[i.br.bucket][p].mod, TRUE)
    OBVIOUS
  <2> HIDE DEF page
  <2> QED
    BY <1>4, <2>1, <2>2
<1>5. ASSUME NEW p \in page, Keep(page \ {p}), Blame(r, "fault")
      PROVE  (\E kept, lm : Listed(w, r, kept, lm)) /\ cause'[r] # "none"
  <2>1. cause'[r] # "none"
    BY <1>2, <1>5 DEF Blame
  <2>2. page \ {p} \in SUBSET page
    OBVIOUS
  <2> QED
    BY <1>3, <1>5, <2>1, <2>2
<1>6. (Keep(page) /\ UNCHANGED <<faults, cause>>) \/ \E p \in page : Keep(page \ {p}) /\ Fault /\ Blame(r, "fault")
  BY DEF ListPage
<1> QED
  BY <1>4, <1>5, <1>6

LEMMA ClockedInit == Init => Clocked
BY DEF Init, Clocked, Absent

LEMMA Maxima ==
    ASSUME NEW a \in Nat, NEW b \in Nat
    PROVE  MaxOf(a, b) \in Nat /\ MaxOf(a, b) >= a /\ MaxOf(a, b) >= b /\ MaxOf(a, b) \in {a, b}
BY DEF MaxOf

\* The numbers of the records, for the provers.
LEMMA Numbers ==
    ASSUME Structure
    PROVE  /\ \A r \in Repos : rows[r] # NoRow => rows[r].lim \in Nat /\ rows[r].bucket \in Buckets
           /\ \A w \in Workers : \A r \in Repos : imp[w][r] # NoImport =>
                  /\ imp[w][r].br \in Row /\ imp[w][r].br.lim \in Nat /\ imp[w][r].br.bucket \in Buckets
                  /\ imp[w][r].lm \in Nat /\ imp[w][r].listed \in SUBSET Periods
                  /\ imp[w][r].left \in SUBSET Periods /\ imp[w][r].cleaned \in BOOLEAN
                  /\ \A p \in Periods : imp[w][r].seen[p] \in Version /\ imp[w][r].seen[p].mod \in Nat
           /\ \A b \in Buckets : \A p \in Periods : s3[b][p] \in Version /\ s3[b][p].mod \in Nat
                                                    /\ s3[b][p].inv \in BOOLEAN
<1>1. Times \subseteq Nat
  BY BillIngestionAssumption DEF Times
<1>2. \A row \in Row : row.lim \in Nat /\ row.bucket \in Buckets
  BY <1>1 DEF Row
<1>3. \A v \in Version : v.mod \in Nat /\ v.inv \in BOOLEAN
  BY <1>1 DEF Version
<1>4. \A i \in Import : /\ i.br \in Row /\ i.lm \in Nat /\ i.listed \in SUBSET Periods
                        /\ i.left \in SUBSET Periods /\ i.cleaned \in BOOLEAN
                        /\ \A p \in Periods : i.seen[p] \in Version
  BY <1>1 DEF Import
<1>5. \A r \in Repos : rows[r] # NoRow => rows[r] \in Row
  BY DEF Structure, TypeOK
<1>6. \A w \in Workers : \A r \in Repos : imp[w][r] # NoImport => imp[w][r] \in Import
  BY ImportType
<1>7. \A b \in Buckets : \A p \in Periods : s3[b][p] \in Version
  BY DEF Structure, TypeOK
<1> QED
  BY <1>2, <1>3, <1>4, <1>5, <1>6, <1>7

\* What a task writes to a row, in the words of the row.
LEMMA TaskRowLim ==
    ASSUME Structure, NEW w \in Workers, NEW r \in Repos, imp[w][r] # NoImport, rows[r] # NoRow,
           NEW row \in TaskWrites(w, r)
    PROVE  /\ row # NoRow /\ row.bucket = imp[w][r].br.bucket
           /\ row.lim \in {imp[w][r].br.lim, MaxOf(imp[w][r].lm, imp[w][r].br.lim)}
<1> DEFINE i == imp[w][r]
<1>1. i \in Import /\ i.br \in Row
  BY ImportType, Numbers
<1>2. now \in Times
  BY DEF Structure, TypeOK
<1>3. [i.br EXCEPT !.err = TRUE] \in Row /\ [i.br EXCEPT !.err = TRUE].bucket = i.br.bucket
      /\ [i.br EXCEPT !.err = TRUE].lim = i.br.lim
  BY <1>1 DEF Row
<1>4. NextUpdate(i) \in Row
  BY <1>1, <1>2, NextUpdateRow
<1>5. NextUpdate(i).bucket = i.br.bucket /\ NextUpdate(i).lim = MaxOf(i.lm, i.br.lim)
  BY <1>1 DEF NextUpdate, Row
<1> QED
  BY <1>3, <1>4, <1>5, MarkersAssumption DEF TaskWrites, UpdateUnsafe

SetsPc(w, r, pc) == imp' = [imp EXCEPT ![w][r].pc = pc]

\* What each step of an import leaves alone.
LEMMA PcFields ==
    ASSUME Structure, NEW w \in Workers, NEW r \in Repos, imp[w][r] # NoImport,
           NEW pc, SetsPc(w, r, pc)
    PROVE  /\ imp'[w][r].pc = pc /\ imp'[w][r].br = imp[w][r].br
           /\ imp'[w][r].listed = imp[w][r].listed /\ imp'[w][r].cleaned = imp[w][r].cleaned
           /\ imp'[w][r].seen = imp[w][r].seen /\ imp'[w][r].left = imp[w][r].left
           /\ imp'[w][r].lm = imp[w][r].lm
<1>1. imp[w][r] \in Import /\ imp \in [Workers -> [Repos -> Import \cup {NoImport}]]
  BY ImportType DEF Structure, TypeOK
<1>2. imp'[w][r] = [imp[w][r] EXCEPT !.pc = pc]
  BY <1>1 DEF SetsPc
<1> QED
  BY <1>1, <1>2 DEF Import

LEMMA ListFailsFields ==
    ASSUME Structure, NEW w \in Workers, NEW r \in Repos, ListFails(w, r)
    PROVE  /\ imp'[w][r].pc = imp[w][r].pc /\ imp'[w][r].br = imp[w][r].br
           /\ imp'[w][r].listed = Periods /\ imp'[w][r].cleaned = imp[w][r].cleaned
           /\ imp'[w][r].seen = imp[w][r].seen /\ imp'[w][r].left = imp[w][r].left
           /\ imp'[w][r].lm = imp[w][r].lm
<1>1. imp[w][r] \in Import /\ imp \in [Workers -> [Repos -> Import \cup {NoImport}]]
  BY ImportType DEF Structure, TypeOK, ListFails
<1>2. imp'[w][r] = [imp[w][r] EXCEPT !.listed = Periods]
  BY <1>1 DEF ListFails
<1> QED
  BY <1>1, <1>2 DEF Import

LEMMA CleanMonthFields ==
    ASSUME Structure, NEW w \in Workers, NEW r \in Repos, CleanMonth(w, r)
    PROVE  /\ imp'[w][r].pc = imp[w][r].pc /\ imp'[w][r].br = imp[w][r].br
           /\ imp'[w][r].listed = imp[w][r].listed /\ imp'[w][r].cleaned = TRUE
           /\ imp'[w][r].seen = imp[w][r].seen /\ imp'[w][r].left = imp[w][r].left
           /\ imp'[w][r].lm = imp[w][r].lm
<1>1. imp[w][r] \in Import /\ imp \in [Workers -> [Repos -> Import \cup {NoImport}]]
  BY ImportType DEF Structure, TypeOK, CleanMonth
<1>2. imp'[w][r] = [imp[w][r] EXCEPT !.cleaned = TRUE]
  BY <1>1 DEF CleanMonth
<1> QED
  BY <1>1, <1>2 DEF Import

LEMMA WriteItemFields ==
    ASSUME Structure, NEW w \in Workers, NEW r \in Repos, NEW p \in Periods, WriteItem(w, r, p)
    PROVE  /\ imp'[w][r].pc = imp[w][r].pc /\ imp'[w][r].br = imp[w][r].br
           /\ imp'[w][r].listed = imp[w][r].listed /\ imp'[w][r].cleaned = imp[w][r].cleaned
           /\ imp'[w][r].seen = imp[w][r].seen /\ imp'[w][r].left = imp[w][r].left \ {p}
           /\ imp'[w][r].lm = imp[w][r].lm
<1>1. imp[w][r] \in Import /\ imp \in [Workers -> [Repos -> Import \cup {NoImport}]]
  BY ImportType DEF Structure, TypeOK, WriteItem
<1>2. imp'[w][r] = [imp[w][r] EXCEPT !.left = @ \ {p}]
  BY <1>1 DEF WriteItem
<1> QED
  BY <1>1, <1>2 DEF Import

LEMMA ListedLatest ==
    ASSUME Structure, Clocked, NEW w \in Workers, NEW r \in Repos, imp[w][r] # NoImport,
           NEW kept, NEW lm, Listed(w, r, kept, lm)
    PROVE  LatestSeen(imp'[w][r]) /\ imp'[w][r].lm <= now
<1> DEFINE i == imp[w][r]
           b == i.br.bucket
<1>1. LatestSeen(i) /\ i.lm <= now
  BY DEF Clocked, ImportClocked
<1>2. /\ i.lm \in Nat /\ i.listed \in SUBSET Periods /\ b \in Buckets
      /\ \A p \in Periods : i.seen[p].mod \in Nat /\ s3[b][p].mod \in Nat /\ s3[b][p].mod <= now
  BY Numbers DEF Clocked
<1>3. kept \in SUBSET NextPage(i) /\ NextPage(i) \in SUBSET (Periods \ i.listed)
  BY DEF Listed, NextPage
<1>4. lm \in Nat /\ now \in Nat
  <2>1. Times \subseteq Nat
    BY BillIngestionAssumption DEF Times
  <2>2. lm \in Times /\ now \in Times
    BY DEF Listed, Structure, TypeOK
  <2> QED
    BY <2>1, <2>2
<1>5. \A p \in Periods : imp'[w][r].seen[p] = IF p \in kept THEN s3[b][p] ELSE i.seen[p]
  BY DEF Listed
<1>6. /\ imp'[w][r].lm = lm /\ lm >= i.lm /\ imp'[w][r].listed = i.listed \cup NextPage(i)
      /\ lm = i.lm \/ \E p \in kept : lm = s3[b][p].mod
      /\ \A p \in kept : lm >= s3[b][p].mod
  BY DEF Listed
<1>7. ASSUME NEW p \in Periods
      PROVE  imp'[w][r].seen[p].mod <= lm
  <2>1. CASE p \in kept
    BY <1>2, <1>4, <1>5, <1>6, <2>1
  <2>2. CASE p \notin kept
    <3>1. i.seen[p].mod <= i.lm
      BY <1>1 DEF LatestSeen
    <3>2. imp'[w][r].seen[p] = i.seen[p]
      BY <1>5, <2>2
    <3> HIDE DEF i
    <3> QED
      BY <1>2, <1>4, <1>6, <3>1, <3>2
  <2> QED
    BY <2>1, <2>2
<1>8. lm = 0 \/ \E p \in Periods : imp'[w][r].seen[p].mod = lm
  <2>1. CASE \E p \in kept : lm = s3[b][p].mod
    BY <1>3, <1>5, <2>1
  <2>2. CASE lm = i.lm /\ lm # 0
    <3>1. PICK p \in Periods : i.seen[p].mod = lm
      BY <1>1, <2>2 DEF LatestSeen
    <3>2. p \in i.listed
      BY <1>1, <2>2, <3>1 DEF LatestSeen
    <3> QED
      BY <1>3, <1>5, <3>1, <3>2
  <2> QED
    BY <1>6, <2>1, <2>2
<1>9. \A p \in Periods \ imp'[w][r].listed : imp'[w][r].seen[p].mod = 0
  BY <1>1, <1>3, <1>5, <1>6 DEF LatestSeen
<1>10. lm <= now
  BY <1>1, <1>2, <1>3, <1>4, <1>6
<1> QED
  BY <1>6, <1>7, <1>8, <1>9, <1>10 DEF LatestSeen

LEMMA WorksOnClocked ==
    ASSUME Structure, Clocked, NEW w \in Workers, NEW r \in Repos, WorksOn(w, r)
    PROVE  ImportClocked(w, r)'
<1> DEFINE i == imp[w][r]
<1>1. i # NoImport /\ job' = job /\ now' = now
  BY DEF WorksOn, UpdateReport, CleanAll, Access, ListPage, ListFails, CleanMonth, WriteItem,
         WriteRepository, RecordBillError
<1>2. ImportClocked(w, r)
  BY <1>1 DEF Clocked
<1>3. ASSUME NEW pc, SetsPc(w, r, pc),
             job[w] \in Tasks \cup {"post"} => pc \in {"access", "read", "awsError", "failed"},
             job[w] = "delete" => pc \in {"asked", "cleanAll", "over"}
      PROVE  ImportClocked(w, r)'
  BY <1>1, <1>2, <1>3, PcFields DEF ImportClocked, LatestSeen, Phased
<1>4. CASE CleanAll(w, r)
  <2>1. SetsPc(w, r, IF job[w] = "delete" THEN "over" ELSE "access")
    BY <1>4 DEF CleanAll, SetsPc
  <2>2. job[w] \notin Tasks \cup {"post"}
    BY <1>2, <1>4 DEF CleanAll, ImportClocked, Phased
  <2>3. CASE job[w] = "delete"
    BY <1>3, <2>1, <2>2, <2>3
  <2>4. CASE job[w] # "delete"
    BY <1>3, <2>1, <2>2, <2>4
  <2> QED
    BY <2>3, <2>4
<1>5. CASE Access(w, r)
  <2>1. PICK pc \in {"read", "awsError", "failed"} : SetsPc(w, r, pc)
    BY <1>5 DEF Access, SetsPc
  <2>2. job[w] # "delete"
    BY <1>2, <1>5 DEF Access, ImportClocked, Phased
  <2> QED
    BY <1>3, <2>1, <2>2
<1>6. CASE ListPage(w, r)
  <2>1. PICK kept, lm : Listed(w, r, kept, lm)
    BY <1>6, ListPageListed
  <2>2. LatestSeen(imp'[w][r]) /\ imp'[w][r].lm <= now
    BY <1>1, <2>1, ListedLatest
  <2>3. imp'[w][r].pc = i.pc /\ imp'[w][r].br = i.br
    BY <2>1 DEF Listed
  <2> QED
    BY <1>1, <1>2, <2>2, <2>3 DEF ImportClocked, Phased
<1>7. CASE ListFails(w, r)
  <2>1. LatestSeen(imp'[w][r])
    BY <1>2, <1>7, ListFailsFields DEF ImportClocked, LatestSeen
  <2> QED
    BY <1>1, <1>2, <1>7, <2>1, ListFailsFields DEF ImportClocked, Phased
<1>8. CASE CleanMonth(w, r)
  BY <1>1, <1>2, <1>8, CleanMonthFields DEF ImportClocked, LatestSeen, Phased
<1>9. ASSUME NEW p \in Periods, WriteItem(w, r, p)
      PROVE  ImportClocked(w, r)'
  BY <1>1, <1>2, <1>9, WriteItemFields DEF ImportClocked, LatestSeen, Phased
<1>10. CASE WriteRepository(w, r)
  <2>1. SetsPc(w, r, "cleanAll") /\ job[w] \in {"patch", "delete"}
    BY <1>10 DEF WriteRepository, SetsPc
  <2> QED
    BY <1>3, <2>1 DEF Tasks, Periodic
<1>11. CASE RecordBillError(w, r)
  <2>1. SetsPc(w, r, "failed") /\ job[w] = "cli"
    BY <1>11 DEF RecordBillError, SetsPc
  <2> QED
    BY <1>3, <2>1
<1> QED
  BY <1>4, <1>5, <1>6, <1>7, <1>8, <1>9, <1>10, <1>11 DEF WorksOn, UpdateReport

\* A fresh import has seen nothing.
LEMMA FreshLatest == \A pc, br : LatestSeen(NewImport(pc, br))
BY DEF LatestSeen, NewImport, Absent

LEMMA BeginsClocked ==
    ASSUME Structure, Clocked, NEW w \in Workers, Begins(w), NEW r \in Repos, imp'[w][r] # NoImport
    PROVE  ImportClocked(w, r)'
<1>0. /\ imp \in [Workers -> [Repos -> Import \cup {NoImport}]]
      /\ job \in [Workers -> Routes \cup Tasks \cup {"idle"}]
  BY DEF Structure, TypeOK
<1>1. now' = now /\ now \in Nat
  <2>1. now' = now
    BY DEF Begins, PostBillRepository, ReadRepository, StartIngest, StartImports
  <2>2. now \in Nat
    BY BillIngestionAssumption DEF Structure, TypeOK, Times
  <2> QED
    BY <2>1, <2>2
<1>2. \A pc, br : /\ NewImport(pc, br).pc = pc /\ NewImport(pc, br).br = br
                  /\ NewImport(pc, br).lm = 0
  BY DEF NewImport
<1>3. ASSUME NEW b \in Buckets, PostBillRepository(w, r, b)
      PROVE  ImportClocked(w, r)'
  <2>1. imp'[w][r] = NewImport("access", Requested(b)) /\ job'[w] = "post"
    BY <1>0, <1>3 DEF PostBillRepository
  <2>2. Requested(b).lim = 0
    BY DEF Requested
  <2> QED
    BY <1>1, <1>2, <2>1, <2>2, FreshLatest DEF ImportClocked, Phased
<1>4. ASSUME NEW b \in Buckets, NEW kind \in {"patch", "delete"}, ReadRepository(w, r, kind, b)
      PROVE  ImportClocked(w, r)'
  <2>1. imp'[w][r] = NewImport("asked", Requested(b)) /\ job'[w] = kind
    BY <1>0, <1>4 DEF ReadRepository
  <2>2. Requested(b).lim = 0
    BY DEF Requested
  <2> QED
    BY <1>1, <1>2, <2>1, <2>2, FreshLatest DEF ImportClocked, Phased, Tasks, Periodic
<1>5. ASSUME job'[w] \in Tasks, rows[r] # NoRow, imp'[w][r] = NewImport("access", rows[r])
      PROVE  ImportClocked(w, r)'
  <2>1. rows[r].lim <= now
    BY <1>5 DEF Clocked
  <2>2. job'[w] \notin Routes \cup {"delete"}
    BY <1>5 DEF Tasks, Periodic, Routes
  <2> QED
    BY <1>1, <1>2, <1>5, <2>1, <2>2, FreshLatest DEF ImportClocked, Phased
<1> QED
  BY <1>3, <1>4, <1>5, BeginsFresh

LEMMA ClockedNext == Structure /\ Clocked /\ [Next]_vars => Clocked'
<1> SUFFICES ASSUME Structure, Clocked, [Next]_vars
             PROVE  Clocked'
  OBVIOUS
<1>0. now \in Nat /\ now' \in Nat /\ now <= now'
  <2>1. Structure'
    BY StructureNext
  <2>2. now' \in Nat
    BY <2>1, BillIngestionAssumption DEF Structure, TypeOK, Times
  <2> QED
    BY <2>2, NowChange
<1>1. ASSUME NEW b \in Buckets, NEW p \in Periods
      PROVE  s3'[b][p].mod <= now' /\ (s3'[b][p].inv => s3'[b][p].mod > 0)
  <2>1. s3[b][p].mod <= now /\ (s3[b][p].inv => s3[b][p].mod > 0) /\ s3[b][p].mod \in Nat
    BY Numbers DEF Clocked
  <2>2. CASE s3'[b][p] = s3[b][p]
    BY <1>0, <2>1, <2>2
  <2>3. CASE s3'[b][p].mod = now /\ now > 0
    BY <1>0, <2>3
  <2> QED
    BY <2>2, <2>3, S3Change, PublishManifest
<1>2. ASSUME NEW r \in Repos, rows'[r] # NoRow
      PROVE  rows'[r].lim <= now'
  <2>1. CASE rows'[r] = rows[r]
    BY <1>0, <1>2, <2>1, Numbers DEF Clocked
  <2>2. CASE Commit(r)
    <3>1. rows \in [Repos -> Row \cup {NoRow}]
      BY DEF Structure, TypeOK
    <3>2. tx[r] # NoTx /\ tx[r].row # Gone /\ rows'[r] = tx[r].row
      BY <1>2, <2>2, <3>1 DEF Commit, Unlocked
    <3> QED
      BY <1>0, <3>2 DEF Clocked
  <2>3. ASSUME NEW w \in Workers, imp[w][r] # NoImport, rows'[r] \in TaskWrites(w, r)
        PROVE  rows'[r].lim <= now'
    <3>1. rows[r] # NoRow
      BY <1>2, <2>3 DEF TaskWrites, UpdateUnsafe
    <3>2. /\ imp[w][r].br.lim \in Nat /\ imp[w][r].lm \in Nat
          /\ imp[w][r].br.lim <= now /\ imp[w][r].lm <= now
      BY <2>3, Numbers DEF Clocked, ImportClocked
    <3>3. rows'[r].lim \in {imp[w][r].br.lim, imp[w][r].lm}
      BY <2>3, <3>1, <3>2, TaskRowLim, Maxima
    <3> QED
      BY <1>0, <3>2, <3>3
  <2> QED
    BY <2>1, <2>2, <2>3, RowsChange
<1>3. ASSUME NEW r \in Repos, tx'[r] # NoTx, tx'[r].row # Gone
      PROVE  tx'[r].row.lim = 0
  <2>0. tx \in [Repos -> [by : Workers, row : Row \cup {Gone}] \cup {NoTx}]
    BY DEF Structure, TypeOK
  <2>1. CASE tx'[r] = tx[r]
    BY <1>3, <2>1 DEF Clocked
  <2>2. ASSUME NEW w \in Workers, NEW b \in Buckets, PostBillRepository(w, r, b)
        PROVE  tx'[r].row.lim = 0
    BY <2>0, <2>2 DEF PostBillRepository, Requested
  <2>3. ASSUME NEW w \in Workers, WriteRepository(w, r)
        PROVE  tx'[r].row.lim = 0
    <3>1. imp[w][r] # NoImport /\ job[w] \in Routes /\ tx[r] = NoTx
      BY <2>3 DEF WriteRepository, Routes, Unlocked
    <3>2. imp[w][r].br.lim = 0
      BY <3>1 DEF Clocked, ImportClocked
    <3>3. tx'[r].row \in {Gone, imp[w][r].br}
      BY <1>3, <2>0, <2>3, <3>1 DEF WriteRepository, SafeUpdate
    <3> QED
      BY <1>3, <3>2, <3>3
  <2> QED
    BY <1>3, <2>1, <2>2, <2>3, TxChange
<1>4. ASSUME NEW w \in Workers, NEW r \in Repos, imp'[w][r] # NoImport
      PROVE  ImportClocked(w, r)'
  <2>1. CASE imp'[w][r] = imp[w][r] /\ job'[w] = job[w]
    <3>1. ImportClocked(w, r)
      BY <1>4, <2>1 DEF Clocked
    <3>2. imp[w][r].br.lim <= now' /\ imp[w][r].lm <= now'
      BY <1>0, <1>4, <2>1, <3>1, Numbers DEF ImportClocked
    <3> QED
      BY <2>1, <3>1, <3>2 DEF ImportClocked, Phased, LatestSeen
  <2> QED
    BY <1>4, <2>1, ImportChange, WorksOnClocked, BeginsClocked
<1> QED
  BY <1>1, <1>2, <1>3, <1>4 DEF Clocked

-----------------------------------------------------------------------------
(* The line items.                                                         *)

Holds(r, b, p, inv) == es[<<b, p>>] = [repo |-> r, inv |-> inv]

\* Line items only refer to ids that were handed out.
DocsInUse ==
    \A r \in Repos, b \in Buckets, p \in Periods, inv \in BOOLEAN : Holds(r, b, p, inv) => r \in used

LEMMA EsChange ==
    ASSUME Structure, [Next]_vars
    PROVE  \/ es' = es
           \/ \E c \in cleans : RunClean(c)
           \/ \E w \in Workers, r \in Repos, p \in Periods : WriteItem(w, r, p)
<1>1. CASE Aws
  BY <1>1 DEF Aws, Tick, Publish, esVars
<1>2. ASSUME NEW w \in Workers, NEW q \in Repos, UpdateReport(w, q)
      PROVE  es' = es \/ \E p \in Periods : WriteItem(w, q, p)
  BY <1>2 DEF UpdateReport, CleanAll, Access, ListPage, ListFails, CleanMonth, esVars
<1>3. CASE Handlers
  BY <1>3, ZenonT(60) DEF Handlers, PostBillRepository, ReadRepository, WriteRepository, Commit, CommitFails,
              EndRequest, esVars
<1>4. CASE IngestionTasks
  BY <1>4, ZenonT(60) DEF IngestionTasks, StartIngest, RecordBillError, CompleteJob, EndIngest, StartIngestDue,
              StartIngestDueFails, StartImports, EndIngestDue, AbandonDue, esVars
<1>5. ASSUME NEW ws \in SUBSET Workers, Crash(ws) \/ Panic(ws)
      PROVE  es' = es
  BY <1>5 DEF Crash, Panic, Die, esVars
<1>6. CASE (\E q \in Repos : JobExpires(q)) \/ UNCHANGED vars
  BY <1>6 DEF JobExpires, vars, esVars
<1> QED
  BY <1>1, <1>2, <1>3, <1>4, <1>5, <1>6 DEF Next

\* A "create" changes no line item that is there.
LEMMA WriteItemDocs ==
    ASSUME Structure, NEW w \in Workers, NEW r \in Repos, NEW p \in Periods, WriteItem(w, r, p),
           NEW q \in Repos, NEW b \in Buckets, NEW o \in Periods, NEW inv \in BOOLEAN
    PROVE  /\ Holds(q, b, o, inv) => Holds(q, b, o, inv)'
           /\ Holds(q, b, o, inv)' => \/ Holds(q, b, o, inv)
                                      \/ q = r /\ b = imp[w][r].br.bucket /\ o = p
<1>1. es \in [Item -> Doc \cup {NoDoc}] /\ <<b, o>> \in Item
  BY DEF Structure, TypeOK, Item
<1>2. [repo |-> q, inv |-> inv] # NoDoc
  BY MarkersAssumption DEF Doc
<1>3. CASE es' = es
  BY <1>3 DEF Holds
<1>4. ASSUME NEW v, es[<<imp[w][r].br.bucket, p>>] = NoDoc,
             es' = [es EXCEPT ![<<imp[w][r].br.bucket, p>>] = [repo |-> r, inv |-> v]]
      PROVE  /\ Holds(q, b, o, inv) => Holds(q, b, o, inv)'
             /\ Holds(q, b, o, inv)' => \/ Holds(q, b, o, inv)
                                        \/ q = r /\ b = imp[w][r].br.bucket /\ o = p
  <2>1. CASE <<b, o>> = <<imp[w][r].br.bucket, p>>
    <3>1. es'[<<b, o>>] = [repo |-> r, inv |-> v]
      BY <1>1, <1>4, <2>1
    <3>2. Holds(q, b, o, inv)' => q = r
      <4>1. ASSUME [repo |-> r, inv |-> v] = [repo |-> q, inv |-> inv]
            PROVE  q = r
        <5>1. [repo |-> r, inv |-> v].repo = [repo |-> q, inv |-> inv].repo
          BY <4>1
        <5> QED
          BY <5>1
      <4> QED
        BY <3>1, <4>1 DEF Holds
    <3>3. b = imp[w][r].br.bucket /\ o = p
      BY <2>1
    <3>4. ~Holds(q, b, o, inv)
      BY <1>2, <1>4, <2>1 DEF Holds
    <3> QED
      BY <3>2, <3>3, <3>4
  <2>2. CASE <<b, o>> # <<imp[w][r].br.bucket, p>>
    BY <1>1, <1>4, <2>2 DEF Holds
  <2> QED
    BY <2>1, <2>2
<1> QED
  BY <1>3, <1>4 DEF WriteItem

\* A delete-by-query only removes line items of its repository.
LEMMA RunCleanDocs ==
    ASSUME Structure, NEW c \in cleans, RunClean(c),
           NEW q \in Repos, NEW b \in Buckets, NEW o \in Periods, NEW inv \in BOOLEAN
    PROVE  /\ Holds(q, b, o, inv)' => Holds(q, b, o, inv)
           /\ Holds(q, b, o, inv) /\ ~(c.repo = q /\ (c.kind = "all" \/ ~inv)) => Holds(q, b, o, inv)'
           /\ Holds(q, b, o, inv)' => ~(c.repo = q /\ (c.kind = "all" \/ ~inv))
<1>1. es \in [Item -> Doc \cup {NoDoc}] /\ <<b, o>> \in Item
  BY DEF Structure, TypeOK, Item
<1>2. [repo |-> q, inv |-> inv] # NoDoc
  BY MarkersAssumption DEF Doc
<1>3. es'[<<b, o>>] = IF /\ es[<<b, o>>] # NoDoc /\ es[<<b, o>>].repo = c.repo
                         /\ c.kind = "all" \/ ~es[<<b, o>>].inv
                      THEN NoDoc ELSE es[<<b, o>>]
  BY <1>1 DEF RunClean
<1>4. [repo |-> q, inv |-> inv].repo = q /\ [repo |-> q, inv |-> inv].inv = inv
  OBVIOUS
<1> QED
  BY <1>2, <1>3, <1>4 DEF Holds

LEMMA DocsInUseInit == Init => DocsInUse
<1> SUFFICES ASSUME Init, NEW r \in Repos, NEW b \in Buckets, NEW p \in Periods, NEW inv \in BOOLEAN
             PROVE  ~Holds(r, b, p, inv)
  BY DEF DocsInUse
<1>1. es[<<b, p>>] = NoDoc
  BY DEF Init, Item
<1>2. [repo |-> r, inv |-> inv] # NoDoc
  BY MarkersAssumption DEF Doc
<1> QED
  BY <1>1, <1>2 DEF Holds

LEMMA DocsInUseNext == Structure /\ IdsInUse /\ DocsInUse /\ [Next]_vars => DocsInUse'
<1> SUFFICES ASSUME Structure, IdsInUse, DocsInUse, [Next]_vars, NEW r \in Repos, NEW b \in Buckets,
                    NEW p \in Periods, NEW inv \in BOOLEAN, Holds(r, b, p, inv)'
             PROVE  r \in used'
  BY DEF DocsInUse
<1>1. Holds(r, b, p, inv) => r \in used'
  BY UsedGrows DEF DocsInUse
<1>2. CASE es' = es
  BY <1>1, <1>2 DEF Holds
<1>3. CASE \E c \in cleans : RunClean(c)
  BY <1>1, <1>3, RunCleanDocs
<1>4. ASSUME NEW w \in Workers, NEW q \in Repos, NEW o \in Periods, WriteItem(w, q, o)
      PROVE  r \in used'
  <2>1. q \in used
    BY <1>4 DEF WriteItem, IdsInUse
  <2> QED
    BY <1>1, <1>4, <2>1, WriteItemDocs, UsedGrows
<1> QED
  BY <1>2, <1>3, <1>4, EsChange

-----------------------------------------------------------------------------
(* What holds of a repository as long as nothing has put it at risk.       *)

Pending(r, kind) == [repo |-> r, kind |-> kind] \in cleans

\* All its line items are about to be deleted.
AllPending(r) == Pending(r, "all") \/ \E w \in Workers : Cleaning(w, r)

\* The invoiced periods of a location up to some last_imported_manifest.
Covered(r, b, lim) ==
    \A p \in Periods : s3[b][p].inv /\ s3[b][p].mod <= lim => Holds(r, b, p, TRUE)

\* What the row says is imported is in the index, and stays there.
LastImported(r) ==
    rows[r] # NoRow /\ tx[r] = NoTx =>
        Covered(r, rows[r].bucket, rows[r].lim) /\ (AllPending(r) => rows[r].lim = 0)

\* Where the repository is, once the request that has it locked is committed.
LocatedAt(r, b) ==
    \/ tx[r] = NoTx /\ rows[r] # NoRow /\ rows[r].bucket = b
    \/ tx[r] # NoTx /\ tx[r].row # Gone /\ tx[r].row.bucket = b

DocsLocated(r) ==
    \A b \in Buckets : \A p \in Periods : \A inv \in BOOLEAN :
        Holds(r, b, p, inv) => AllPending(r) \/ LocatedAt(r, b)

\* Every manifest of the pages listed is absent, older than a month, as it was
\* when it was listed, or too recent for what the task will write to the row.
SeenAsIs(i) ==
    \A p \in i.listed :
        \/ s3[i.br.bucket][p].mod = 0
        \/ s3[i.br.bucket][p].mod + Month <= i.br.lim
        \/ i.seen[p] = s3[i.br.bucket][p]
        \/ i.listed = Periods /\ s3[i.br.bucket][p].mod > MaxOf(i.lm, i.br.lim)

\* What was listed and is invoiced is either still to be written or written.
LeftOrWritten(r, i) ==
    \A p \in i.listed :
        i.seen[p] = s3[i.br.bucket][p] /\ s3[i.br.bucket][p].inv =>
            p \in i.left \/ Holds(r, i.br.bucket, p, TRUE)

\* No line item of an open bill stands in the way of the invoiced ones.
MonthCleaned(r, i) ==
    i.cleaned => \/ Pending(r, "month")
                 \/ \A p \in i.left \cup (Periods \ i.listed) : ~Holds(r, i.br.bucket, p, FALSE)

\* Nothing is written while all line items are about to be deleted.
NothingWritten(r, i) ==
    AllPending(r) => \A p \in Periods : i.seen[p].mod # 0 => p \in i.left

\* A task works with the row as it still is.
TaskRow(r, i) == rows[r] # NoRow /\ rows[r].lim = i.br.lim

TaskImport(r, i) ==
    TaskRow(r, i) /\ SeenAsIs(i) /\ LeftOrWritten(r, i) /\ MonthCleaned(r, i) /\ NothingWritten(r, i)

WorkerInv(w, r) ==
    /\ imp[w][r].pc = "asked" => rows[r] # NoRow /\ tx[r] = NoTx
    /\ job[w] # "delete" /\ imp[w][r].pc # "asked" => LocatedAt(r, imp[w][r].br.bucket)
    /\ job[w] \in Tasks => TaskImport(r, imp[w][r])

RepoInv(r) ==
    /\ LastImported(r)
    /\ DocsLocated(r)
    /\ \A w \in Workers : imp[w][r] # NoImport => WorkerInv(w, r)

-----------------------------------------------------------------------------
(* Steps that do not concern a repository.                                 *)

SameDocs(r) ==
    \A b \in Buckets : \A p \in Periods : \A inv \in BOOLEAN :
        Holds(r, b, p, inv)' <=> Holds(r, b, p, inv)

\* The date of the next update and the error do not matter here.
SameRow(r) ==
    /\ rows'[r] = NoRow <=> rows[r] = NoRow
    /\ rows[r] # NoRow => rows'[r].bucket = rows[r].bucket /\ rows'[r].lim = rows[r].lim

SameStore(r) == s3' = s3 /\ SameRow(r) /\ tx'[r] = tx[r] /\ SameDocs(r)

LEMMA StoreKept ==
    ASSUME Structure, NEW r \in Repos, SameStore(r), AllPending(r)' <=> AllPending(r),
           LastImported(r), DocsLocated(r)
    PROVE  LastImported(r)' /\ DocsLocated(r)'
<1>1. LastImported(r)'
  <2>1. rows[r] # NoRow => rows[r].bucket \in Buckets
    BY Numbers
  <2> QED
    BY <2>1 DEF LastImported, Covered, SameStore, SameRow, SameDocs
<1>2. DocsLocated(r)'
  BY DEF DocsLocated, LocatedAt, SameStore, SameRow, SameDocs
<1> QED
  BY <1>1, <1>2

LEMMA WorkerKept ==
    ASSUME Structure, NEW r \in Repos, NEW w \in Workers, SameStore(r), AllPending(r)' => AllPending(r),
           Pending(r, "month")' <=> Pending(r, "month"),
           imp'[w][r] = imp[w][r], job'[w] = job[w], imp[w][r] # NoImport, WorkerInv(w, r)
    PROVE  WorkerInv(w, r)'
<1> DEFINE i == imp[w][r]
<1>1. i.br.bucket \in Buckets /\ i.listed \in SUBSET Periods /\ i.left \in SUBSET Periods
  BY Numbers
<1>2. imp'[w][r].pc = "asked" => rows'[r] # NoRow /\ tx'[r] = NoTx
  BY DEF WorkerInv, SameStore, SameRow
<1>3. job'[w] # "delete" /\ imp'[w][r].pc # "asked" => LocatedAt(r, imp[w][r].br.bucket)'
  BY DEF WorkerInv, LocatedAt, SameStore, SameRow
<1>4. ASSUME job[w] \in Tasks
      PROVE  TaskImport(r, imp[w][r])'
  <2>1. TaskImport(r, i)
    BY <1>4 DEF WorkerInv
  <2>2. TaskRow(r, imp[w][r])' /\ SeenAsIs(imp[w][r])'
    BY <2>1 DEF TaskImport, TaskRow, SeenAsIs, SameStore, SameRow
  <2>3. LeftOrWritten(r, imp[w][r])'
    BY <1>1, <2>1 DEF TaskImport, LeftOrWritten, SameStore, SameRow, SameDocs
  <2>4. MonthCleaned(r, imp[w][r])'
    BY <1>1, <2>1 DEF TaskImport, MonthCleaned, SameStore, SameRow, SameDocs
  <2>5. NothingWritten(r, imp[w][r])'
    BY <2>1 DEF TaskImport, NothingWritten
  <2> QED
    BY <2>2, <2>3, <2>4, <2>5 DEF TaskImport
<1> QED
  BY <1>2, <1>3, <1>4 DEF WorkerInv

\* Nothing of a repository changes, except that workers may stop, none of
\* them between the write of its row and the deletion it then asks for.
Quiet(r) ==
    /\ SameStore(r)
    /\ \A kind \in {"all", "month"} : Pending(r, kind)' <=> Pending(r, kind)
    /\ \A w \in Workers : \/ imp'[w][r] = imp[w][r] /\ job'[w] = job[w]
                          \/ imp'[w][r] = NoImport /\ ~Cleaning(w, r)

LEMMA QuietKeeps ==
    ASSUME Structure, NEW r \in Repos, Quiet(r), RepoInv(r)
    PROVE  RepoInv(r)'
<1>1. AllPending(r)' <=> AllPending(r)
  BY DEF Quiet, AllPending, Cleaning
<1>2. LastImported(r)' /\ DocsLocated(r)'
  BY <1>1, StoreKept DEF Quiet, RepoInv
<1>3. ASSUME NEW w \in Workers, imp'[w][r] # NoImport
      PROVE  WorkerInv(w, r)'
  <2>1. imp'[w][r] = imp[w][r] /\ job'[w] = job[w]
    BY <1>3 DEF Quiet
  <2> QED
    BY <1>1, <1>3, <2>1, WorkerKept DEF Quiet, RepoInv
<1> QED
  BY <1>2, <1>3 DEF RepoInv

-----------------------------------------------------------------------------
(* A manifest is rewritten.                                                *)

LEMMA PublishKeeps ==
    ASSUME Structure, Clocked, NEW a \in Buckets, NEW o \in Periods, Publish(a, o),
           NEW r \in Repos, RepoInv(r), cause'[r] = "none"
    PROVE  RepoInv(r)'
<1>1. UNCHANGED <<now, rows, tx, es, cleans, job, imp>>
  BY DEF Publish, dbVars, esVars
<1>2. ~Paged(r, a, o) /\ ~Tied(r, a)
  <2>1. cause'[r] = IF cause[r] # "none" THEN cause[r]
                    ELSE IF Paged(r, a, o) THEN "paged"
                    ELSE IF Tied(r, a) THEN "tie" ELSE "none"
    BY DEF Publish
  <2> QED
    BY <2>1
<1>3. now \in Nat
  BY BillIngestionAssumption DEF Structure, TypeOK, Times
<1>4. AllPending(r)' <=> AllPending(r)
  BY <1>1 DEF AllPending, Pending, Cleaning
<1>5. \A b, p, inv : Holds(r, b, p, inv)' <=> Holds(r, b, p, inv)
  BY <1>1 DEF Holds
<1>6. LastImported(r)'
  <2> SUFFICES ASSUME rows[r] # NoRow, tx[r] = NoTx, NEW p \in Periods,
                      s3'[rows[r].bucket][p].inv, s3'[rows[r].bucket][p].mod <= rows[r].lim
               PROVE  Holds(r, rows[r].bucket, p, TRUE)
    BY <1>1, <1>4, <1>5 DEF LastImported, Covered, RepoInv
  <2>1. rows[r].bucket \in Buckets /\ rows[r].lim \in Nat /\ rows[r].lim <= now
    BY Numbers DEF Clocked
  <2>2. rows[r].bucket = a => rows[r].lim # now
    BY <1>2 DEF Tied
  <2>3. s3'[rows[r].bucket][p] = s3[rows[r].bucket][p]
    BY <1>3, <2>1, <2>2, PublishManifest
  <2> QED
    BY <2>3 DEF RepoInv, LastImported, Covered
<1>7. DocsLocated(r)'
  BY <1>1, <1>4, <1>5 DEF RepoInv, DocsLocated, LocatedAt
<1>8. ASSUME NEW w \in Workers, imp[w][r] # NoImport, job[w] \in Tasks
      PROVE  TaskImport(r, imp[w][r])'
  <2> DEFINE i == imp[w][r]
             b == i.br.bucket
  <2>1. TaskImport(r, i)
    BY <1>8 DEF RepoInv, WorkerInv
  <2>2. /\ b \in Buckets /\ i.br.lim \in Nat /\ i.lm \in Nat /\ i.listed \in SUBSET Periods
        /\ \A p \in Periods : i.seen[p].mod \in Nat
    BY <1>8, Numbers
  <2>3. i.br.lim <= now /\ i.lm <= now /\ \A p \in Periods : i.seen[p].mod <= i.lm
    BY <1>8 DEF Clocked, ImportClocked, LatestSeen
  <2>4. b = a => i.br.lim # now /\ i.lm # now
    BY <1>2, <1>8 DEF Tied
  <2>5. b = a /\ o \in i.listed => i.listed = Periods
    BY <1>2, <1>8 DEF Paged
  <2>6. ASSUME NEW p \in i.listed, s3'[b][p] # s3[b][p]
        PROVE  /\ s3'[b][p].mod = now /\ i.seen[p] # s3'[b][p]
               /\ i.listed = Periods /\ now > MaxOf(i.lm, i.br.lim)
    <3>1. p \in Periods
      BY <2>2
    <3>2. b = a /\ p = o /\ s3'[b][p].mod = now
      BY <2>2, <2>6, <3>1, PublishManifest
    <3>3. i.lm < now /\ i.br.lim < now
      BY <1>3, <2>2, <2>3, <2>4, <3>2
    <3>4. i.seen[p].mod < now
      <4> DEFINE m == i.seen[p].mod
                 l == i.lm
      <4>1. m <= l /\ l < now /\ m \in Nat /\ l \in Nat
        BY <2>2, <2>3, <3>1, <3>3
      <4> HIDE DEF m, l
      <4>2. m < now
        BY <1>3, <4>1
      <4> QED
        BY <4>2 DEF m
    <3>5. i.seen[p] # s3'[b][p]
      BY <1>3, <2>2, <3>1, <3>2, <3>4
    <3>6. now > MaxOf(i.lm, i.br.lim)
      BY <3>3 DEF MaxOf
    <3> QED
      BY <2>5, <3>2, <3>5, <3>6
  <2>7. \A p \in i.listed : s3'[b][p] = s3[b][p] \/ s3'[b][p] # s3[b][p]
    OBVIOUS
  <2>8. SeenAsIs(imp[w][r])'
    <3> SUFFICES ASSUME NEW p \in i.listed
                 PROVE  \/ s3'[b][p].mod = 0
                        \/ s3'[b][p].mod + Month <= i.br.lim
                        \/ i.seen[p] = s3'[b][p]
                        \/ i.listed = Periods /\ s3'[b][p].mod > MaxOf(i.lm, i.br.lim)
      BY <1>1 DEF SeenAsIs
    <3>1. CASE s3'[b][p] = s3[b][p]
      BY <2>1, <3>1 DEF TaskImport, SeenAsIs
    <3>2. CASE s3'[b][p] # s3[b][p]
      <4>1. s3'[b][p].mod = now /\ i.listed = Periods /\ now > MaxOf(i.lm, i.br.lim)
        BY <2>6, <3>2
      <4> QED
        BY <4>1
    <3> QED
      BY <3>1, <3>2
  <2>9. LeftOrWritten(r, imp[w][r])'
    BY <1>1, <1>5, <2>1, <2>6, <2>7 DEF TaskImport, LeftOrWritten
  <2>10. TaskRow(r, imp[w][r])' /\ MonthCleaned(r, imp[w][r])' /\ NothingWritten(r, imp[w][r])'
    BY <1>1, <1>4, <1>5, <2>1 DEF TaskImport, TaskRow, MonthCleaned, NothingWritten, Pending
  <2> QED
    BY <2>8, <2>9, <2>10 DEF TaskImport
<1>9. ASSUME NEW w \in Workers, imp'[w][r] # NoImport
      PROVE  WorkerInv(w, r)'
  BY <1>1, <1>8, <1>9 DEF RepoInv, WorkerInv, LocatedAt
<1> QED
  BY <1>6, <1>7, <1>9 DEF RepoInv

-----------------------------------------------------------------------------
(* The deletions.                                                          *)

LEMMA RunCleanKeeps ==
    ASSUME Structure, Clocked, NEW c \in cleans, RunClean(c), NEW r \in Repos, AtMostOne(r), RepoInv(r)
    PROVE  RepoInv(r)'
<1>1. UNCHANGED <<now, s3, rows, tx, job, imp>> /\ cleans' = cleans \ {c}
  BY DEF RunClean, dbVars
<1>2. c = [repo |-> c.repo, kind |-> c.kind] /\ c.kind \in {"all", "month"}
  BY DEF Structure, TypeOK, Clean
<1>3. ASSUME NEW kind \in {"all", "month"}
      PROVE  /\ Pending(r, kind)' => Pending(r, kind)
             /\ ~(c.repo = r /\ c.kind = kind) => (Pending(r, kind)' <=> Pending(r, kind))
  <2>1. [repo |-> r, kind |-> kind] = c => c.repo = r /\ c.kind = kind
    OBVIOUS
  <2> QED
    BY <1>1, <2>1 DEF Pending
<1>4. c.repo = r /\ c.kind = "all" => AllPending(r)
  BY <1>2 DEF AllPending, Pending
<1>5. AllPending(r)' => AllPending(r)
  BY <1>1, <1>3 DEF AllPending, Cleaning
<1>6. ~(c.repo = r /\ c.kind = "all") => (AllPending(r)' <=> AllPending(r))
  BY <1>1, <1>3 DEF AllPending, Cleaning
<1>7. ASSUME ~(c.repo = r /\ c.kind = "all"), NEW b \in Buckets, NEW p \in Periods
      PROVE  Holds(r, b, p, TRUE) => Holds(r, b, p, TRUE)'
  BY <1>7, RunCleanDocs
<1>8. LastImported(r)'
  <2> SUFFICES ASSUME rows[r] # NoRow, tx[r] = NoTx
               PROVE  Covered(r, rows[r].bucket, rows[r].lim)' /\ (AllPending(r)' => rows[r].lim = 0)
    BY <1>1 DEF LastImported, Covered
  <2>0. rows[r].bucket \in Buckets
    BY Numbers
  <2>1. Covered(r, rows[r].bucket, rows[r].lim) /\ (AllPending(r) => rows[r].lim = 0)
    BY DEF RepoInv, LastImported
  <2>2. CASE c.repo = r /\ c.kind = "all"
    <3>1. rows[r].lim = 0
      BY <1>4, <2>1, <2>2
    <3>2. \A p \in Periods : s3[rows[r].bucket][p].inv => ~(s3[rows[r].bucket][p].mod <= 0)
      BY <2>0, Numbers DEF Clocked
    <3> QED
      BY <1>1, <3>1, <3>2 DEF Covered
  <2>3. CASE ~(c.repo = r /\ c.kind = "all")
    BY <1>1, <1>5, <1>7, <2>0, <2>1, <2>3 DEF Covered
  <2> QED
    BY <2>2, <2>3
<1>9. DocsLocated(r)'
  <2> SUFFICES ASSUME NEW b \in Buckets, NEW p \in Periods, NEW inv \in BOOLEAN, Holds(r, b, p, inv)'
               PROVE  AllPending(r)' \/ LocatedAt(r, b)'
    BY DEF DocsLocated
  <2>1. Holds(r, b, p, inv) /\ ~(c.repo = r /\ c.kind = "all")
    BY RunCleanDocs
  <2> QED
    BY <1>1, <1>6, <2>1 DEF RepoInv, DocsLocated, LocatedAt
<1>10. ASSUME NEW w \in Workers, imp[w][r] # NoImport, job[w] \in Tasks
       PROVE  TaskImport(r, imp[w][r])'
  <2> DEFINE i == imp[w][r]
  <2>1. TaskImport(r, i)
    BY <1>10 DEF RepoInv, WorkerInv
  <2>2. /\ i.br.bucket \in Buckets /\ i.listed \in SUBSET Periods /\ i.left \in SUBSET Periods
        /\ \A p \in Periods : i.seen[p].mod \in Nat
    BY <1>10, Numbers
  <2>b. PICK b \in Buckets : b = i.br.bucket
    BY <2>2
  <2>3. TaskRow(r, imp[w][r])' /\ SeenAsIs(imp[w][r])'
    BY <1>1, <2>1 DEF TaskImport, TaskRow, SeenAsIs
  <2>4. NothingWritten(r, imp[w][r])'
    BY <1>1, <1>5, <2>1 DEF TaskImport, NothingWritten
  <2>5. LeftOrWritten(r, imp[w][r])'
    <3> SUFFICES ASSUME NEW p \in i.listed, i.seen[p] = s3[b][p], s3[b][p].inv, p \notin i.left
                 PROVE  Holds(r, b, p, TRUE)'
      BY <1>1, <2>b DEF LeftOrWritten, Holds
    <3>1. Holds(r, b, p, TRUE)
      BY <2>1, <2>b DEF TaskImport, LeftOrWritten
    <3>2. p \in Periods /\ i.seen[p].mod # 0
      BY <2>2, Numbers DEF Clocked
    <3>3. ~AllPending(r)
      BY <2>1, <3>2 DEF TaskImport, NothingWritten
    <3> QED
      BY <1>4, <1>7, <3>1, <3>2, <3>3
  <2>6. MonthCleaned(r, imp[w][r])'
    <3> SUFFICES ASSUME i.cleaned, ~Pending(r, "month")',
                        NEW p \in i.left \cup (Periods \ i.listed)
                 PROVE  ~Holds(r, b, p, FALSE)'
      BY <1>1, <2>b DEF MonthCleaned, Holds
    <3>0. p \in Periods
      BY <2>2
    <3>1. CASE c.repo = r
      BY <3>0, <3>1, RunCleanDocs
    <3>2. CASE c.repo # r
      <4>1. ~Holds(r, b, p, FALSE)
        BY <1>3, <2>1, <2>b, <3>2 DEF TaskImport, MonthCleaned
      <4> QED
        BY <3>0, <4>1, RunCleanDocs
    <3> QED
      BY <3>1, <3>2
  <2> QED
    BY <2>3, <2>4, <2>5, <2>6 DEF TaskImport
<1>11. ASSUME NEW w \in Workers, imp'[w][r] # NoImport
       PROVE  WorkerInv(w, r)'
  BY <1>1, <1>10, <1>11 DEF RepoInv, WorkerInv, LocatedAt
<1> QED
  BY <1>8, <1>9, <1>11 DEF RepoInv

-----------------------------------------------------------------------------
(* The goroutine or the task that works on the repository.                 *)

\* It is alone, or else the repository is already at risk.
LEMMA OnlyWorker ==
    ASSUME Structure, NEW r \in Repos, AtMostOne(r), NEW w \in Workers, WorksOn(w, r)
    PROVE  /\ job' = job /\ imp[w][r] # NoImport /\ imp'[w][r] # NoImport
           /\ \A v \in Workers \ {w} : imp[v][r] = NoImport /\ imp'[v][r] = NoImport
           /\ AllPending(r) <=> Pending(r, "all") \/ imp[w][r].pc = "cleanAll"
           /\ AllPending(r)' <=> Pending(r, "all")' \/ imp'[w][r].pc = "cleanAll"
<1>1. imp[w][r] # NoImport
  BY DEF WorksOn, UpdateReport, CleanAll, Access, ListPage, ListFails, CleanMonth, WriteItem,
         WriteRepository, RecordBillError
<1>2. KeepsImports
  BY UpdateReportStep, WriteRepositoryStep, RecordBillErrorStep DEF WorksOn
<1>3. job' = job /\ imp'[w][r] # NoImport
  BY <1>1, <1>2 DEF KeepsImports
<1>4. \A v \in Workers \ {w} : imp[v][r] = NoImport /\ imp'[v][r] = NoImport
  BY <1>1, <1>2 DEF AtMostOne, KeepsImports
<1> QED
  BY <1>1, <1>3, <1>4 DEF AllPending, Cleaning

\* The task's import when its own fields stay.
LEMMA TaskKept ==
    ASSUME Structure, NEW r \in Repos, NEW w \in Workers, imp[w][r] # NoImport, SameStore(r),
           AllPending(r)' => AllPending(r), Pending(r, "month")' <=> Pending(r, "month"),
           imp'[w][r].br = imp[w][r].br, imp'[w][r].listed = imp[w][r].listed,
           imp'[w][r].cleaned = imp[w][r].cleaned, imp'[w][r].seen = imp[w][r].seen,
           imp'[w][r].left = imp[w][r].left, imp'[w][r].lm = imp[w][r].lm,
           TaskImport(r, imp[w][r])
    PROVE  TaskImport(r, imp[w][r])'
<1> DEFINE i == imp[w][r]
<1>1. i.br.bucket \in Buckets /\ i.listed \in SUBSET Periods /\ i.left \in SUBSET Periods
  BY Numbers
<1>2. TaskRow(r, imp[w][r])' /\ SeenAsIs(imp[w][r])'
  BY DEF TaskImport, TaskRow, SeenAsIs, SameStore, SameRow
<1>3. LeftOrWritten(r, imp[w][r])'
  BY <1>1 DEF TaskImport, LeftOrWritten, SameStore, SameRow, SameDocs
<1>4. MonthCleaned(r, imp[w][r])'
  BY <1>1 DEF TaskImport, MonthCleaned, SameStore, SameRow, SameDocs
<1>5. NothingWritten(r, imp[w][r])'
  BY DEF TaskImport, NothingWritten
<1> QED
  BY <1>2, <1>3, <1>4, <1>5 DEF TaskImport

LEMMA CleanAllKeeps ==
    ASSUME Structure, Clocked, NEW r \in Repos, AtMostOne(r), RepoInv(r), cause'[r] = "none",
           NEW w \in Workers, CleanAll(w, r)
    PROVE  RepoInv(r)'
<1>1. WorksOn(w, r)
  BY DEF WorksOn, UpdateReport
<1>2. cleans' = cleans \cup {[repo |-> r, kind |-> "all"]}
  <2>1. ~Blame(r, "fault")
    BY DEF Blame, Structure, TypeOK
  <2> QED
    BY <2>1 DEF CleanAll, CleanOldBills
<1>3. SameStore(r)
  BY DEF CleanAll, SameStore, SameRow, SameDocs, Holds, dbVars
<1>4. AllPending(r)' <=> AllPending(r)
  <2>1. AllPending(r)
    BY <1>1, OnlyWorker DEF CleanAll
  <2>2. Pending(r, "all")'
    BY <1>2 DEF Pending
  <2> QED
    BY <2>1, <2>2 DEF AllPending
<1>5. LastImported(r)' /\ DocsLocated(r)'
  BY <1>3, <1>4, StoreKept DEF RepoInv
<1>6. WorkerInv(w, r)'
  <2>1. imp[w][r] # NoImport /\ imp[w][r].pc = "cleanAll"
    BY DEF CleanAll
  <2>2. imp'[w][r].pc \in {"over", "access"} /\ imp'[w][r].br = imp[w][r].br
    <3>1. PICK pc \in {"over", "access"} : SetsPc(w, r, pc)
      BY DEF CleanAll, SetsPc
    <3> QED
      BY <2>1, <3>1, PcFields
  <2>3. job[w] \notin Tasks /\ job' = job
    BY <1>1, <2>1, OnlyWorker DEF Clocked, ImportClocked, Phased
  <2> QED
    BY <1>3, <2>1, <2>2, <2>3 DEF RepoInv, WorkerInv, LocatedAt, SameStore, SameRow
<1> QED
  BY <1>1, <1>5, <1>6, OnlyWorker DEF RepoInv

\* A step of the worker that leaves the index and the row as they are.
LEMMA StoreSteps ==
    ASSUME Structure, NEW r \in Repos, AtMostOne(r), RepoInv(r),
           NEW w \in Workers, WorksOn(w, r), SameStore(r),
           Pending(r, "all")' <=> Pending(r, "all"),
           imp[w][r].pc # "cleanAll", imp'[w][r].pc \notin {"cleanAll", "asked"},
           imp[w][r].pc # "asked",
           imp'[w][r].br = imp[w][r].br,
           job[w] \in Tasks => TaskImport(r, imp[w][r])'
    PROVE  RepoInv(r)'
<1>1. AllPending(r)' <=> AllPending(r)
  BY OnlyWorker
<1>2. LastImported(r)' /\ DocsLocated(r)'
  BY <1>1, StoreKept DEF RepoInv
<1>3. WorkerInv(w, r)'
  <2>1. imp[w][r] # NoImport /\ job' = job
    BY OnlyWorker
  <2> QED
    BY <2>1 DEF RepoInv, WorkerInv, LocatedAt, SameStore, SameRow
<1> QED
  BY <1>2, <1>3, OnlyWorker DEF RepoInv

LEMMA AccessKeeps ==
    ASSUME Structure, NEW r \in Repos, AtMostOne(r), RepoInv(r), NEW w \in Workers, Access(w, r)
    PROVE  RepoInv(r)'
<1>1. WorksOn(w, r) /\ imp[w][r] # NoImport /\ imp[w][r].pc = "access"
  BY DEF WorksOn, UpdateReport, Access
<1>2. SameStore(r) /\ cleans' = cleans
  BY DEF Access, SameStore, SameRow, SameDocs, Holds, dbVars, esVars
<1>3. PICK pc \in {"read", "awsError", "failed"} : SetsPc(w, r, pc)
  BY DEF Access, SetsPc
<1>4. imp'[w][r].pc = pc /\ imp'[w][r].br = imp[w][r].br
  BY <1>1, <1>3, PcFields
<1>5. AllPending(r)' <=> AllPending(r)
  BY <1>1, <1>2, <1>4, OnlyWorker DEF Pending
<1>6. job[w] \in Tasks => TaskImport(r, imp[w][r])'
  <2>1. job[w] \in Tasks => TaskImport(r, imp[w][r])
    BY <1>1 DEF RepoInv, WorkerInv
  <2> QED
    BY <1>1, <1>2, <1>3, <1>5, <2>1, PcFields, TaskKept DEF Pending
<1> QED
  BY <1>1, <1>2, <1>4, <1>6, StoreSteps DEF Pending

\* A task works on a repository that no request has locked.
LEMMA TaskUnlocked ==
    ASSUME Structure, Clocked, NEW r \in Repos, AtMostOne(r), RepoInv(r),
           NEW w \in Workers, imp[w][r] # NoImport, job[w] \in Tasks
    PROVE  /\ tx[r] = NoTx /\ rows[r] # NoRow
           /\ rows[r].bucket = imp[w][r].br.bucket /\ rows[r].lim = imp[w][r].br.lim
           /\ Covered(r, imp[w][r].br.bucket, imp[w][r].br.lim)
           /\ AllPending(r) => imp[w][r].br.lim = 0
<1>1. tx[r] = NoTx
  <2>1. job[w] \notin Routes
    BY DEF Routes, Tasks, Periodic
  <2> QED
    BY <2>1, OwnerType DEF AtMostOne, Structure, TxOwner
<1>2. job[w] # "delete" /\ imp[w][r].pc # "asked"
  BY DEF Clocked, ImportClocked, Phased, Tasks, Periodic
<1>3. LocatedAt(r, imp[w][r].br.bucket) /\ TaskRow(r, imp[w][r])
  BY <1>2 DEF RepoInv, WorkerInv, TaskImport
<1>4. rows[r] # NoRow /\ rows[r].bucket = imp[w][r].br.bucket /\ rows[r].lim = imp[w][r].br.lim
  BY <1>1, <1>3 DEF LocatedAt, TaskRow
<1> QED
  BY <1>1, <1>4 DEF RepoInv, LastImported

LEMMA ListPageKeeps ==
    ASSUME Structure, Clocked, NEW r \in Repos, AtMostOne(r), RepoInv(r), cause'[r] = "none",
           NEW w \in Workers, ListPage(w, r)
    PROVE  RepoInv(r)'
<1> DEFINE i == imp[w][r]
<1>1. /\ WorksOn(w, r) /\ i # NoImport /\ i.pc = "read" /\ i.listed # Periods
      /\ UNCHANGED <<s3, rows, tx, es, cleans>>
  BY DEF WorksOn, UpdateReport, ListPage, dbVars, esVars
<1>2. SameStore(r)
  BY <1>1 DEF SameStore, SameRow, SameDocs, Holds
<1>3. PICK kept, lm :
          /\ Listed(w, r, kept, lm)
          /\ \A p \in NextPage(i) \ kept :
                 s3[i.br.bucket][p].mod = 0 \/ ~ModifiedAfter(i.br, s3[i.br.bucket][p].mod, TRUE)
  BY ListPageListed
<1>4. /\ imp'[w][r].pc = i.pc /\ imp'[w][r].br = i.br /\ imp'[w][r].cleaned = i.cleaned
      /\ imp'[w][r].listed = i.listed \cup NextPage(i)
      /\ imp'[w][r].left = i.left \cup kept
      /\ kept \in SUBSET NextPage(i)
      /\ \A p \in kept : s3[i.br.bucket][p].mod # 0
  BY <1>3 DEF Listed
<1>5. \A p \in Periods : imp'[w][r].seen[p] = IF p \in kept THEN s3[i.br.bucket][p] ELSE i.seen[p]
  BY <1>3 DEF Listed
<1>6. AllPending(r)' <=> AllPending(r)
  BY <1>1, <1>4, OnlyWorker DEF Pending
<1>7. ASSUME job[w] \in Tasks
      PROVE  TaskImport(r, imp[w][r])'
  <2>1. TaskImport(r, i)
    BY <1>1, <1>7 DEF RepoInv, WorkerInv
  <2>2. PICK b \in Buckets : b = i.br.bucket
    BY <1>1, Numbers
  <2>3. /\ i.listed \in SUBSET Periods /\ i.left \in SUBSET Periods /\ i.br.lim \in Nat
        /\ \A p \in Periods : s3[b][p].mod \in Nat
    BY <1>1, Numbers
  <2>4. NextPage(i) \in SUBSET (Periods \ i.listed)
    BY DEF NextPage
  <2>5. \A p \in NextPage(i) \ kept : s3[b][p].mod = 0 \/ s3[b][p].mod + Month <= i.br.lim
    <3> SUFFICES ASSUME NEW p \in NextPage(i) \ kept, s3[b][p].mod # 0
                 PROVE  s3[b][p].mod + Month <= i.br.lim
      OBVIOUS
    <3>1. ~(s3[b][p].mod + Month > i.br.lim)
      BY <1>3, <2>2 DEF ModifiedAfter
    <3>2. s3[b][p].mod \in Nat /\ i.br.lim \in Nat /\ Month \in Nat
      BY <2>3, <2>4, BillIngestionAssumption
    <3> QED BY <3>1, <3>2
  <2>6. TaskRow(r, imp[w][r])'
    BY <1>1, <1>4, <2>1 DEF TaskImport, TaskRow
  <2>7. SeenAsIs(imp[w][r])'
    <3> SUFFICES ASSUME NEW p \in i.listed \cup NextPage(i)
                 PROVE  \/ s3[b][p].mod = 0
                        \/ s3[b][p].mod + Month <= i.br.lim
                        \/ imp'[w][r].seen[p] = s3[b][p]
      BY <1>1, <1>4, <2>2 DEF SeenAsIs
    <3>1. CASE p \in i.listed
      <4>1. imp'[w][r].seen[p] = i.seen[p]
        BY <1>4, <1>5, <2>3, <2>4, <3>1
      <4> QED
        BY <1>1, <2>1, <2>2, <3>1, <4>1 DEF TaskImport, SeenAsIs
    <3>2. CASE p \in kept
      BY <1>4, <1>5, <2>2, <2>4, <3>2
    <3>3. CASE p \in NextPage(i) \ kept
      BY <2>5, <3>3
    <3> QED
      BY <3>1, <3>2, <3>3
  <2>8. LeftOrWritten(r, imp[w][r])'
    <3> SUFFICES ASSUME NEW p \in i.listed \cup NextPage(i), imp'[w][r].seen[p] = s3[b][p], s3[b][p].inv
                 PROVE  p \in i.left \cup kept \/ Holds(r, b, p, TRUE)
      BY <1>1, <1>4, <2>2 DEF LeftOrWritten, Holds
    <3>1. CASE p \in i.listed
      <4>1. imp'[w][r].seen[p] = i.seen[p]
        BY <1>4, <1>5, <2>3, <2>4, <3>1
      <4> QED
        BY <2>1, <2>2, <3>1, <4>1 DEF TaskImport, LeftOrWritten
    <3>2. CASE p \in NextPage(i) \ kept
      <4>1. s3[b][p].mod # 0 /\ p \in Periods
        BY <2>3, <2>4, <3>2 DEF Clocked
      <4>2. s3[b][p].mod <= i.br.lim
        BY <2>3, <2>5, <3>2, <4>1, BillIngestionAssumption
      <4>3. Covered(r, b, i.br.lim)
        BY <1>1, <1>7, <2>2, TaskUnlocked
      <4> QED
        BY <4>1, <4>2, <4>3 DEF Covered
    <3> QED
      BY <3>1, <3>2
  <2>9. MonthCleaned(r, imp[w][r])'
    <3>1. imp'[w][r].left \cup (Periods \ imp'[w][r].listed) \subseteq i.left \cup (Periods \ i.listed)
      BY <1>4, <2>4
    <3> QED
      BY <1>1, <1>4, <2>1, <3>1 DEF TaskImport, MonthCleaned, Pending, Holds
  <2>10. NothingWritten(r, imp[w][r])'
    BY <1>4, <1>5, <1>6, <2>1 DEF TaskImport, NothingWritten
  <2> QED
    BY <2>6, <2>7, <2>8, <2>9, <2>10 DEF TaskImport
<1> QED
  BY <1>1, <1>2, <1>4, <1>7, StoreSteps DEF Pending

LEMMA CleanMonthKeeps ==
    ASSUME Structure, NEW r \in Repos, AtMostOne(r), RepoInv(r), cause'[r] = "none",
           NEW w \in Workers, CleanMonth(w, r)
    PROVE  RepoInv(r)'
<1> DEFINE i == imp[w][r]
<1>1. /\ WorksOn(w, r) /\ i # NoImport /\ i.pc = "read"
      /\ UNCHANGED <<s3, rows, tx, es>>
  BY DEF WorksOn, UpdateReport, CleanMonth, dbVars
<1>2. cleans' = cleans \cup {[repo |-> r, kind |-> "month"]}
  <2>1. ~Blame(r, "fault")
    BY DEF Blame, Structure, TypeOK
  <2> QED
    BY <2>1 DEF CleanMonth
<1>3. SameStore(r)
  BY <1>1 DEF SameStore, SameRow, SameDocs, Holds
<1>4. Pending(r, "month")' /\ (Pending(r, "all")' <=> Pending(r, "all"))
  <2>1. [repo |-> r, kind |-> "all"] # [repo |-> r, kind |-> "month"]
    <3>1. [repo |-> r, kind |-> "all"].kind # [repo |-> r, kind |-> "month"].kind
      OBVIOUS
    <3> QED
      BY <3>1
  <2> QED
    BY <1>2, <2>1 DEF Pending
<1>5. AllPending(r)' <=> AllPending(r)
  BY <1>1, <1>4, OnlyWorker, CleanMonthFields
<1>6. ASSUME job[w] \in Tasks
      PROVE  TaskImport(r, imp[w][r])'
  <2>1. TaskImport(r, i)
    BY <1>1, <1>6 DEF RepoInv, WorkerInv
  <2>2. /\ imp'[w][r].br = i.br /\ imp'[w][r].listed = i.listed /\ imp'[w][r].seen = i.seen
        /\ imp'[w][r].left = i.left /\ imp'[w][r].lm = i.lm
    BY CleanMonthFields
  <2>3. TaskRow(r, imp[w][r])' /\ SeenAsIs(imp[w][r])'
    BY <1>1, <2>1, <2>2 DEF TaskImport, TaskRow, SeenAsIs
  <2>4. LeftOrWritten(r, imp[w][r])'
    BY <1>1, <2>1, <2>2 DEF TaskImport, LeftOrWritten, Holds
  <2>5. MonthCleaned(r, imp[w][r])' /\ NothingWritten(r, imp[w][r])'
    BY <1>4, <1>5, <2>1, <2>2 DEF TaskImport, MonthCleaned, NothingWritten
  <2> QED
    BY <2>5, <2>3, <2>4 DEF TaskImport
<1> QED
  BY <1>1, <1>3, <1>4, <1>6, CleanMonthFields, StoreSteps

LEMMA WriteItemKeeps ==
    ASSUME Structure, Clocked, NEW r \in Repos, AtMostOne(r), RepoInv(r), cause'[r] = "none",
           NEW w \in Workers, NEW p \in Periods, WriteItem(w, r, p)
    PROVE  RepoInv(r)'
<1> DEFINE i == imp[w][r]
<1>1. /\ WorksOn(w, r) /\ i # NoImport /\ i.pc = "read" /\ i.listed = Periods /\ i.cleaned
      /\ UNCHANGED <<s3, rows, tx, cleans>>
  BY DEF WorksOn, UpdateReport, WriteItem, dbVars
<1>2. PICK b \in Buckets : b = i.br.bucket
  BY <1>1, Numbers
<1>3. \A why \in {"fault", "twin", "late"} : ~Blame(r, why)
  BY DEF Blame, Structure, TypeOK
<1>4. /\ es[<<b, p>>] # NoDoc => es[<<b, p>>].repo = r
      /\ ~\E c \in cleans : c.repo = r
      /\ \E inv \in {i.seen[p].inv, s3[b][p].inv} :
             es' = IF Accepted(i, p, inv) /\ es[<<b, p>>] = NoDoc
                   THEN [es EXCEPT ![<<b, p>>] = [repo |-> r, inv |-> inv]] ELSE es
  BY <1>2, <1>3 DEF WriteItem
<1>5. ~Pending(r, "all") /\ ~Pending(r, "month")
  <2>1. \A kind : [repo |-> r, kind |-> kind].repo = r
    OBVIOUS
  <2> QED
    BY <1>4, <2>1 DEF Pending
<1>6. ~AllPending(r) /\ ~AllPending(r)' /\ ~Pending(r, "month")'
  BY <1>1, <1>5, OnlyWorker, WriteItemFields DEF Pending
<1>7. \A q \in Periods : \A inv \in BOOLEAN : \A a \in Buckets :
          /\ Holds(r, a, q, inv) => Holds(r, a, q, inv)'
          /\ Holds(r, a, q, inv)' => Holds(r, a, q, inv) \/ (a = b /\ q = p)
  BY <1>2, WriteItemDocs
<1>8. LastImported(r)'
  <2>1. rows[r] # NoRow => rows[r].bucket \in Buckets
    BY Numbers
  <2> QED
    BY <1>1, <1>6, <1>7, <2>1 DEF RepoInv, LastImported, Covered
<1>9. LocatedAt(r, b)
  <2>1. job[w] # "delete"
    BY <1>1 DEF Clocked, ImportClocked, Phased
  <2> QED
    BY <1>1, <1>2, <2>1 DEF RepoInv, WorkerInv
<1>10. DocsLocated(r)'
  BY <1>1, <1>6, <1>7, <1>9 DEF RepoInv, DocsLocated, LocatedAt
<1>11. ASSUME job[w] \in Tasks
       PROVE  TaskImport(r, imp[w][r])'
  <2>1. TaskImport(r, i)
    BY <1>1, <1>11 DEF RepoInv, WorkerInv
  <2>2. TaskRow(r, imp[w][r])' /\ SeenAsIs(imp[w][r])' /\ NothingWritten(r, imp[w][r])'
    BY <1>1, <1>6, <2>1, WriteItemFields DEF TaskImport, TaskRow, SeenAsIs, NothingWritten
  <2>3. /\ imp'[w][r].br = i.br /\ imp'[w][r].listed = i.listed /\ imp'[w][r].seen = i.seen
        /\ imp'[w][r].left = i.left \ {p}
    BY WriteItemFields
  <2>4. i.seen[p] = s3[b][p] /\ s3[b][p].inv => Holds(r, b, p, TRUE)'
    <3> SUFFICES ASSUME i.seen[p] = s3[b][p], s3[b][p].inv
                 PROVE  Holds(r, b, p, TRUE)'
      OBVIOUS
    <3>1. CASE Holds(r, b, p, TRUE)
      BY <1>7, <3>1
    <3>2. CASE es[<<b, p>>] # NoDoc
      <4>1. es[<<b, p>>] \in Doc
        BY <3>2 DEF Structure, TypeOK, Item
      <4>2. Holds(r, b, p, TRUE) \/ Holds(r, b, p, FALSE)
        BY <1>4, <3>2, <4>1 DEF Holds, Doc
      <4>3. p \in i.left
        BY DEF WriteItem
      <4>4. ~Holds(r, b, p, FALSE)
        BY <1>1, <1>2, <1>5, <2>1, <4>3 DEF TaskImport, MonthCleaned
      <4> QED
        BY <3>1, <4>2, <4>4
    <3>3. CASE es[<<b, p>>] = NoDoc /\ ~Holds(r, b, p, TRUE)
      <4>1. Covered(r, b, i.br.lim)
        BY <1>1, <1>2, <1>11, TaskUnlocked
      <4>2. ~(s3[b][p].mod <= i.br.lim)
        BY <3>3, <4>1 DEF Covered
      <4>3. s3[b][p].mod > i.br.lim
        BY <1>1, <4>2, Numbers
      <4>4. Accepted(i, p, TRUE)
        BY <4>3 DEF Accepted, ModifiedAfter
      <4>5. es' = [es EXCEPT ![<<b, p>>] = [repo |-> r, inv |-> TRUE]]
        <5>1. i.seen[p].inv = TRUE /\ s3[b][p].inv = TRUE
          BY Numbers
        <5> QED
          BY <1>4, <3>3, <4>4, <5>1
      <4>6. es \in [Item -> Doc \cup {NoDoc}] /\ <<b, p>> \in Item
        BY DEF Structure, TypeOK, Item
      <4> QED
        BY <4>5, <4>6 DEF Holds
    <3> QED
      BY <3>1, <3>2, <3>3
  <2>5. LeftOrWritten(r, imp[w][r])'
    <3> SUFFICES ASSUME NEW q \in Periods, i.seen[q] = s3[b][q], s3[b][q].inv
                 PROVE  q \in i.left \ {p} \/ Holds(r, b, q, TRUE)'
      BY <1>1, <1>2, <2>3 DEF LeftOrWritten, Holds
    <3>1. q \in i.left \/ Holds(r, b, q, TRUE)
      BY <1>1, <1>2, <2>1 DEF TaskImport, LeftOrWritten
    <3> QED
      BY <1>7, <2>4, <3>1
  <2>6. MonthCleaned(r, imp[w][r])'
    <3> SUFFICES ASSUME NEW q \in i.left \ {p}
                 PROVE  ~Holds(r, b, q, FALSE)'
      BY <1>1, <1>2, <2>3 DEF MonthCleaned, Holds
    <3>1. q \in Periods
      BY <1>1, Numbers
    <3>2. ~Holds(r, b, q, FALSE)
      BY <1>1, <1>2, <1>5, <2>1 DEF TaskImport, MonthCleaned
    <3> QED
      BY <1>7, <3>1, <3>2
  <2> QED
    BY <2>2, <2>5, <2>6 DEF TaskImport
<1>12. WorkerInv(w, r)'
  <2>1. job' = job
    BY <1>1, OnlyWorker
  <2> QED
    BY <1>1, <1>2, <1>9, <1>11, <2>1, WriteItemFields DEF WorkerInv, LocatedAt
<1> QED
  BY <1>1, <1>8, <1>10, <1>12, OnlyWorker DEF RepoInv

LEMMA WriteRepositoryKeeps ==
    ASSUME Structure, Clocked, NEW r \in Repos, AtMostOne(r), RepoInv(r),
           NEW w \in Workers, WriteRepository(w, r)
    PROVE  RepoInv(r)'
<1> DEFINE i == imp[w][r]
<1>1. /\ WorksOn(w, r) /\ i # NoImport /\ i.pc = "asked" /\ job[w] \in {"patch", "delete"}
      /\ tx[r] = NoTx /\ UNCHANGED <<rows, job>>
  BY DEF WorksOn, WriteRepository, Unlocked
<1>2. SetsPc(w, r, "cleanAll")
  BY DEF WriteRepository, SetsPc
<1>3. imp'[w][r].pc = "cleanAll" /\ imp'[w][r].br = i.br
  BY <1>1, <1>2, PcFields
<1>4. rows[r] # NoRow
  BY <1>1 DEF RepoInv, WorkerInv
<1>5. AllPending(r)'
  BY <1>1, <1>3, OnlyWorker
<1>6. PICK row : row \in Row \cup {Gone} /\ tx'[r] = [by |-> w, row |-> row]
                 /\ (job[w] # "delete" => row = i.br)
  <2>1. tx \in [Repos -> [by : Workers, row : Row \cup {Gone}] \cup {NoTx}]
    BY DEF Structure, TypeOK
  <2>2. i.br \in Row
    BY <1>1, Numbers
  <2> QED
    BY <1>4, <2>1, <2>2 DEF WriteRepository, SafeUpdate
<1>7. tx'[r] # NoTx
  BY <1>6, MarkersAssumption
<1>8. job[w] # "delete" => LocatedAt(r, imp[w][r].br.bucket)'
  <2>1. i.br # Gone
    BY <1>1, Numbers, MarkersAssumption
  <2> QED
    BY <1>3, <1>6, <1>7, <2>1 DEF LocatedAt
<1>9. WorkerInv(w, r)'
  <2>1. job[w] \notin Tasks
    BY <1>1 DEF Tasks, Periodic
  <2> QED
    BY <1>1, <1>3, <1>8, <2>1 DEF WorkerInv
<1> QED
  BY <1>1, <1>5, <1>7, <1>9, OnlyWorker DEF RepoInv, LastImported, DocsLocated

LEMMA RecordBillErrorKeeps ==
    ASSUME Structure, Clocked, NEW r \in Repos, AtMostOne(r), RepoInv(r),
           NEW w \in Workers, RecordBillError(w, r)
    PROVE  RepoInv(r)'
<1> DEFINE i == imp[w][r]
<1>1. /\ WorksOn(w, r) /\ i # NoImport /\ i.pc = "awsError" /\ job[w] \in Tasks
      /\ UNCHANGED <<s3, tx, es, cleans>>
  BY DEF WorksOn, RecordBillError, Tasks, esVars
<1>2. SetsPc(w, r, "failed")
  BY DEF RecordBillError, SetsPc
<1>3. SameRow(r)
  <2>1. /\ rows[r] # NoRow /\ rows[r].bucket = i.br.bucket /\ rows[r].lim = i.br.lim
    BY <1>1, TaskUnlocked
  <2>2. i.br \in Row /\ rows \in [Repos -> Row \cup {NoRow}]
    BY <1>1, Numbers DEF Structure, TypeOK
  <2>3. rows'[r] = [i.br EXCEPT !.err = TRUE]
    BY <2>1, <2>2 DEF RecordBillError, UpdateUnsafe
  <2>4. rows'[r] \in Row /\ rows'[r].bucket = i.br.bucket /\ rows'[r].lim = i.br.lim
    BY <2>2, <2>3 DEF Row
  <2> QED
    BY <2>1, <2>4, MarkersAssumption DEF SameRow
<1>4. SameStore(r)
  BY <1>1, <1>3 DEF SameStore, SameDocs, Holds
<1>5. imp'[w][r].pc = "failed" /\ imp'[w][r].br = i.br
  BY <1>1, <1>2, PcFields
<1>6. AllPending(r)' <=> AllPending(r)
  BY <1>1, <1>5, OnlyWorker DEF Pending
<1>7. TaskImport(r, imp[w][r])'
  <2>1. TaskImport(r, i)
    BY <1>1 DEF RepoInv, WorkerInv
  <2> QED
    BY <1>1, <1>2, <1>4, <1>6, <2>1, PcFields, TaskKept DEF Pending
<1> QED
  BY <1>1, <1>4, <1>5, <1>7, StoreSteps DEF Pending

-----------------------------------------------------------------------------
(* The transactions.                                                       *)

\* A request's row says that nothing is imported.
LEMMA CommitKeeps ==
    ASSUME Structure, Clocked, NEW r \in Repos, AtMostOne(r), RepoInv(r), Commit(r)
    PROVE  RepoInv(r)'
<1>1. tx[r] # NoTx /\ tx'[r] = NoTx /\ UNCHANGED <<s3, es, cleans, job, imp>>
  BY DEF Commit, Unlocked, Structure, TypeOK, esVars
<1>2. rows'[r] = IF tx[r].row = Gone THEN NoRow ELSE tx[r].row
  BY DEF Commit, Structure, TypeOK
<1>3. tx[r].row # Gone => /\ tx[r].row # NoRow /\ tx[r].row.bucket \in Buckets /\ tx[r].row.lim = 0
  <2>1. tx[r].row # Gone => tx[r].row \in Row
    BY <1>1 DEF Structure, TypeOK
  <2> QED
    BY <1>1, <2>1, MarkersAssumption DEF Clocked, Row
<1>4. \A b \in Buckets : LocatedAt(r, b)' <=> LocatedAt(r, b)
  BY <1>1, <1>2, <1>3 DEF LocatedAt
<1>5. LastImported(r)'
  <2>1. \A b \in Buckets : \A p \in Periods : s3[b][p].inv => ~(s3[b][p].mod <= 0)
    BY Numbers DEF Clocked
  <2> QED
    BY <1>1, <1>2, <1>3, <2>1 DEF LastImported, Covered
<1>6. DocsLocated(r)'
  BY <1>1, <1>4 DEF RepoInv, DocsLocated, AllPending, Pending, Cleaning, Holds
<1>7. ASSUME NEW w \in Workers, imp'[w][r] # NoImport
      PROVE  WorkerInv(w, r)'
  <2>1. imp[w][r] # NoImport /\ WorkerInv(w, r) /\ imp[w][r].br.bucket \in Buckets
    BY <1>1, <1>7, Numbers DEF RepoInv
  <2>2. imp[w][r].pc # "asked"
    BY <1>1, <2>1 DEF WorkerInv
  <2>3. job[w] \notin Tasks
    BY <1>1, <2>1, TaskUnlocked
  <2> QED
    BY <1>1, <1>4, <2>1, <2>2, <2>3 DEF WorkerInv, LocatedAt
<1> QED
  BY <1>5, <1>6, <1>7 DEF RepoInv

\* Nobody else works on the repository of a worker that begins, unless the
\* repository is at risk.
LEMMA BeginsAlone ==
    ASSUME Structure, IdsInUse, NEW r \in Repos, cause'[r] = "none",
           NEW w \in Workers, Begins(w), imp'[w][r] # NoImport
    PROVE  /\ ~InFlight(r) /\ tx[r] = NoTx
           /\ \A v \in Workers \ {w} : imp'[v][r] = NoImport
<1>1. ~InFlight(r)
  <2>1. ASSUME NEW b \in Buckets, PostBillRepository(w, r, b)
        PROVE  ~InFlight(r)
    BY <2>1 DEF PostBillRepository, InFlight, IdsInUse
  <2> QED
    BY <2>1, BeginsOn
<1>2. tx[r] = NoTx
  BY <1>1, OwnerType DEF InFlight, Structure, TxOwner
<1>3. \A v \in Workers \ {w} : imp'[v][r] = NoImport
  BY <1>1, OthersGoOn DEF InFlight
<1> QED
  BY <1>1, <1>2, <1>3

LEMMA BeginsKeeps ==
    ASSUME Structure, IdsInUse, DocsInUse, NEW r \in Repos, RepoInv(r), cause'[r] = "none",
           NEW w \in Workers, Begins(w), imp'[w][r] # NoImport
    PROVE  RepoInv(r)'
<1>0. /\ imp \in [Workers -> [Repos -> Import \cup {NoImport}]]
      /\ job \in [Workers -> Routes \cup Tasks \cup {"idle"}]
      /\ tx \in [Repos -> [by : Workers, row : Row \cup {Gone}] \cup {NoTx}]
  BY DEF Structure, TypeOK
<1>1. UNCHANGED <<s3, rows, es, cleans>>
  BY DEF Begins, PostBillRepository, ReadRepository, StartIngest, StartImports, dbVars, esVars
<1>2. ~InFlight(r) /\ tx[r] = NoTx /\ \A v \in Workers \ {w} : imp'[v][r] = NoImport
  BY BeginsAlone
<1>3. imp'[w][r].pc # "cleanAll" => (AllPending(r)' <=> AllPending(r))
  BY <1>1, <1>2 DEF AllPending, Pending, Cleaning, InFlight
<1>4. ASSUME NEW b \in Buckets, PostBillRepository(w, r, b)
      PROVE  RepoInv(r)'
  <2>1. /\ imp'[w][r] = NewImport("access", Requested(b)) /\ job'[w] = "post"
        /\ tx'[r] = [by |-> w, row |-> Requested(b)]
    BY <1>0, <1>4 DEF PostBillRepository
  <2>2. imp'[w][r].pc = "access" /\ imp'[w][r].br = Requested(b) /\ Requested(b).bucket = b
    BY <2>1 DEF NewImport, Requested
  <2>3. tx'[r] # NoTx /\ Requested(b) # Gone
    BY <2>1, RequestedRow, MarkersAssumption
  <2>4. LocatedAt(r, b)'
    BY <2>1, <2>2, <2>3 DEF LocatedAt
  <2>5. WorkerInv(w, r)'
    <3>1. LocatedAt(r, imp[w][r].br.bucket)'
      BY <2>2, <2>4 DEF LocatedAt
    <3> QED
      BY <2>1, <2>2, <3>1 DEF WorkerInv, Tasks, Periodic
  <2>6. DocsLocated(r)'
    <3>1. r \notin used
      BY <1>4 DEF PostBillRepository
    <3> QED
      BY <1>1, <3>1 DEF DocsLocated, DocsInUse, Holds
  <2> QED
    BY <1>2, <2>3, <2>5, <2>6 DEF RepoInv, LastImported
<1>5. ASSUME tx'[r] = tx[r], imp'[w][r].pc # "cleanAll", WorkerInv(w, r)'
      PROVE  RepoInv(r)'
  <2>1. SameStore(r)
    BY <1>1, <1>5 DEF SameStore, SameRow, SameDocs, Holds
  <2>2. LastImported(r)' /\ DocsLocated(r)'
    BY <1>3, <1>5, <2>1, StoreKept DEF RepoInv
  <2> QED
    BY <1>2, <1>5, <2>2 DEF RepoInv
<1>6. ASSUME NEW b \in Buckets, NEW kind \in {"patch", "delete"}, ReadRepository(w, r, kind, b)
      PROVE  RepoInv(r)'
  <2>1. /\ imp'[w][r] = NewImport("asked", Requested(b)) /\ job'[w] = kind
        /\ tx' = tx /\ rows[r] # NoRow
    BY <1>0, <1>6 DEF ReadRepository, dbVars
  <2>2. imp'[w][r].pc = "asked"
    BY <2>1 DEF NewImport
  <2>3. WorkerInv(w, r)'
    BY <1>1, <1>2, <2>1, <2>2 DEF WorkerInv, Tasks, Periodic
  <2> QED
    BY <1>5, <2>1, <2>2, <2>3
<1>7. ASSUME job'[w] \in Tasks, rows[r] # NoRow, imp'[w][r] = NewImport("access", rows[r])
      PROVE  RepoInv(r)'
  <2>1. tx'[r] = tx[r]
    <3>1. \A b : ~PostBillRepository(w, r, b)
      BY <1>0, <1>7 DEF PostBillRepository, Tasks, Periodic
    <3>2. ASSUME NEW q \in Repos, NEW b \in Buckets, PostBillRepository(w, q, b)
          PROVE  tx'[r] = tx[r]
      BY <1>0, <3>1, <3>2 DEF PostBillRepository
    <3> QED
      BY <3>2 DEF Begins, ReadRepository, StartIngest, StartImports, dbVars
  <2>2. /\ imp'[w][r].pc = "access" /\ imp'[w][r].br = rows[r] /\ imp'[w][r].listed = {}
        /\ imp'[w][r].cleaned = FALSE /\ \A p \in Periods : imp'[w][r].seen[p].mod = 0
    BY <1>7 DEF NewImport, Absent
  <2>3. TaskImport(r, imp[w][r])'
    BY <1>1, <1>7, <2>2 DEF TaskImport, TaskRow, SeenAsIs, LeftOrWritten, MonthCleaned, NothingWritten
  <2>4. LocatedAt(r, imp[w][r].br.bucket)'
    BY <1>1, <1>2, <1>7, <2>1, <2>2 DEF LocatedAt
  <2> QED
    BY <1>5, <2>1, <2>2, <2>3, <2>4 DEF WorkerInv
<1> QED
  BY <1>4, <1>6, <1>7, BeginsFresh

-----------------------------------------------------------------------------
(* The end of a task.                                                      *)

LEMMA EndsLeave ==
    ASSUME Structure, NEW w \in Workers, Ends(w)
    PROVE  /\ UNCHANGED <<s3, tx, es, cleans, cause>>
           /\ \A r \in Repos : /\ imp'[w][r] = NoImport
                               /\ imp[w][r] # NoImport => Finished(imp[w][r])
           /\ \A v \in Workers \ {w} : imp'[v] = imp[v] /\ job'[v] = job[v]
<1>1. UNCHANGED <<s3, tx, es, cleans, cause>>
  BY DEF Ends, EndRequest, EndIngestDue, AbandonDue, EndIngest, dbVars, esVars, histVars
<1>2. ASSUME NEW r \in Repos, imp[w][r] # NoImport
      PROVE  Finished(imp[w][r])
  <2>1. ASSUME NEW q \in Repos, EndIngest(w, q)
        PROVE  Finished(imp[w][r])
    <3>1. q = r
      BY <1>2, <2>1 DEF EndIngest, Structure, OneEach, Periodic
    <3> QED
      BY <2>1, <3>1 DEF EndIngest
  <2> QED
    BY <1>2, <2>1 DEF Ends, EndRequest, EndIngestDue, AbandonDue
<1> QED
  BY <1>1, <1>2, EndsOff, OthersGoOn DEF GoesOn

\* What the end of a task writes: the row as it was read, or the latest
\* manifest of a complete import.
EndWrites(w, r) ==
    /\ job[w] \in Tasks /\ imp[w][r] # NoImport
    /\ \/ rows'[r] = UpdateUnsafe(r, [imp[w][r].br EXCEPT !.err = TRUE])
       \/ Imported(imp[w][r]) /\ rows'[r] = UpdateUnsafe(r, NextUpdate(imp[w][r]))

LEMMA EndsRows ==
    ASSUME Structure, Clocked, NEW w \in Workers, Ends(w), NEW r \in Repos
    PROVE  rows'[r] = rows[r] \/ EndWrites(w, r)
<1>0. rows \in [Repos -> Row \cup {NoRow}]
  BY DEF Structure, TypeOK
<1>1. EndRequest(w) \/ AbandonDue(w) => rows' = rows
  BY DEF EndRequest, AbandonDue, dbVars
<1>2. ASSUME imp[w][r] # NoImport, job[w] \in Tasks, Finished(imp[w][r]),
             imp[w][r].pc \notin {"awsError", "failed"}
      PROVE  Imported(imp[w][r])
  BY <1>2 DEF Finished, Clocked, ImportClocked, Phased
<1>3. ASSUME NEW q \in Repos, EndIngest(w, q)
      PROVE  rows'[r] = rows[r] \/ EndWrites(w, r)
  <2>1. job[w] \in Tasks /\ imp[w][q] # NoImport /\ Finished(imp[w][q]) /\ imp[w][q].pc # "awsError"
    BY <1>3 DEF EndIngest, Tasks
  <2>2. \/ rows' = rows
        \/ /\ imp[w][q].pc # "failed"
           /\ rows' = [rows EXCEPT ![q] = UpdateUnsafe(q, NextUpdate(imp[w][q]))]
    BY <1>3 DEF EndIngest
  <2>3. CASE q = r
    BY <1>0, <1>2, <2>1, <2>2, <2>3 DEF EndWrites
  <2>4. CASE q # r
    BY <1>0, <2>2, <2>4
  <2> QED
    BY <2>3, <2>4
<1>4. ASSUME EndIngestDue(w)
      PROVE  rows'[r] = rows[r] \/ EndWrites(w, r)
  <2>1. PICK rs \in SUBSET {q \in Repos : imp[w][q] # NoImport /\ imp[w][q].pc # "failed"} :
            rows' = RowsAfter(w, rs)
    BY <1>4, EndIngestDueRows
  <2>2. job[w] \in Tasks
    BY <1>4 DEF EndIngestDue, Tasks, Periodic
  <2>3. CASE r \in rs
    <3>1. imp[w][r] # NoImport /\ imp[w][r].pc # "failed" /\ Finished(imp[w][r])
      BY <2>3, EndsLeave
    <3> QED
      BY <1>2, <2>1, <2>2, <2>3, <3>1 DEF RowsAfter, EndWrites
  <2>4. CASE r \notin rs
    BY <2>1, <2>4 DEF RowsAfter
  <2> QED
    BY <2>3, <2>4
<1> QED
  BY <1>1, <1>3, <1>4 DEF Ends

\* A worker that ends had asked for the deletion that its write requires.
LEMMA EndsQuiet ==
    ASSUME Structure, NEW r \in Repos, NEW w \in Workers, Ends(w), SameRow(r)
    PROVE  Quiet(r)
<1>1. SameStore(r)
  BY EndsLeave DEF SameStore, SameDocs, Holds
<1>2. \A kind : Pending(r, kind)' <=> Pending(r, kind)
  BY EndsLeave DEF Pending
<1>3. ~Cleaning(w, r)
  BY EndsLeave DEF Cleaning, Finished, Imported
<1> QED
  BY <1>1, <1>2, <1>3, EndsLeave DEF Quiet

LEMMA EndsKeeps ==
    ASSUME Structure, Clocked, NEW r \in Repos, AtMostOne(r), RepoInv(r), NEW w \in Workers, Ends(w)
    PROVE  RepoInv(r)'
<1> DEFINE i == imp[w][r]
<1>1. CASE SameRow(r)
  BY <1>1, EndsQuiet, QuietKeeps
<1>2. CASE rows'[r] = rows[r]
  BY <1>1, <1>2 DEF SameRow
<1>3. CASE ~SameRow(r) /\ EndWrites(w, r)
  <2>1. i # NoImport /\ job[w] \in Tasks
    BY <1>3 DEF EndWrites
  <2>2. /\ tx[r] = NoTx /\ rows[r] # NoRow
        /\ rows[r].bucket = i.br.bucket /\ rows[r].lim = i.br.lim
        /\ Covered(r, i.br.bucket, i.br.lim)
        /\ AllPending(r) => i.br.lim = 0
    BY <2>1, TaskUnlocked
  <2>3. rows'[r] \in TaskWrites(w, r)
    BY <1>3 DEF EndWrites, TaskWrites
  <2>4. rows'[r] # NoRow /\ rows'[r].bucket = i.br.bucket
    BY <2>1, <2>2, <2>3, TaskRowLim
  <2>5. i.br \in Row /\ i \in Import
    BY <2>1, ImportType, Numbers
  <2>6. rows'[r] # [i.br EXCEPT !.err = TRUE]
    <3>1. [i.br EXCEPT !.err = TRUE].bucket = i.br.bucket /\ [i.br EXCEPT !.err = TRUE].lim = i.br.lim
      BY <2>5 DEF Row
    <3> QED
      BY <1>3, <2>2, <2>4, <3>1 DEF SameRow
  <2>7. Imported(i) /\ rows'[r] = NextUpdate(i)
    BY <1>3, <2>2, <2>6 DEF EndWrites, UpdateUnsafe
  <2>8. rows'[r].lim = MaxOf(i.lm, i.br.lim)
    BY <2>5, <2>7 DEF NextUpdate, Row
  <2>9. TaskImport(r, i)
    BY <2>1 DEF RepoInv, WorkerInv
  <2>10. PICK b \in Buckets : b = i.br.bucket
    BY <2>1, Numbers
  <2>11. i.listed = Periods /\ i.left = {} /\ i.pc = "read"
    BY <2>7 DEF Imported
  <2>12. \A v \in Workers : v # w => imp[v][r] = NoImport
    BY <2>1 DEF AtMostOne
  <2>13. AllPending(r)' => AllPending(r)
    BY EndsLeave DEF AllPending, Pending, Cleaning
  <2>14. AllPending(r) => MaxOf(i.lm, i.br.lim) = 0
    <3>1. AllPending(r) => \A p \in Periods : i.seen[p].mod = 0
      BY <2>9, <2>11 DEF TaskImport, NothingWritten
    <3>2. i.lm = 0 \/ \E p \in Periods : i.seen[p].mod = i.lm
      BY <2>1 DEF Clocked, ImportClocked, LatestSeen
    <3> QED
      BY <2>2, <3>1, <3>2 DEF MaxOf
  <2>15. Covered(r, b, MaxOf(i.lm, i.br.lim))
    <3> SUFFICES ASSUME NEW p \in Periods, s3[b][p].inv, s3[b][p].mod <= MaxOf(i.lm, i.br.lim)
                 PROVE  Holds(r, b, p, TRUE)
      BY DEF Covered
    <3>0. /\ s3[b][p].mod \in Nat /\ i.br.lim \in Nat /\ i.lm \in Nat
          /\ MaxOf(i.lm, i.br.lim) \in Nat
      BY <2>1, Numbers, Maxima
    <3>1. s3[b][p].mod # 0
      BY <3>0 DEF Clocked
    <3>2. \/ s3[b][p].mod + Month <= i.br.lim
          \/ i.seen[p] = s3[b][p]
          \/ s3[b][p].mod > MaxOf(i.lm, i.br.lim)
      BY <2>9, <2>10, <2>11, <3>1 DEF TaskImport, SeenAsIs
    <3>3. CASE s3[b][p].mod + Month <= i.br.lim
      <4>1. s3[b][p].mod <= i.br.lim
        BY <3>0, <3>3, BillIngestionAssumption
      <4> QED
        BY <2>2, <2>10, <4>1 DEF Covered
    <3>4. CASE i.seen[p] = s3[b][p]
      BY <2>9, <2>10, <2>11, <3>4 DEF TaskImport, LeftOrWritten
    <3>5. ~(s3[b][p].mod > MaxOf(i.lm, i.br.lim))
      BY <3>0
    <3> QED
      BY <3>2, <3>3, <3>4, <3>5
  <2>16. LastImported(r)'
    <3>1. UNCHANGED <<s3, es>>
      BY EndsLeave
    <3>2. Covered(r, rows[r].bucket, rows[r].lim)'
      BY <2>4, <2>8, <2>10, <2>15, <3>1 DEF Covered, Holds
    <3> QED
      BY <2>8, <2>13, <2>14, <3>2 DEF LastImported
  <2>17. DocsLocated(r)'
    <3>1. AllPending(r) => AllPending(r)'
      <4>1. \A v \in Workers : ~Cleaning(v, r)
        BY <2>11, <2>12 DEF Cleaning
      <4> QED
        BY <4>1, EndsLeave DEF AllPending, Pending
    <3>2. \A a \in Buckets : LocatedAt(r, a) => LocatedAt(r, a)'
      BY <2>2, <2>4, EndsLeave DEF LocatedAt
    <3> QED
      BY <3>1, <3>2, EndsLeave DEF RepoInv, DocsLocated, Holds
  <2>18. \A v \in Workers : imp'[v][r] = NoImport
    BY <2>12, EndsLeave
  <2> QED
    BY <2>16, <2>17, <2>18 DEF RepoInv
<1> QED
  BY <1>1, <1>2, <1>3, EndsRows

-----------------------------------------------------------------------------
(* Every step either leaves a repository alone, or is one of the above.    *)

LEMMA OthersWorkQuietly ==
    ASSUME Structure, NEW v \in Workers, NEW q \in Repos, WorksOn(v, q), NEW r \in Repos \ {q}
    PROVE  Quiet(r)
<1>0. /\ rows \in [Repos -> Row \cup {NoRow}]
      /\ tx \in [Repos -> [by : Workers, row : Row \cup {Gone}] \cup {NoTx}]
  BY DEF Structure, TypeOK
<1>1. s3' = s3 /\ rows'[r] = rows[r] /\ tx'[r] = tx[r]
  <2>1. UpdateReport(v, q) => UNCHANGED <<s3, rows, tx>>
    BY DEF UpdateReport, CleanAll, Access, ListPage, ListFails, CleanMonth, WriteItem, dbVars
  <2> QED
    BY <1>0, <2>1 DEF WorksOn, WriteRepository, RecordBillError
<1>2. SameDocs(r)
  <2>1. ASSUME NEW p \in Periods, WriteItem(v, q, p)
        PROVE  SameDocs(r)
    BY <2>1, WriteItemDocs DEF SameDocs
  <2>2. es' = es => SameDocs(r)
    BY DEF SameDocs, Holds
  <2> QED
    BY <2>1, <2>2 DEF WorksOn, UpdateReport, CleanAll, Access, ListPage, ListFails, CleanMonth,
                      WriteRepository, RecordBillError, esVars
<1>3. \A kind : Pending(r, kind)' <=> Pending(r, kind)
  <2>1. cleans' = cleans \/ \E k : cleans' = cleans \cup {[repo |-> q, kind |-> k]}
    BY DEF WorksOn, UpdateReport, CleanAll, Access, ListPage, ListFails, CleanMonth, WriteItem,
           WriteRepository, RecordBillError, esVars
  <2>2. ASSUME NEW k, NEW kind, [repo |-> q, kind |-> k] = [repo |-> r, kind |-> kind]
        PROVE  FALSE
    <3>1. [repo |-> q, kind |-> k].repo = [repo |-> r, kind |-> kind].repo
      BY <2>2
    <3> QED
      BY <3>1
  <2> QED
    BY <2>1, <2>2 DEF Pending
<1>4. \A w \in Workers : imp'[w][r] = imp[w][r] /\ job'[w] = job[w]
  BY UpdateLeavesOthers
<1> QED
  BY <1>1, <1>2, <1>3, <1>4 DEF Quiet, SameStore, SameRow

LEMMA OthersBeginQuietly ==
    ASSUME Structure, NEW v \in Workers, Begins(v), NEW r \in Repos, imp'[v][r] = NoImport
    PROVE  Quiet(r)
<1>0. /\ imp \in [Workers -> [Repos -> Import \cup {NoImport}]]
      /\ tx \in [Repos -> [by : Workers, row : Row \cup {Gone}] \cup {NoTx}]
  BY DEF Structure, TypeOK
<1>1. UNCHANGED <<s3, rows, es, cleans>>
  BY DEF Begins, PostBillRepository, ReadRepository, StartIngest, StartImports, dbVars, esVars
<1>2. tx'[r] = tx[r]
  <2>1. ASSUME NEW q \in Repos, NEW b \in Buckets, PostBillRepository(v, q, b)
        PROVE  tx'[r] = tx[r]
    <3>1. NewImport("access", Requested(b)) # NoImport
      BY RequestedRow, FreshImport, MarkersAssumption DEF Phase
    <3>2. q # r
      BY <1>0, <2>1, <3>1 DEF PostBillRepository
    <3> QED
      BY <1>0, <2>1, <3>2 DEF PostBillRepository
  <2> QED
    BY <2>1 DEF Begins, ReadRepository, StartIngest, StartImports, dbVars
<1>3. imp[v][r] = NoImport
  <2>1. job[v] = "idle"
    BY DEF Begins, PostBillRepository, ReadRepository, StartIngest, StartImports
  <2> QED
    BY <2>1 DEF Structure, OneEach
<1>4. \A w \in Workers \ {v} : imp'[w] = imp[w] /\ job'[w] = job[w]
  BY OthersGoOn DEF GoesOn
<1> QED
  BY <1>1, <1>2, <1>3, <1>4 DEF Quiet, SameStore, SameRow, SameDocs, Holds, Pending, Cleaning

LEMMA DieQuietly ==
    ASSUME Structure, NEW ws \in SUBSET Workers, Die(ws), NEW r \in Repos, cause'[r] = "none"
    PROVE  Quiet(r)
<1>1. UNCHANGED <<s3, rows, es, cleans>>
  BY DEF Die, esVars
<1>2. ~\E w \in ws : HasLocked(w, r) \/ Cleaning(w, r)
  <2>1. cause'[r] = IF cause[r] = "none" /\ \E w \in ws : HasLocked(w, r) \/ Cleaning(w, r)
                    THEN "fault" ELSE cause[r]
    BY DEF Die
  <2> QED
    BY <2>1
<1>3. tx'[r] = tx[r]
  BY <1>2 DEF Die
<1>4. \A w \in Workers : \/ imp'[w][r] = imp[w][r] /\ job'[w] = job[w]
                         \/ imp'[w][r] = NoImport /\ ~Cleaning(w, r)
  BY <1>2 DEF Die
<1> QED
  BY <1>1, <1>3, <1>4 DEF Quiet, SameStore, SameRow, SameDocs, Holds, Pending

\* The steps that concern a repository.
Concerns(r) ==
    \/ \E b \in Buckets, p \in Periods : Publish(b, p)
    \/ \E c \in cleans : RunClean(c)
    \/ \E w \in Workers : \/ WorksOn(w, r)
                          \/ Begins(w) /\ imp'[w][r] # NoImport
                          \/ Ends(w)
    \/ Commit(r)

LEMMA QuietOrNot ==
    ASSUME Structure, [Next]_vars, NEW r \in Repos, cause'[r] = "none"
    PROVE  Quiet(r) \/ Concerns(r)
<1>0. /\ rows \in [Repos -> Row \cup {NoRow}]
      /\ tx \in [Repos -> [by : Workers, row : Row \cup {Gone}] \cup {NoTx}]
  BY DEF Structure, TypeOK
<1>1. UNCHANGED <<s3, es, cleans, job, imp>> /\ rows'[r] = rows[r] /\ tx'[r] = tx[r] => Quiet(r)
  BY DEF Quiet, SameStore, SameRow, SameDocs, Holds, Pending
<1>2. ASSUME NEW v \in Workers, Begins(v)
      PROVE  Quiet(r) \/ Concerns(r)
  BY <1>2, OthersBeginQuietly DEF Concerns
<1>3. ASSUME NEW v \in Workers, NEW q \in Repos, WorksOn(v, q)
      PROVE  Quiet(r) \/ Concerns(r)
  BY <1>3, OthersWorkQuietly DEF Concerns
<1>4. CASE Aws
  <2>1. Tick => Quiet(r)
    BY <1>1 DEF Tick, dbVars, esVars
  <2> QED
    BY <1>4, <2>1 DEF Aws, Concerns
<1>5. CASE \E v \in Workers, q \in Repos : UpdateReport(v, q)
  BY <1>3, <1>5 DEF WorksOn
<1>6. CASE \E c \in cleans : RunClean(c)
  BY <1>6 DEF Concerns
<1>7. CASE Handlers
  <2>1. ASSUME NEW v \in Workers, NEW q \in Repos, NEW b \in Buckets,
               PostBillRepository(v, q, b) \/ ReadRepository(v, q, "patch", b)
        PROVE  Begins(v)
    BY <2>1 DEF Begins
  <2>2. ASSUME NEW v \in Workers, NEW q \in Repos, ReadRepository(v, q, "delete", asked[q])
        PROVE  Begins(v)
    BY <2>2 DEF Begins, Structure, TypeOK
  <2>3. \A v \in Workers, q \in Repos : WriteRepository(v, q) => WorksOn(v, q)
    BY DEF WorksOn
  <2>4. ASSUME NEW q \in Repos, Commit(q)
        PROVE  Quiet(r) \/ Concerns(r)
    <3>1. CASE q = r
      BY <2>4, <3>1 DEF Concerns
    <3>2. CASE q # r
      BY <1>0, <1>1, <2>4, <3>2 DEF Commit, esVars
    <3> QED
      BY <3>1, <3>2
  <2>5. ASSUME NEW q \in Repos, CommitFails(q)
        PROVE  Quiet(r)
    <3>1. q # r
      <4>1. cause \in [Repos -> Causes]
        BY DEF Structure, TypeOK
      <4> QED
        BY <2>5, <4>1 DEF CommitFails, Blame
    <3> QED
      BY <1>0, <1>1, <2>5, <3>1 DEF CommitFails, esVars
  <2>6. \A v \in Workers : EndRequest(v) => Concerns(r)
    BY DEF Ends, Concerns
  <2> QED
    BY <1>2, <1>3, <1>7, <2>1, <2>2, <2>3, <2>4, <2>5, <2>6 DEF Handlers
<1>8. CASE IngestionTasks
  <2>1. ASSUME NEW v \in Workers, NEW q \in Repos, StartIngest(v, q) \/ EndIngest(v, q)
        PROVE  Begins(v) \/ Concerns(r)
    BY <2>1 DEF Begins, Ends, Concerns
  <2>2. ASSUME NEW v \in Workers, StartIngestDue(v) \/ StartIngestDueFails(v)
                                  \/ EndIngestDue(v) \/ AbandonDue(v)
        PROVE  Begins(v) \/ Concerns(r)
    BY <2>2, DueBegins DEF Ends, Concerns
  <2>3. \A v \in Workers, q \in Repos : RecordBillError(v, q) => WorksOn(v, q)
    BY DEF WorksOn
  <2>4. ASSUME NEW v \in Workers, NEW q \in Repos, CompleteJob(v, q)
        PROVE  Quiet(r)
    BY <1>1, <2>4 DEF CompleteJob, esVars
  <2> QED
    BY <1>2, <1>3, <1>8, <2>1, <2>2, <2>3, <2>4 DEF IngestionTasks
<1>9. CASE \E ws \in SUBSET Workers : Crash(ws) \/ Panic(ws)
  BY <1>9, DieQuietly DEF Crash, Panic
<1>10. CASE \E q \in Repos : JobExpires(q)
  BY <1>1, <1>10 DEF JobExpires, esVars
<1>11. CASE UNCHANGED vars
  BY <1>1, <1>11 DEF vars, dbVars, esVars
<1> QED
  BY <1>4, <1>5, <1>6, <1>7, <1>8, <1>9, <1>10, <1>11 DEF Next

LEMMA RepoInvStep ==
    ASSUME Structure, Clocked, IdsInUse, DocsInUse, [Next]_vars, NEW r \in Repos,
           AtMostOne(r), RepoInv(r), cause'[r] = "none"
    PROVE  RepoInv(r)'
<1>1. ASSUME NEW w \in Workers, ListFails(w, r)
      PROVE  FALSE
  BY <1>1 DEF ListFails, Blame, Structure, TypeOK
<1>2. ASSUME NEW w \in Workers, WorksOn(w, r)
      PROVE  RepoInv(r)'
  BY <1>1, <1>2, CleanAllKeeps, AccessKeeps, ListPageKeeps, CleanMonthKeeps, WriteItemKeeps,
     WriteRepositoryKeeps, RecordBillErrorKeeps DEF WorksOn, UpdateReport
<1>3. Concerns(r) => RepoInv(r)'
  BY <1>2, PublishKeeps, RunCleanKeeps, BeginsKeeps, EndsKeeps, CommitKeeps DEF Concerns
<1> QED
  BY <1>3, QuietOrNot, QuietKeeps

-----------------------------------------------------------------------------
(* The theorems.                                                           *)

\* The inductive invariant.
LossInv ==
    /\ Structure /\ LocationInv /\ Clocked /\ DocsInUse
    /\ \A r \in Repos : cause[r] = "none" => RepoInv(r)

LEMMA LossInit == Init => LossInv
<1> SUFFICES ASSUME Init
             PROVE  LossInv
  OBVIOUS
<1>1. Structure /\ LocationInv /\ Clocked /\ DocsInUse
  BY StructureInit, LocationInit, ClockedInit, DocsInUseInit
<1>2. ASSUME NEW r \in Repos
      PROVE  RepoInv(r)
  <2>1. rows[r] = NoRow /\ \A w \in Workers : imp[w][r] = NoImport
    BY DEF Init
  <2>2. DocsLocated(r)
    BY <1>1 DEF DocsLocated, DocsInUse, Init
  <2> QED
    BY <2>1, <2>2 DEF RepoInv, LastImported
<1> QED
  BY <1>1, <1>2 DEF LossInv

LEMMA LossNext == LossInv /\ [Next]_vars => LossInv'
<1> SUFFICES ASSUME LossInv, [Next]_vars
             PROVE  LossInv'
  OBVIOUS
<1>1. Structure' /\ LocationInv' /\ Clocked' /\ DocsInUse'
  BY StructureNext, LocationNext, ClockedNext, DocsInUseNext DEF LossInv, LocationInv
<1>2. ASSUME NEW r \in Repos, cause'[r] = "none"
      PROVE  RepoInv(r)'
  <2>1. cause[r] = "none"
    BY <1>2, CauseKept DEF LossInv
  <2>2. AtMostOne(r) /\ RepoInv(r) /\ IdsInUse
    BY <2>1 DEF LossInv, LocationInv, Agreement
  <2> QED
    BY <1>2, <2>2, RepoInvStep DEF LossInv
<1> QED
  BY <1>1, <1>2 DEF LossInv

THEOREM LossInvHolds == Spec => []LossInv
BY LossInit, LossNext, PTL DEF Spec

\* Invoiced line items are only lost through one of the causes recorded: what
\* last_imported_manifest says is imported is in the index, whatever the
\* interleaving of the handlers, the tasks, the deletions of ElasticSearch and
\* the crashes.
THEOREM LossExplained == Spec => []LossHasCause
<1>1. LossInv => LossHasCause
  <2> SUFFICES ASSUME LossInv, NEW r \in Repos, Settled(r), Lost(r), cause[r] = "none"
               PROVE  FALSE
    BY DEF LossHasCause
  <2>1. LastImported(r)
    BY DEF LossInv, RepoInv
  <2> QED
    BY <2>1 DEF Settled, Lost, Unlocked, LastImported, Covered, Holds
<1> QED
  BY <1>1, LossInvHolds, PTL

\* No line item stays in the index where its repository is not any more.
THEOREM OrphansExplained == Spec => []OrphanHasCause
<1>1. LossInv => OrphanHasCause
  <2> SUFFICES ASSUME LossInv, NEW r \in used, Unlocked(r), ~InFlight(r), \A c \in cleans : c.repo # r,
                      NEW b \in Buckets, NEW p \in Periods, es[<<b, p>>] # NoDoc, es[<<b, p>>].repo = r,
                      rows[r] # NoRow => rows[r].bucket # b, cause[r] = "none"
               PROVE  FALSE
    BY DEF OrphanHasCause
  <2>1. r \in Repos /\ es[<<b, p>>] \in Doc
    BY DEF LossInv, Structure, TypeOK, Item
  <2>2. PICK inv \in BOOLEAN : Holds(r, b, p, inv)
    BY <2>1 DEF Doc, Holds
  <2>3. ~AllPending(r)
    <3>1. [repo |-> r, kind |-> "all"].repo = r
      OBVIOUS
    <3> QED
      BY <3>1 DEF AllPending, Pending, Cleaning, InFlight
  <2>4. LocatedAt(r, b)
    BY <2>1, <2>2, <2>3 DEF LossInv, RepoInv, DocsLocated
  <2> QED
    BY <2>4 DEF LocatedAt, Unlocked
<1> QED
  BY <1>1, LossInvHolds, PTL
=============================================================================
