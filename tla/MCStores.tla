------------------------------ MODULE MCStores ------------------------------
(***************************************************************************)
(* The document repository and the row locks, for TLC.  A behaviour stays  *)
(* in one setting:                                                         *)
(*   custody locks, document locks                                         *)
(*             transactions on the database, the repository at rest        *)
(*   reading   tasks and retries on one document of two files              *)
(*   removing  reviewers of a document that a task may be reading          *)
(*   purging   two runs of the purge on documents that share an object     *)
(***************************************************************************)
EXTENDS RowLocks, Repository, SequencesExt, TLC

CONSTANTS d1, d2, k1, k2, j1, j2

VARIABLE setting

\* Connections are interchangeable; rows are not, as their keys are ordered.
MCSymmetry == Permutations(Sessions)

MCFilesOf == d1 :> {k1, k2} @@ d2 :> {k2}

\* All but the three that lock an account late or against foreign-key checks,
\* or a tag before the others.
MCServices == AllServices \ {"share_with_user", "administer", "review_tag"}

\* Bound: custody with one number series; or documents and the directory beside
\* work on one record.
Without(locks, tables) == \A lock \in Range(locks) : lock.table \notin tables
OnlyFirst(locks, table) == \A lock \in Range(locks) : lock.table = table => lock.pk = 1

CustodyPlans == {p \in Requested : OnlyFirst(p, "series") /\ Without(p, {"document", "external"})}
DocumentPlans ==
    {p \in Requested : OnlyFirst(p, "record") /\ Without(p, {"office", "series", "policy", "advisory"})}

\* A transaction may end after any of its locks, so one that begins as another
\* does adds no state of interest.
Longest(plans) == {p \in plans : \A q \in plans : q = p \/ ~IsPrefix(p, q)}
LongestOfCustody == Longest(CustodyPlans)
LongestOfDocuments == Longest(DocumentPlans)

Running(plans) == \A s \in Sessions : plan[s] = <<>> \/ plan[s] \in plans

NoPurges == \A w \in Purgers : purger[w] = NoPurge
OneDocument == row[d2].state = "absent" /\ row[d1].state # "gone" /\ NoPurges

Locking == {"custody locks", "document locks"}

Bounds ==
    CASE setting = "custody locks" -> Running(LongestOfCustody)
      [] setting = "document locks" -> Running(LongestOfDocuments)
      [] setting = "reading" ->
            /\ OneDocument /\ ~row[d1].due /\ \A u \in Reviewers : page[u] = NoPage
            /\ entitled = Docs \/ row[d1].generation < 2
      [] setting = "removing" -> OneDocument /\ job[j2] = NoJob /\ entitled = Docs
      [] setting = "purging" ->
            /\ \A j \in Jobs : job[j].state \in {"none", "committed"}
            /\ entitled = Docs
            /\ \A d \in Docs : row[d].generation = 0 /\ ~row[d].marked

MCInit == LockInit /\ RepositoryInit /\ setting \in {"custody locks", "document locks", "reading", "removing", "purging"}

MCNext ==
    /\ UNCHANGED setting
    /\ \/ setting \in Locking /\ LockNext /\ UNCHANGED repositoryVars
       \/ setting \notin Locking /\ RepositoryNext /\ UNCHANGED lockVars
    /\ Bounds'

MCSpec == MCInit /\ [][MCNext]_<<lockVars, repositoryVars, setting>>
=============================================================================
