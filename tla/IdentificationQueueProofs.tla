------------------------ MODULE IdentificationQueueProofs ------------------------
(***************************************************************************)
(* Proofs about IdentificationQueue: its types, and two promises of it,    *)
(* that what a user has decided stands and that no album is forgotten.     *)
(*                                                                         *)
(* Both rest on what the keys of rows and reviews are about.  The files    *)
(* and the policy of an album only move on, so that everything the tables  *)
(* hold is Below the present input, and an input that is new has no rows   *)
(* and no reviews (Past, NewInputIsNew); and a decision about an earlier   *)
(* input is gone before anything is made of the present one (OneDecision). *)
(***************************************************************************)
EXTENDS IdentificationQueue, TLAPS

-----------------------------------------------------------------------------
(* Type correctness *)

Results == {"none", "UNEXPECTED_ERROR"} \cup Outcomes \cup Codes
Pcs == {"idle", "claimed", "evaluating", "halting", "finishing", "deferring", "failing"}
JobRows == [state : JobStates, attempts : Nat, due : BOOLEAN, failure : Codes]
Reviews == [state : {"needs_review", "keep_tagged", "excluded", "resolved"},
            about : Keys, seen : Identities, attempted : BOOLEAN]
AlbumRows == [files : 1 .. Files, policy : Policies, barred : BOOLEAN,
              where : {"indexed", "missing", "retired"}, owed : BOOLEAN, identity : Identities]
Hands == [pc : Pcs, album : Albums, kind : Kinds, key : Keys, input : Keys,
          seen : Identities, source : Sources, result : Results]

TablesOK ==
    /\ album \in [Albums -> AlbumRows]
    /\ jobs \in [Albums -> [Kinds -> [Keys -> JobRows]]]
    /\ reviews \in [Albums -> [Keys -> Reviews]]
    /\ word \in [Albums -> [said : {"none", "keep", "accept", "other"}, about : Keys]]

\* A job that runs was claimed, so that giving the attempt back leaves a number.
AttemptsOK ==
    \A a \in Albums, r \in Rows : Row(a, r).state = "running" => Row(a, r).attempts > 0

WorkerOK ==
    /\ worker \in Hands \cup {Idle}
    /\ worker.pc = "idle" => worker = Idle
    /\ worker.pc # "idle" => Mine.state = "running"

RestOK ==
    /\ policy \in Policies /\ paused \in BOOLEAN /\ breaker \in {"closed", "open", "half_open"}
    /\ left \in 0 .. MaxEvents

TypeInv == TablesOK /\ AttemptsOK /\ WorkerOK /\ RestOK

-----------------------------------------------------------------------------
(* What an album's rows are about *)

Below(k, l) == k[1] <= l[1] /\ k[2] <= l[2]

\* Files and policies only move on, and rows, reviews and identities are of inputs that were.
Past(a) ==
    /\ album[a].policy <= policy
    /\ \A r \in Rows : Row(a, r).state # "absent" => Below(r[2], Input(a))
    /\ \A key \in Unresolved(a) :
          Below(key, reviews[a][key].about) /\ Below(reviews[a][key].about, Input(a))
    /\ Below(album[a].identity.of, Input(a))
    /\ Below(word[a].about, Input(a))

\* An album has one decision at a time; when its input has changed since, nothing has been
\* made of the new one.
OneDecision(a) ==
    \A k \in Decided(a) :
        /\ Decided(a) = {k}
        /\ k # Input(a) =>
              /\ \A kind \in Kinds : jobs[a][kind][Input(a)].state = "absent"
              /\ reviews[a][Input(a)].state = "resolved"

DecisionsInv == \A a \in Albums : Past(a) /\ OneDecision(a)

\* What is kept as tagged is at rest.
Kept(a) ==
    word[a].said = "keep" /\ word[a].about = Input(a) =>
        /\ ~HasActive(a)
        /\ reviews[a][Input(a)].state = "keep_tagged"
        /\ album[a].identity.source = "none"

AcceptedStays(a) == word[a].said = "accept" => album[a].identity.source = "manual"

StandInv == \A a \in Albums : Kept(a) /\ AcceptedStays(a)

-----------------------------------------------------------------------------
(* What cares for an album *)

\* An album is barred while a user has excluded it.
ExcludedIsBarred(a) == \A key \in Keys : reviews[a][key].state = "excluded" => album[a].barred

\* A policy's own job is made once, before any review of it.
PolicyJobs(a) ==
    \A p \in Policies :
        /\ jobs[a]["post_processing"][PolicyKey(p)].state = "absent"
        /\ jobs[a]["automatic"][PolicyKey(p)].state \in Active
              => reviews[a][PolicyKey(p)].state = "resolved"

\* What is to be finished was found somewhere, so that an identity is one.
OutcomeHasSource == worker.pc = "finishing" => worker.source # "none"

\* Work whose failure would leave a review of the present files.
AtWork(a) ==
    \E r \in Rows : Row(a, r).state \in Active /\ r[2][1] \in {0, album[a].files}

\* NothingForgotten, for work that is about the present files and in terms of the album's policy.
Cared(a) ==
    \/ AtWork(a)
    \/ \E key \in Unresolved(a) :
          \/ reviews[a][key].about[1] = album[a].files
          \/ reviews[a][key].state = "keep_tagged" /\ reviews[a][key].about[2] # album[a].policy
    \/ album[a].identity.source = "manual"
    \/ /\ album[a].identity.source # "none"
       /\ album[a].identity.of[1] = album[a].files \/ album[a].identity.of[2] # album[a].policy
    \/ word[a].said # "none" /\ word[a].about[1] = album[a].files

\* An album that automatic identification has to do with, once what was changed is queued.
Due(a) ==
    /\ album[a].where # "retired" /\ ~album[a].barred
    /\ Automatic(a) /\ Effective[policy] = "automatic"
    /\ ~album[a].owed \/ jobs[a]["automatic"][Input(a)].state \in {"failed", "ended"}

Tended(a) == ExcludedIsBarred(a) /\ PolicyJobs(a) /\ (Due(a) => Cared(a))

CareInv == OutcomeHasSource /\ \A a \in Albums : Tended(a)

-----------------------------------------------------------------------------
(* Keys, rows and what writing them does *)

LEMMA KeysAreKeys ==
    /\ Policies \subseteq Nat /\ 1 \in Policies
    /\ Nothing \in Keys /\ Inputs \subseteq Keys
    /\ \A p \in Policies : PolicyKey(p) \in Keys
<1>1. Policies = 1 .. Len(Effective) /\ Len(Effective) \in Nat
  BY IdentificationAssumption DEF Policies
<1>2. 1 \in Policies
  BY <1>1, IdentificationAssumption
<1>3. 0 .. Files \subseteq Nat /\ 0 \in 0 .. Files /\ 1 .. Files \subseteq 0 .. Files
  BY IdentificationAssumption
<1>4. \A p \in Policies : <<0, p>> \in Keys
  BY <1>3 DEF Keys
<1>5. Inputs \subseteq Keys
  BY <1>3 DEF Keys, Inputs
<1> QED
  BY <1>1, <1>2, <1>4, <1>5 DEF PolicyKey, Nothing

LEMMA KeyParts ==
    ASSUME NEW key \in Keys
    PROVE  key = <<key[1], key[2]>> /\ key[1] \in Nat /\ key[2] \in Nat /\ key[2] \in Policies
           /\ key[1] <= Files
<1>1. key = <<key[1], key[2]>> /\ key[1] \in 0 .. Files /\ key[2] \in Policies
  BY DEF Keys
<1>2. 0 .. Files \subseteq Nat /\ \A n \in 0 .. Files : n <= Files
  BY IdentificationAssumption
<1> QED
  BY <1>1, <1>2, KeysAreKeys

LEMMA InputIsKey ==
    ASSUME TablesOK, NEW a \in Albums
    PROVE  /\ Input(a) \in Inputs /\ Input(a) \in Keys
           /\ Input(a)[1] = album[a].files /\ Input(a)[2] = album[a].policy
           /\ album[a].files \in Nat /\ album[a].files > 0 /\ album[a].policy \in Nat
<1>1. album[a] \in AlbumRows
  BY DEF TablesOK
<1>2. album[a].files \in 1 .. Files /\ album[a].policy \in Policies
  BY <1>1 DEF AlbumRows
<1>3. album[a].files \in Nat /\ album[a].files > 0
  BY <1>2, IdentificationAssumption
<1>4. Input(a) \in Inputs
  BY <1>2 DEF Input, Inputs
<1> QED
  BY <1>2, <1>3, <1>4, KeysAreKeys DEF Input

LEMMA RowsAreTyped ==
    /\ Absent \in JobRows /\ NewJob \in JobRows /\ NewJob.state = "queued"
    /\ \A state \in JobStates : Ended(state) \in JobRows /\ Ended(state).state = state
    /\ NoIdentity \in Identities
    /\ Resolved \in Reviews
    /\ NoWord \in [said : {"none", "keep", "accept", "other"}, about : Keys]
  BY KeysAreKeys DEF Absent, NewJob, Ended, JobRows, JobStates, Codes, NoIdentity, Identities, Sources,
     Resolved, Reviews, NoWord

LEMMA TypeInvImpliesTypeOK == TypeInv => TypeOK
  BY DEF TypeInv, TypeOK, TablesOK, RestOK, WorkerOK, AlbumRows, JobRows, Reviews, Mine, Row, R, A,
     Hands, Idle, Pcs, Rows

LEMMA InitTypes == Init => TypeInv
<1> SUFFICES ASSUME Init PROVE TypeInv
  OBVIOUS
<1>1. album \in [Albums -> AlbumRows]
  <2>1. 1 \in 1 .. Files
    BY IdentificationAssumption
  <2> QED
    BY <2>1, KeysAreKeys, RowsAreTyped DEF Init, AlbumRows
<1>2. jobs \in [Albums -> [Kinds -> [Keys -> JobRows]]]
  BY RowsAreTyped DEF Init
<1>3. /\ reviews \in [Albums -> [Keys -> Reviews]]
      /\ word \in [Albums -> [said : {"none", "keep", "accept", "other"}, about : Keys]]
  BY RowsAreTyped DEF Init
<1>4. \A a \in Albums, r \in Rows : Row(a, r).state = "absent"
  BY DEF Init, Rows, Row, Absent
<1>5. RestOK
  <2>1. MaxEvents \in 0 .. MaxEvents
    BY IdentificationAssumption
  <2>2. policy \in Policies /\ left \in 0 .. MaxEvents
    BY <2>1, KeysAreKeys DEF Init
  <2>3. paused \in BOOLEAN /\ breaker \in {"closed", "open", "half_open"}
    BY Zenon DEF Init
  <2> QED
    BY <2>2, <2>3, Zenon DEF RestOK
<1> QED
  <2>1. WorkerOK
    <3>1. worker = Idle
      BY DEF Init
    <3>2. worker.pc = "idle"
      BY <3>1 DEF Idle
    <3> QED
      BY <3>1, <3>2 DEF WorkerOK
  <2>2. AttemptsOK
    BY <1>4 DEF AttemptsOK
  <2> QED
    BY <1>1, <1>2, <1>3, <1>5, <2>1, <2>2 DEF TypeInv, TablesOK

\* What comes of the rows of one kind when a job is enqueued.
LEMMA EnqueuedRows ==
    ASSUME NEW rows \in [Keys -> JobRows], NEW key \in Keys, NEW available \in BOOLEAN,
           NEW new \in Enqueued(rows, key, available)
    PROVE  /\ new \in [Keys -> JobRows]
           /\ \A k \in Keys : rows[k].state = "running" \/ new[k].state = "running" => new[k] = rows[k]
           /\ \A k \in Keys \ {key} : new[k] = rows[k] \/ new[k] = Absent
           /\ new[key].state = "queued" \/ (rows[key].state # "absent" /\ new = rows)
           /\ new[key].state = "queued"
                 \/ new[key].state = "running" \/ new[key].state \in {"failed", "ended"}
<1>0. rows[key].state \in JobStates
  BY DEF JobRows
<1>1. CASE rows[key].state # "absent"
  <2>1. new = rows \/ (rows[key].state = "failed" /\ new = [rows EXCEPT ![key] = NewJob])
    BY <1>1 DEF Enqueued
  <2>2. CASE new = rows
    BY <1>0, <1>1, <2>2 DEF JobStates
  <2>3. CASE rows[key].state = "failed" /\ new = [rows EXCEPT ![key] = NewJob]
    BY <2>3, RowsAreTyped
  <2> QED
    BY <2>1, <2>2, <2>3
<1>2. CASE rows[key].state = "absent"
  <2>1. \/ \E k \in Keys : rows[k].state = "queued" /\ new = [rows EXCEPT ![k] = Absent, ![key] = rows[k]]
        \/ new = [rows EXCEPT ![key] = NewJob]
    BY <1>2 DEF Enqueued
  <2>2. CASE new = [rows EXCEPT ![key] = NewJob]
    BY <1>2, <2>2, RowsAreTyped
  <2>3. ASSUME NEW k \in Keys, rows[k].state = "queued", new = [rows EXCEPT ![k] = Absent, ![key] = rows[k]]
        PROVE  /\ new \in [Keys -> JobRows] /\ new[key] = rows[k] /\ new[k] = Absent
               /\ \A l \in Keys \ {k, key} : new[l] = rows[l]
    BY <1>2, <2>3, RowsAreTyped
  <2>4. Absent.state = "absent"
    BY DEF Absent
  <2> QED
    BY <1>2, <2>1, <2>2, <2>3, <2>4
<1> QED
  BY <1>1, <1>2

\* What an enqueue does to an album: a decision refuses it, or the jobs of one kind take it,
\* and a decision about another input is resolved by it.
LEMMA EnqueueJobEffect ==
    ASSUME TablesOK, NEW a \in Albums, NEW kind \in Kinds, EnqueueJob(a, kind)
    PROVE  \/ /\ UNCHANGED <<jobs, reviews>>
              /\ \E k \in Decided(a) : Refuses(reviews[a][k], k, Input(a))
           \/ \E available \in BOOLEAN :
              \E rows \in Enqueued(jobs[a][kind], Input(a), available) :
                 /\ jobs' = [jobs EXCEPT ![a][kind] = rows]
                 /\ \/ Decided(a) = {} /\ UNCHANGED reviews
                    \/ \E k \in Decided(a) :
                          /\ k # Input(a) /\ reviews[a][k].state # "excluded"
                          /\ reviews' = [reviews EXCEPT ![a][k] = Resolved]
<1> USE DEF Refuses
<1>1. PICK available \in BOOLEAN :
         IF Decided(a) = {}
         THEN /\ \E rows \in Enqueued(jobs[a][kind], Input(a), available) :
                    jobs' = [jobs EXCEPT ![a][kind] = rows]
              /\ UNCHANGED reviews
         ELSE \E key \in Decided(a) :
                 IF Refuses(reviews[a][key], key, Input(a)) THEN UNCHANGED <<jobs, reviews>>
                 ELSE /\ \E rows \in Enqueued(jobs[a][kind], Input(a), available) :
                            jobs' = [jobs EXCEPT ![a][kind] = rows]
                      /\ reviews' = [reviews EXCEPT ![a][key] = Resolved]
  BY DEF EnqueueJob
<1>2. CASE Decided(a) = {}
  BY <1>1, <1>2
<1>3. CASE Decided(a) # {}
  <2>1. PICK key \in Decided(a) :
                 IF Refuses(reviews[a][key], key, Input(a)) THEN UNCHANGED <<jobs, reviews>>
                 ELSE /\ \E rows \in Enqueued(jobs[a][kind], Input(a), available) :
                            jobs' = [jobs EXCEPT ![a][kind] = rows]
                      /\ reviews' = [reviews EXCEPT ![a][key] = Resolved]
    BY <1>1, <1>3
  <2> QED
    BY <2>1
<1> QED
  BY <1>2, <1>3

-----------------------------------------------------------------------------
(* Steps keep the types *)

\* Nothing that runs is moved, and nothing begins to run.
RunsStay ==
    \A a \in Albums, r \in Rows :
        Row(a, r).state = "running" \/ Row(a, r)'.state = "running" => Row(a, r)' = Row(a, r)

\* A worker that is not idle has a claimed job in hand, which runs.
LEMMA WorkerHands ==
    ASSUME WorkerOK, worker.pc # "idle"
    PROVE  /\ worker \in Hands /\ A \in Albums /\ R \in Rows
           /\ worker.key \in Keys /\ worker.kind \in Kinds
           /\ Mine = jobs[A][worker.kind][worker.key] /\ Mine.state = "running"
<1>1. worker \in Hands
  BY DEF WorkerOK, Idle
<1>2. worker.album \in Albums /\ worker.kind \in Kinds /\ worker.key \in Keys
  BY <1>1 DEF Hands
<1>3. R \in Rows /\ R[1] = worker.kind /\ R[2] = worker.key
  BY <1>2 DEF R, Rows
<1> QED
  BY <1>1, <1>2, <1>3 DEF WorkerOK, A, Mine, Row

\* Running jobs that nothing touches leave the worker what it has in hand.
LEMMA CarriesOn ==
    ASSUME TypeInv, RunsStay, worker' = worker
    PROVE  AttemptsOK' /\ WorkerOK'
<1>1. AttemptsOK'
  BY DEF TypeInv, AttemptsOK, RunsStay
<1>2. CASE worker.pc = "idle"
  BY <1>1, <1>2 DEF TypeInv, WorkerOK
<1>3. CASE worker.pc # "idle"
  <2>1. A \in Albums /\ R \in Rows /\ Mine.state = "running"
    BY <1>3, WorkerHands DEF TypeInv
  <2>2. A' = A /\ R' = R
    BY DEF A, R
  <2>3. Row(A, R)' = Row(A, R)
    BY <2>1, <2>2 DEF RunsStay, Mine, A, R
  <2>4. Mine' = Mine
    BY <2>2, <2>3 DEF Mine
  <2> QED
    BY <1>1, <1>3, <2>1, <2>4 DEF TypeInv, WorkerOK
<1> QED
  BY <1>1, <1>2, <1>3

LEMMA SameRowsStay == ASSUME UNCHANGED jobs PROVE RunsStay
  BY DEF RunsStay, Row

LEMMA SetRowEffect ==
    ASSUME TablesOK, NEW a \in Albums, NEW r \in Rows, NEW row \in JobRows, SetRow(a, r, row)
    PROVE  /\ jobs' \in [Albums -> [Kinds -> [Keys -> JobRows]]]
           /\ Row(a, r)' = row
           /\ \A b \in Albums, q \in Rows : b # a \/ q # r => Row(b, q)' = Row(b, q)
           /\ \A b \in Albums \ {a} : jobs'[b] = jobs[b]
<1>1. r = <<r[1], r[2]>> /\ r[1] \in Kinds /\ r[2] \in Keys
  BY DEF Rows
<1>2. jobs' = [jobs EXCEPT ![a] = [jobs[a] EXCEPT ![r[1]] = [jobs[a][r[1]] EXCEPT ![r[2]] = row]]]
  BY DEF SetRow
<1>3. jobs[a] \in [Kinds -> [Keys -> JobRows]] /\ jobs \in [Albums -> [Kinds -> [Keys -> JobRows]]]
  BY DEF TablesOK
<1>4. [jobs[a][r[1]] EXCEPT ![r[2]] = row] \in [Keys -> JobRows]
  BY <1>1, <1>3
<1>5. jobs'[a] = [jobs[a] EXCEPT ![r[1]] = [jobs[a][r[1]] EXCEPT ![r[2]] = row]]
      /\ \A b \in Albums \ {a} : jobs'[b] = jobs[b]
  BY <1>2, <1>3
<1>6. jobs'[a] \in [Kinds -> [Keys -> JobRows]]
  BY <1>1, <1>3, <1>4, <1>5
<1>7. jobs' \in [Albums -> [Kinds -> [Keys -> JobRows]]]
  BY <1>2, <1>3, <1>5, <1>6
<1>8. jobs'[a][r[1]][r[2]] = row
  BY <1>1, <1>3, <1>5
<1>9. ASSUME NEW q \in Rows, q # r
      PROVE  jobs'[a][q[1]][q[2]] = jobs[a][q[1]][q[2]]
  <2>1. q = <<q[1], q[2]>> /\ q[1] \in Kinds /\ q[2] \in Keys
    BY DEF Rows
  <2>2. q[1] # r[1] \/ q[2] # r[2]
    BY <1>1, <1>9, <2>1
  <2> QED
    BY <1>1, <1>3, <1>5, <2>1, <2>2
<1>10. Row(a, r)' = row
  BY <1>8 DEF Row
<1>11. ASSUME NEW b \in Albums, NEW q \in Rows, b # a \/ q # r
       PROVE  Row(b, q)' = Row(b, q)
  <2>1. CASE b # a
    BY <1>5, <2>1 DEF Row
  <2>2. CASE b = a
    BY <1>9, <1>11, <2>2 DEF Row
  <2> QED
    BY <2>1, <2>2
<1> QED
  BY <1>5, <1>7, <1>10, <1>11

LEMMA CancelledRows ==
    ASSUME TablesOK, NEW a \in Albums
    PROVE  /\ Cancelled(a) \in [Kinds -> [Keys -> JobRows]]
           /\ \A kind \in Kinds, key \in Keys :
                 Cancelled(a)[kind][key] = IF kind = "automatic" /\ jobs[a][kind][key].state = "queued"
                                           THEN Ended("ended") ELSE jobs[a][kind][key]
<1>1. jobs[a] \in [Kinds -> [Keys -> JobRows]]
  BY DEF TablesOK
<1> DEFINE rows == [key \in Keys |-> IF jobs[a]["automatic"][key].state = "queued"
                                      THEN Ended("ended") ELSE jobs[a]["automatic"][key]]
<1>2. Cancelled(a) = [jobs[a] EXCEPT !["automatic"] = rows]
  BY DEF Cancelled
<1>3. Ended("ended") \in JobRows
  BY RowsAreTyped DEF JobStates
<1>4. "automatic" \in Kinds
  BY DEF Kinds
<1>5. rows \in [Keys -> JobRows]
  BY <1>1, <1>3, <1>4
<1>6. \A key \in Keys : rows[key] = IF jobs[a]["automatic"][key].state = "queued"
                                    THEN Ended("ended") ELSE jobs[a]["automatic"][key]
  OBVIOUS
<1> HIDE DEF rows
<1> QED
  BY <1>1, <1>2, <1>4, <1>5, <1>6

LEMMA SettledReviews ==
    ASSUME TablesOK, NEW a \in Albums
    PROVE  /\ Settled(a) \in [Keys -> Reviews]
           /\ \A key \in Keys : Settled(a)[key] = IF reviews[a][key].state = "needs_review" THEN Resolved
                                                  ELSE reviews[a][key]
<1>1. reviews[a] \in [Keys -> Reviews]
  BY DEF TablesOK
<1> QED
  BY <1>1, RowsAreTyped DEF Settled

\* The jobs of an album are replaced, and what ran runs on.
LEMMA NewRows ==
    ASSUME TablesOK, NEW a \in Albums, NEW rows \in [Kinds -> [Keys -> JobRows]],
           jobs' = [jobs EXCEPT ![a] = rows],
           \A kind \in Kinds, key \in Keys :
              jobs[a][kind][key].state = "running" \/ rows[kind][key].state = "running"
                 => rows[kind][key] = jobs[a][kind][key]
    PROVE  /\ jobs' \in [Albums -> [Kinds -> [Keys -> JobRows]]] /\ RunsStay
           /\ jobs'[a] = rows /\ \A b \in Albums \ {a} : jobs'[b] = jobs[b]
<1>1. jobs \in [Albums -> [Kinds -> [Keys -> JobRows]]]
  BY DEF TablesOK
<1>2. jobs' \in [Albums -> [Kinds -> [Keys -> JobRows]]] /\ jobs'[a] = rows
      /\ \A b \in Albums \ {a} : jobs'[b] = jobs[b]
  BY <1>1
<1>3. \A r \in Rows : r[1] \in Kinds /\ r[2] \in Keys
  BY DEF Rows
<1>4. ASSUME NEW b \in Albums, NEW r \in Rows,
             jobs[b][r[1]][r[2]].state = "running" \/ jobs'[b][r[1]][r[2]].state = "running"
      PROVE  jobs'[b][r[1]][r[2]] = jobs[b][r[1]][r[2]]
  BY <1>2, <1>3, <1>4
<1> QED
  BY <1>2, <1>4 DEF RunsStay, Row

LEMMA EnqueueTypes ==
    ASSUME TypeInv, NEW a \in Albums, NEW kind \in Kinds, EnqueueJob(a, kind)
    PROVE  /\ jobs' \in [Albums -> [Kinds -> [Keys -> JobRows]]] /\ RunsStay
           /\ reviews' \in [Albums -> [Keys -> Reviews]]
           /\ breaker' \in {"closed", "open", "half_open"}
<1>0. TablesOK /\ Input(a) \in Keys /\ jobs[a] \in [Kinds -> [Keys -> JobRows]]
      /\ reviews \in [Albums -> [Keys -> Reviews]] /\ jobs \in [Albums -> [Kinds -> [Keys -> JobRows]]]
  BY InputIsKey DEF TypeInv, TablesOK
<1>1. breaker' \in {"closed", "open", "half_open"}
  BY DEF EnqueueJob, Asked, TypeInv, RestOK
<1>2. CASE UNCHANGED <<jobs, reviews>>
  BY <1>0, <1>1, <1>2, SameRowsStay
<1>3. ASSUME NEW available \in BOOLEAN, NEW rows \in Enqueued(jobs[a][kind], Input(a), available),
             jobs' = [jobs EXCEPT ![a][kind] = rows]
      PROVE  jobs' \in [Albums -> [Kinds -> [Keys -> JobRows]]] /\ RunsStay
  <2>0. PICK ks : ks = jobs[a][kind]
    OBVIOUS
  <2>1. PICK key : key = Input(a)
    OBVIOUS
  <2>2. ks \in [Keys -> JobRows] /\ key \in Keys
    BY <1>0, <2>0, <2>1
  <2>3. PICK new : new = rows
    OBVIOUS
  <2>4. new \in Enqueued(ks, key, available)
    BY <1>3, <2>0, <2>1, <2>3
  <2>5. /\ new \in [Keys -> JobRows]
        /\ \A k \in Keys : ks[k].state = "running" \/ new[k].state = "running" => new[k] = ks[k]
    BY <2>2, <2>4, EnqueuedRows
  <2>6. PICK all : all = [jobs[a] EXCEPT ![kind] = new]
    OBVIOUS
  <2>7. all \in [Kinds -> [Keys -> JobRows]]
    BY <1>0, <2>5, <2>6
  <2>8. jobs' = [jobs EXCEPT ![a] = all]
    BY <1>3, <2>3, <2>6
  <2>9. \A l \in Kinds, k \in Keys :
              jobs[a][l][k].state = "running" \/ all[l][k].state = "running"
                 => all[l][k] = jobs[a][l][k]
    BY <1>0, <2>0, <2>5, <2>6
  <2> QED
    BY <1>0, <2>7, <2>8, <2>9, NewRows
<1>4. ASSUME NEW k \in Decided(a), reviews' = [reviews EXCEPT ![a][k] = Resolved]
      PROVE  reviews' \in [Albums -> [Keys -> Reviews]]
  BY <1>0, <1>4, RowsAreTyped DEF Decided
<1>5. CASE ~UNCHANGED <<jobs, reviews>>
  <2>1. PICK available \in BOOLEAN : \E rows \in Enqueued(jobs[a][kind], Input(a), available) :
                 /\ jobs' = [jobs EXCEPT ![a][kind] = rows]
                 /\ \/ UNCHANGED reviews
                    \/ \E k \in Decided(a) : reviews' = [reviews EXCEPT ![a][k] = Resolved]
    <3>1. \E available \in BOOLEAN :
             \E rows \in Enqueued(jobs[a][kind], Input(a), available) :
                 /\ jobs' = [jobs EXCEPT ![a][kind] = rows]
                 /\ \/ Decided(a) = {} /\ UNCHANGED reviews
                    \/ \E k \in Decided(a) :
                          /\ k # Input(a) /\ reviews[a][k].state # "excluded"
                          /\ reviews' = [reviews EXCEPT ![a][k] = Resolved]
      BY <1>0, <1>5, EnqueueJobEffect
    <3> QED
      BY <3>1, Zenon
  <2>2. PICK rows \in Enqueued(jobs[a][kind], Input(a), available) :
                 /\ jobs' = [jobs EXCEPT ![a][kind] = rows]
                 /\ \/ UNCHANGED reviews
                    \/ \E k \in Decided(a) : reviews' = [reviews EXCEPT ![a][k] = Resolved]
    BY <2>1
  <2> QED
    BY <1>0, <1>1, <1>3, <1>4, <2>2
<1> QED
  BY <1>2, <1>5

\* Steps on one album leave the others alone.
Elsewhere(a) ==
    \A b \in Albums \ {a} : /\ album'[b] = album[b] /\ jobs'[b] = jobs[b]
                            /\ reviews'[b] = reviews[b] /\ word'[b] = word[b]

LEMMA AlbumFields ==
    ASSUME TablesOK, NEW a \in Albums
    PROVE  /\ album[a] \in AlbumRows
           /\ album[a].files \in 1 .. Files /\ album[a].policy \in Policies
           /\ album[a].barred \in BOOLEAN /\ album[a].where \in {"indexed", "missing", "retired"}
           /\ album[a].owed \in BOOLEAN /\ album[a].identity \in Identities
           /\ album[a].identity.source \in Sources /\ album[a].identity.of \in Keys
<1>1. album[a] \in AlbumRows
  BY DEF TablesOK
<1>2. /\ album[a].files \in 1 .. Files /\ album[a].policy \in Policies
      /\ album[a].barred \in BOOLEAN /\ album[a].where \in {"indexed", "missing", "retired"}
      /\ album[a].owed \in BOOLEAN /\ album[a].identity \in Identities
  BY <1>1 DEF AlbumRows
<1> QED
  BY <1>1, <1>2 DEF Identities

LEMMA NewAlbum ==
    ASSUME TablesOK, NEW a \in Albums, NEW rec \in AlbumRows, album' = [album EXCEPT ![a] = rec]
    PROVE  album' \in [Albums -> AlbumRows] /\ album'[a] = rec
           /\ \A b \in Albums \ {a} : album'[b] = album[b]
  BY DEF TablesOK

LEMMA ReviewFields ==
    ASSUME TablesOK, NEW a \in Albums, NEW key \in Keys
    PROVE  /\ reviews[a][key] \in Reviews
           /\ reviews[a][key].state \in {"needs_review", "keep_tagged", "excluded", "resolved"}
           /\ reviews[a][key].about \in Keys
           /\ reviews[a][key].seen \in Identities
  BY DEF TablesOK, Reviews

LEMMA NewReview ==
    ASSUME TablesOK, NEW a \in Albums, NEW key \in Keys, NEW review \in Reviews,
           reviews' = [reviews EXCEPT ![a][key] = review]
    PROVE  /\ reviews' \in [Albums -> [Keys -> Reviews]] /\ reviews'[a][key] = review
           /\ \A k \in Keys \ {key} : reviews'[a][k] = reviews[a][k]
           /\ \A b \in Albums \ {a} : reviews'[b] = reviews[b]
  BY DEF TablesOK

\* The type invariant, one lemma for each kind of step, with what the step changes.
LEMMA ScanTypes ==
    ASSUME TypeInv, NEW a \in Albums, Change(a) \/ Regroup(a) \/ Retire(a)
    PROVE  TypeInv' /\ Elsewhere(a)
<1>0. TablesOK /\ RestOK /\ left \in Nat /\ policy \in Policies
  BY IdentificationAssumption DEF TypeInv, RestOK
<1>1. PICK rec : rec \in AlbumRows /\ album' = [album EXCEPT ![a] = rec]
  <2>1. CASE Change(a)
    <3>1. album[a].files + 1 \in 1 .. Files
      BY <1>0, <2>1, AlbumFields, IdentificationAssumption DEF Change
    <3>2. [album[a] EXCEPT !.files = album[a].files + 1, !.policy = policy,
                           !.where = "indexed", !.owed = TRUE] \in AlbumRows
      BY <1>0, <3>1, AlbumFields DEF AlbumRows
    <3> QED
      BY <2>1, <3>2 DEF Change, Indexing
  <2>2. CASE Regroup(a)
    <3>1. [album[a] EXCEPT !.owed = TRUE] \in AlbumRows
      BY <1>0, AlbumFields DEF AlbumRows
    <3>2. album' = [album EXCEPT ![a] = [album[a] EXCEPT !.owed = TRUE]]
      BY <1>0, <2>2 DEF Regroup, TablesOK
    <3> QED
      BY <3>1, <3>2
  <2>3. CASE Retire(a)
    <3>1. [album[a] EXCEPT !.where = "retired", !.owed = FALSE] \in AlbumRows
      BY <1>0, AlbumFields DEF AlbumRows
    <3>2. album' = [album EXCEPT ![a] = [album[a] EXCEPT !.where = "retired", !.owed = FALSE]]
      BY <1>0, <2>3 DEF Retire, TablesOK
    <3> QED
      BY <3>1, <3>2
  <2> QED
    BY <2>1, <2>2, <2>3
<1>2. UNCHANGED <<jobs, reviews, policy, breaker, paused, worker, word>> /\ left' \in 0 .. MaxEvents
  BY <1>0, IdentificationAssumption DEF Change, Regroup, Retire, scanVars, Happens, RestOK
<1>3. TablesOK' /\ Elsewhere(a)
  BY <1>0, <1>1, <1>2, NewAlbum DEF TablesOK, Elsewhere
<1>4. RestOK'
  BY <1>0, <1>2, Zenon DEF RestOK
<1> QED
  BY <1>2, <1>3, <1>4, CarriesOn, SameRowsStay DEF TypeInv

LEMMA EventsLeft ==
    ASSUME TypeInv, Happens \/ left' = left
    PROVE  left' \in 0 .. MaxEvents
  BY IdentificationAssumption DEF TypeInv, RestOK, Happens

LEMMA QueueTypes ==
    ASSUME TypeInv, NEW a \in Albums, Enqueue(a) \/ Reconsider(a) \/ Repair(a)
    PROVE  TypeInv' /\ Elsewhere(a)
<1>0. TablesOK /\ RestOK
  BY DEF TypeInv
<1>1. left' \in 0 .. MaxEvents /\ UNCHANGED <<policy, paused, worker, word>>
  BY EventsLeft DEF Enqueue, Reconsider, Repair, scanVars
<1>2. album' \in [Albums -> AlbumRows] /\ \A b \in Albums \ {a} : album'[b] = album[b]
  <2>1. album' = album \/ album' = [album EXCEPT ![a].owed = FALSE]
    BY DEF Enqueue, Reconsider, Repair
  <2>2. [album[a] EXCEPT !.owed = FALSE] \in AlbumRows
    BY <1>0, AlbumFields DEF AlbumRows
  <2>3. album' = album \/ album' = [album EXCEPT ![a] = [album[a] EXCEPT !.owed = FALSE]]
    BY <1>0, <2>1 DEF TablesOK
  <2> QED
    BY <1>0, <2>2, <2>3, NewAlbum DEF TablesOK
<1>3. /\ jobs' \in [Albums -> [Kinds -> [Keys -> JobRows]]] /\ RunsStay
      /\ reviews' \in [Albums -> [Keys -> Reviews]]
      /\ breaker' \in {"closed", "open", "half_open"}
      /\ \A b \in Albums \ {a} : jobs'[b] = jobs[b] /\ reviews'[b] = reviews[b]
  <2>1. \/ UNCHANGED <<jobs, reviews, breaker>>
        \/ \E kind \in Kinds : EnqueueJob(a, kind)
    BY DEF Enqueue, Reconsider, Repair, Kinds
  <2>2. CASE UNCHANGED <<jobs, reviews, breaker>>
    BY <1>0, <2>2, SameRowsStay DEF TablesOK, RestOK
  <2>3. ASSUME NEW kind \in Kinds, EnqueueJob(a, kind)
        PROVE  \A b \in Albums \ {a} : jobs'[b] = jobs[b] /\ reviews'[b] = reviews[b]
    <3>1. jobs' = jobs \/ \E rows : jobs' = [jobs EXCEPT ![a][kind] = rows]
      BY <1>0, <2>3, EnqueueJobEffect
    <3>2. reviews' = reviews \/ \E k \in Decided(a) : reviews' = [reviews EXCEPT ![a][k] = Resolved]
      BY <1>0, <2>3, EnqueueJobEffect
    <3> QED
      BY <1>0, <3>1, <3>2 DEF TablesOK
  <2> QED
    BY <2>1, <2>2, <2>3, EnqueueTypes
<1>4. TablesOK' /\ Elsewhere(a)
  BY <1>0, <1>1, <1>2, <1>3 DEF TablesOK, Elsewhere
<1>5. RestOK'
  BY <1>0, <1>1, <1>3, Zenon DEF RestOK
<1> QED
  BY <1>1, <1>3, <1>4, <1>5, CarriesOn DEF TypeInv

LEMMA ReconcileTypes ==
    ASSUME TypeInv, NEW a \in Albums, ApplyPolicy(a) \/ Return(a)
    PROVE  /\ TypeInv' /\ Elsewhere(a)
           /\ album'[a] = [album[a] EXCEPT !.policy = policy, !.where = "indexed"]
           /\ \A r \in Rows : \/ Row(a, r)' = Row(a, r)
                              \/ /\ r = <<"automatic", PolicyKey(policy)>>
                                 /\ Row(a, r).state \notin Active /\ Row(a, r)' = NewJob
<1>0. TablesOK /\ RestOK /\ policy \in Policies /\ Reconciles(a)
  BY DEF TypeInv, RestOK, ApplyPolicy, Return
<1>1. [album[a] EXCEPT !.policy = policy, !.where = "indexed"] \in AlbumRows
  BY <1>0, AlbumFields DEF AlbumRows
<1>2. album' = [album EXCEPT ![a] = [album[a] EXCEPT !.policy = policy, !.where = "indexed"]]
  BY <1>0 DEF Reconciles, TablesOK
<1>3. album' \in [Albums -> AlbumRows] /\ (\A b \in Albums \ {a} : album'[b] = album[b])
      /\ album'[a] = [album[a] EXCEPT !.policy = policy, !.where = "indexed"]
  BY <1>0, <1>1, <1>2, NewAlbum
<1>4. UNCHANGED <<reviews, policy, breaker, left, paused, worker, word>>
  BY <1>0 DEF Reconciles, scanVars
<1> DEFINE r0 == <<"automatic", PolicyKey(policy)>>
<1>5. r0 \in Rows
  BY <1>0, KeysAreKeys DEF Rows, Kinds
<1>6. UNCHANGED jobs \/ (Row(a, r0).state \notin Active /\ SetRow(a, r0, NewJob))
  BY <1>0 DEF Reconciles, SetRow, Row
<1>7. /\ jobs' \in [Albums -> [Kinds -> [Keys -> JobRows]]] /\ RunsStay
      /\ \A b \in Albums \ {a} : jobs'[b] = jobs[b]
      /\ \A r \in Rows : \/ Row(a, r)' = Row(a, r)
                         \/ r = r0 /\ Row(a, r).state \notin Active /\ Row(a, r)' = NewJob
  <2>1. CASE UNCHANGED jobs
    BY <1>0, <2>1, SameRowsStay DEF TablesOK, Row
  <2>2. CASE Row(a, r0).state \notin Active /\ SetRow(a, r0, NewJob)
    <3>0. PICK r : r = r0
      OBVIOUS
    <3>1. r \in Rows /\ Row(a, r).state \notin Active /\ SetRow(a, r, NewJob)
      BY <1>5, <2>2, <3>0
    <3> HIDE DEF r0
    <3>2. /\ jobs' \in [Albums -> [Kinds -> [Keys -> JobRows]]]
          /\ Row(a, r)' = NewJob
          /\ \A b \in Albums, q \in Rows : b # a \/ q # r => Row(b, q)' = Row(b, q)
          /\ \A b \in Albums \ {a} : jobs'[b] = jobs[b]
      BY <1>0, <3>1, RowsAreTyped, SetRowEffect
    <3>3. RunsStay
      BY <3>1, <3>2, RowsAreTyped DEF RunsStay, Active
    <3> QED
      BY <3>0, <3>1, <3>2, <3>3
  <2> QED
    BY <1>6, <2>1, <2>2
<1>8. TablesOK' /\ Elsewhere(a)
  BY <1>0, <1>3, <1>4, <1>7 DEF TablesOK, Elsewhere
<1>9. RestOK'
  BY <1>0, <1>4, Zenon DEF RestOK
<1> QED
  BY <1>3, <1>4, <1>7, <1>8, <1>9, CarriesOn DEF TypeInv

LEMMA VanishTypes ==
    ASSUME TypeInv, NEW a \in Albums, Vanish(a)
    PROVE  /\ TypeInv' /\ Elsewhere(a)
           /\ album'[a] = [album[a] EXCEPT !.where = "missing"] /\ reviews'[a] = Settled(a)
<1>0. TablesOK /\ RestOK
  BY DEF TypeInv
<1>1. [album[a] EXCEPT !.where = "missing"] \in AlbumRows
  BY <1>0, AlbumFields DEF AlbumRows
<1>2. album' = [album EXCEPT ![a] = [album[a] EXCEPT !.where = "missing"]]
  BY <1>0 DEF Vanish, TablesOK
<1>3. album' \in [Albums -> AlbumRows] /\ (\A b \in Albums \ {a} : album'[b] = album[b])
      /\ album'[a] = [album[a] EXCEPT !.where = "missing"]
  BY <1>0, <1>1, <1>2, NewAlbum
<1>4. reviews' \in [Albums -> [Keys -> Reviews]] /\ reviews'[a] = Settled(a)
      /\ \A b \in Albums \ {a} : reviews'[b] = reviews[b]
  BY <1>0, SettledReviews DEF Vanish, TablesOK
<1>5. UNCHANGED <<jobs, policy, breaker, paused, worker, word>> /\ left' \in 0 .. MaxEvents
  BY EventsLeft DEF Vanish, scanVars
<1>6. TablesOK' /\ Elsewhere(a)
  BY <1>0, <1>3, <1>4, <1>5 DEF TablesOK, Elsewhere
<1>7. RestOK'
  BY <1>0, <1>5, Zenon DEF RestOK
<1> QED
  BY <1>3, <1>4, <1>5, <1>6, <1>7, CarriesOn, SameRowsStay DEF TypeInv

\* The jobs of an album are cancelled; of the given key, failed ones no longer ask for attention.
LEMMA DecidedRows ==
    ASSUME TablesOK, NEW a \in Albums, NEW key \in Keys, NEW rows,
           \/ rows = Cancelled(a)
           \/ rows = [kind \in Kinds |-> [Cancelled(a)[kind] EXCEPT ![key] =
                         IF @.state = "failed" THEN Ended("ended") ELSE @]]
    PROVE  /\ rows \in [Kinds -> [Keys -> JobRows]]
           /\ \A kind \in Kinds, k \in Keys :
                 \/ rows[kind][k] = jobs[a][kind][k]
                 \/ jobs[a][kind][k].state \in {"queued", "failed"} /\ rows[kind][k].state = "ended"
           /\ \A k \in Keys : rows["automatic"][k].state # "queued"
<1>1. Ended("ended") \in JobRows /\ Ended("ended").state = "ended"
  BY RowsAreTyped DEF JobStates
<1>2. /\ Cancelled(a) \in [Kinds -> [Keys -> JobRows]]
      /\ \A kind \in Kinds, k \in Keys :
            \/ Cancelled(a)[kind][k] = jobs[a][kind][k]
            \/ jobs[a][kind][k].state = "queued" /\ Cancelled(a)[kind][k].state = "ended"
      /\ \A k \in Keys : Cancelled(a)["automatic"][k].state # "queued"
  BY <1>1, CancelledRows DEF Kinds
<1>3. PICK cs : cs = Cancelled(a)
  OBVIOUS
<1>4. CASE rows = cs
  BY <1>2, <1>3, <1>4
<1>5. CASE rows = [kind \in Kinds |-> [cs[kind] EXCEPT ![key] =
                       IF @.state = "failed" THEN Ended("ended") ELSE @]]
  <2>1. \A kind \in Kinds :
           /\ rows[kind] \in [Keys -> JobRows]
           /\ \A k \in Keys :
                 \/ rows[kind][k] = cs[kind][k]
                 \/ cs[kind][k].state = "failed" /\ rows[kind][k] = Ended("ended")
    <3> SUFFICES ASSUME NEW kind \in Kinds
                 PROVE  /\ rows[kind] \in [Keys -> JobRows]
                        /\ \A k \in Keys :
                              \/ rows[kind][k] = cs[kind][k]
                              \/ cs[kind][k].state = "failed" /\ rows[kind][k] = Ended("ended")
      OBVIOUS
    <3>1. rows[kind] = [cs[kind] EXCEPT ![key] = IF cs[kind][key].state = "failed"
                                                  THEN Ended("ended") ELSE cs[kind][key]]
      BY <1>5
    <3>2. cs[kind] \in [Keys -> JobRows]
      BY <1>2, <1>3
    <3>3. PICK new : new = IF cs[kind][key].state = "failed" THEN Ended("ended") ELSE cs[kind][key]
      OBVIOUS
    <3>4. new \in JobRows /\ (new = cs[kind][key] \/ (cs[kind][key].state = "failed" /\ new = Ended("ended")))
      BY <1>1, <3>2, <3>3
    <3>5. rows[kind] = [cs[kind] EXCEPT ![key] = new]
      BY <3>1, <3>3
    <3> QED
      BY <3>2, <3>4, <3>5
  <2>2. rows \in [Kinds -> [Keys -> JobRows]]
    BY <1>5, <2>1
  <2>3. "automatic" \in Kinds
    BY DEF Kinds
  <2> QED
    BY <1>1, <1>2, <1>3, <2>1, <2>2, <2>3
<1> QED
  BY <1>3, <1>4, <1>5

\* What all decisions do.
LEMMA DecisionTypes ==
    ASSUME TypeInv, NEW a \in Albums, NEW key \in Keys, UserStep(a, key)
    PROVE  /\ TypeInv' /\ Elsewhere(a)
           /\ key \in Unresolved(a) /\ (key = Input(a) \/ "otherReview" \in Admits)
           /\ word'[a].said \in {"keep", "accept", "other"}
           /\ word'[a].about = reviews[a][key].about
           /\ album'[a].files = album[a].files /\ album'[a].policy = album[a].policy
           /\ album'[a].owed = album[a].owed
           /\ album[a].where = "retired" => album'[a].where = "retired"
           /\ album'[a].identity \in {album[a].identity, NoIdentity,
                                      [source |-> "manual", of |-> Input(a)]}
           /\ \A k \in Keys \ {key} : reviews'[a][k] = reviews[a][k]
           /\ reviews'[a][key] \in {Resolved, [reviews[a][key] EXCEPT !.state = "keep_tagged"],
                                    [reviews[a][key] EXCEPT !.state = "excluded"]}
           /\ \A r \in Rows : \/ Row(a, r)' = Row(a, r)
                              \/ Row(a, r).state \in {"queued", "failed"} /\ Row(a, r)'.state = "ended"
           /\ \A k \in Keys : jobs'[a]["automatic"][k].state # "queued"
           /\ UNCHANGED <<policy, worker>>
<1>0. TablesOK /\ RestOK
  BY DEF TypeInv
<1>1. album' \in [Albums -> AlbumRows] /\ (\A b \in Albums \ {a} : album'[b] = album[b])
      /\ album'[a].files = album[a].files /\ album'[a].policy = album[a].policy
      /\ album'[a].owed = album[a].owed
      /\ (album[a].where = "retired" => album'[a].where = "retired")
      /\ album'[a].identity \in {album[a].identity, NoIdentity, [source |-> "manual", of |-> Input(a)]}
  <2>1. PICK rec : /\ rec \in AlbumRows /\ album' = [album EXCEPT ![a] = rec]
                   /\ rec.files = album[a].files /\ rec.policy = album[a].policy
                   /\ rec.owed = album[a].owed
                   /\ album[a].where = "retired" => rec.where = "retired"
                   /\ rec.identity \in {album[a].identity, NoIdentity,
                                        [source |-> "manual", of |-> Input(a)]}
    <3>1. CASE Keep(a, key)
      <4>1. [album[a] EXCEPT !.identity = NoIdentity] \in AlbumRows
        BY <1>0, AlbumFields, RowsAreTyped DEF AlbumRows
      <4>2. album' = [album EXCEPT ![a] = [album[a] EXCEPT !.identity = NoIdentity]]
        BY <1>0, <3>1 DEF Keep, TablesOK
      <4>3. PICK rec : rec = [album[a] EXCEPT !.identity = NoIdentity]
        OBVIOUS
      <4>4. /\ rec.files = album[a].files /\ rec.policy = album[a].policy
            /\ rec.owed = album[a].owed
            /\ album[a].where = "retired" => rec.where = "retired"
            /\ rec.identity \in {album[a].identity, NoIdentity,
                                 [source |-> "manual", of |-> Input(a)]}
        BY <1>0, <4>3, AlbumFields DEF AlbumRows
      <4> QED
        BY <4>1, <4>2, <4>3, <4>4
    <3>2. CASE Exclude(a, key)
      <4>1. [album[a] EXCEPT !.barred = TRUE] \in AlbumRows
        BY <1>0, AlbumFields DEF AlbumRows
      <4>2. album' = [album EXCEPT ![a] = [album[a] EXCEPT !.barred = TRUE]]
        BY <1>0, <3>2 DEF Exclude, TablesOK
      <4>3. PICK rec : rec = [album[a] EXCEPT !.barred = TRUE]
        OBVIOUS
      <4>4. /\ rec.files = album[a].files /\ rec.policy = album[a].policy
            /\ rec.owed = album[a].owed
            /\ album[a].where = "retired" => rec.where = "retired"
            /\ rec.identity \in {album[a].identity, NoIdentity,
                                 [source |-> "manual", of |-> Input(a)]}
        BY <1>0, <4>3, AlbumFields DEF AlbumRows
      <4> QED
        BY <4>1, <4>2, <4>3, <4>4
    <3>3. CASE Restore(a, key)
      <4>0. PICK where \in {"indexed", "missing", "retired"} :
               where = IF album[a].where = "missing" THEN "indexed" ELSE album[a].where
        BY <1>0, AlbumFields
      <4>1. [album[a] EXCEPT !.barred = FALSE, !.where = where] \in AlbumRows
        BY <1>0, AlbumFields DEF AlbumRows
      <4>2. album' = [album EXCEPT ![a] = [album[a] EXCEPT !.barred = FALSE, !.where = where]]
        BY <3>3, <4>0 DEF Restore
      <4>3. PICK rec : rec = [album[a] EXCEPT !.barred = FALSE, !.where = where]
        OBVIOUS
      <4>4. /\ rec.files = album[a].files /\ rec.policy = album[a].policy
            /\ rec.owed = album[a].owed
            /\ album[a].where = "retired" => rec.where = "retired"
            /\ rec.identity \in {album[a].identity, NoIdentity,
                                 [source |-> "manual", of |-> Input(a)]}
        BY <1>0, <4>0, <4>3, AlbumFields DEF AlbumRows
      <4> QED
        BY <4>1, <4>2, <4>3, <4>4
    <3>4. CASE Dismiss(a, key)
      BY <1>0, <3>4, AlbumFields DEF Dismiss, TablesOK
    <3>5. CASE Accept(a, key)
      <4>0. [source |-> "manual", of |-> Input(a)] \in Identities
        BY <1>0, InputIsKey DEF Identities, Sources
      <4>1. [album[a] EXCEPT !.identity = [source |-> "manual", of |-> Input(a)]] \in AlbumRows
        BY <1>0, <4>0, AlbumFields DEF AlbumRows
      <4>2. album' = [album EXCEPT ![a] = [album[a] EXCEPT !.identity = [source |-> "manual", of |-> Input(a)]]]
        BY <1>0, <3>5 DEF Accept, TablesOK
      <4>3. PICK rec : rec = [album[a] EXCEPT !.identity = [source |-> "manual", of |-> Input(a)]]
        OBVIOUS
      <4>4. /\ rec.files = album[a].files /\ rec.policy = album[a].policy
            /\ rec.owed = album[a].owed
            /\ album[a].where = "retired" => rec.where = "retired"
            /\ rec.identity \in {album[a].identity, NoIdentity,
                                 [source |-> "manual", of |-> Input(a)]}
        BY <1>0, <4>3, AlbumFields DEF AlbumRows
      <4> QED
        BY <4>1, <4>2, <4>3, <4>4
    <3> QED
      BY <3>1, <3>2, <3>3, <3>4, <3>5 DEF UserStep
  <2> QED
    BY <1>0, <2>1, NewAlbum
<1>2. PICK review, said :
         /\ review \in {Resolved, [reviews[a][key] EXCEPT !.state = "keep_tagged"],
                        [reviews[a][key] EXCEPT !.state = "excluded"]}
         /\ said \in {"keep", "accept", "other"} /\ Decides(a, key, said, review)
  BY DEF UserStep, Keep, Exclude, Restore, Dismiss, Accept
<1>3. review \in Reviews
  BY <1>0, <1>2, ReviewFields, RowsAreTyped DEF Reviews
<1>4. reviews' \in [Albums -> [Keys -> Reviews]] /\ reviews'[a][key] = review
      /\ (\A k \in Keys \ {key} : reviews'[a][k] = reviews[a][k])
      /\ \A b \in Albums \ {a} : reviews'[b] = reviews[b]
  BY <1>0, <1>2, <1>3, NewReview DEF Decides
<1>5. word' = [word EXCEPT ![a] = [said |-> said, about |-> reviews[a][key].about]]
  BY <1>2 DEF Decides
<1>6. /\ word' \in [Albums -> [said : {"none", "keep", "accept", "other"}, about : Keys]]
      /\ word'[a].said = said /\ word'[a].about = reviews[a][key].about
      /\ \A b \in Albums \ {a} : word'[b] = word[b]
  BY <1>0, <1>2, <1>5, ReviewFields DEF TablesOK
<1>7. UNCHANGED <<policy, paused, breaker, worker>> /\ left' \in 0 .. MaxEvents
  BY <1>2, EventsLeft DEF Decides, decisionVars
<1>8. PICK rows : /\ jobs' = [jobs EXCEPT ![a] = rows]
                  /\ \/ rows = Cancelled(a)
                     \/ rows = [kind \in Kinds |-> [Cancelled(a)[kind] EXCEPT ![key] =
                                   IF @.state = "failed" THEN Ended("ended") ELSE @]]
  BY DEF UserStep, Keep, Exclude, Restore, Dismiss, Accept
<1>9. /\ rows \in [Kinds -> [Keys -> JobRows]]
      /\ \A kind \in Kinds, k \in Keys :
            \/ rows[kind][k] = jobs[a][kind][k]
            \/ jobs[a][kind][k].state \in {"queued", "failed"} /\ rows[kind][k].state = "ended"
      /\ \A k \in Keys : rows["automatic"][k].state # "queued"
  BY <1>0, <1>8, DecidedRows
<1>10. /\ jobs' \in [Albums -> [Kinds -> [Keys -> JobRows]]] /\ RunsStay
       /\ jobs'[a] = rows /\ \A b \in Albums \ {a} : jobs'[b] = jobs[b]
  BY <1>0, <1>8, <1>9, NewRows
<1>11. \A r \in Rows : \/ Row(a, r)' = Row(a, r)
                       \/ Row(a, r).state \in {"queued", "failed"} /\ Row(a, r)'.state = "ended"
  BY <1>9, <1>10 DEF Row, Rows
<1>12. key \in Unresolved(a) /\ (key = Input(a) \/ "otherReview" \in Admits)
  BY <1>2 DEF UserStep, Keep, Exclude, Restore, Dismiss, Accept, Open, Unresolved, Decides
<1>13. TablesOK' /\ Elsewhere(a)
  BY <1>1, <1>4, <1>6, <1>10 DEF TablesOK, Elsewhere
<1>14. RestOK'
  BY <1>0, <1>7, Zenon DEF RestOK
<1>15. TypeInv'
  BY <1>7, <1>10, <1>13, <1>14, CarriesOn DEF TypeInv
<1> QED
  BY <1>1, <1>2, <1>4, <1>6, <1>7, <1>9, <1>10, <1>11, <1>12, <1>13, <1>15

\* A new policy moves no album; where it prohibits them, queued jobs are cancelled.
LEMMA PolicyTypes ==
    ASSUME TypeInv, NEW p \in Policies, SetPolicy(p)
    PROVE  /\ TypeInv' /\ policy' = p /\ UNCHANGED <<album, reviews, word, worker>>
           /\ (p > policy /\ PolicyApplied) \/ "policyWithdrawn" \in Admits
           /\ Effective[p] = "automatic" => UNCHANGED jobs
           /\ \A a \in Albums, r \in Rows :
                 \/ Row(a, r)' = Row(a, r)
                 \/ Row(a, r).state = "queued" /\ Row(a, r)'.state = "ended"
<1>0. TablesOK /\ RestOK
  BY DEF TypeInv
<1>1. policy' = p /\ UNCHANGED <<album, reviews, breaker, paused, worker, word>> /\ left' \in 0 .. MaxEvents
  BY EventsLeft DEF SetPolicy, scanVars
<1>2. CASE UNCHANGED jobs
  <2>1. TablesOK'
    BY <1>0, <1>1, <1>2 DEF TablesOK
  <2>2. RestOK'
    BY <1>0, <1>1, Zenon DEF RestOK
  <2>3. \A a \in Albums, r \in Rows : Row(a, r)' = Row(a, r)
    BY <1>2 DEF Row
  <2> QED
    BY <1>1, <1>2, <2>1, <2>2, <2>3, CarriesOn, SameRowsStay DEF TypeInv, SetPolicy
<1>3. CASE Effective[p] # "automatic"
  <2>1. jobs' = [a \in Albums |-> IF album[a].where = "retired" THEN jobs[a] ELSE Cancelled(a)]
    BY <1>3 DEF SetPolicy
  <2>2. jobs \in [Albums -> [Kinds -> [Keys -> JobRows]]]
    BY <1>0 DEF TablesOK
  <2>3. \A a \in Albums :
           /\ Cancelled(a) \in [Kinds -> [Keys -> JobRows]]
           /\ \A kind \in Kinds, k \in Keys :
                 \/ Cancelled(a)[kind][k] = jobs[a][kind][k]
                 \/ jobs[a][kind][k].state = "queued" /\ Cancelled(a)[kind][k].state = "ended"
    <3>1. Ended("ended").state = "ended"
      BY RowsAreTyped DEF JobStates
    <3> SUFFICES ASSUME NEW a \in Albums
                 PROVE  /\ Cancelled(a) \in [Kinds -> [Keys -> JobRows]]
                        /\ \A kind \in Kinds, k \in Keys :
                              \/ Cancelled(a)[kind][k] = jobs[a][kind][k]
                              \/ jobs[a][kind][k].state = "queued" /\ Cancelled(a)[kind][k].state = "ended"
      OBVIOUS
    <3> QED
      BY <1>0, <3>1, CancelledRows
  <2>4. jobs' \in [Albums -> [Kinds -> [Keys -> JobRows]]]
    BY <2>1, <2>2, <2>3
  <2>5. \A a \in Albums, kind \in Kinds, k \in Keys :
           \/ jobs'[a][kind][k] = jobs[a][kind][k]
           \/ jobs[a][kind][k].state = "queued" /\ jobs'[a][kind][k].state = "ended"
    BY <2>1, <2>3
  <2>6. \A a \in Albums, r \in Rows :
           \/ Row(a, r)' = Row(a, r)
           \/ Row(a, r).state = "queued" /\ Row(a, r)'.state = "ended"
    BY <2>5 DEF Row, Rows
  <2>7. RunsStay
    BY <2>6 DEF RunsStay
  <2>8. TablesOK'
    BY <1>0, <1>1, <2>4 DEF TablesOK
  <2>9. RestOK'
    BY <1>0, <1>1, Zenon DEF RestOK
  <2> QED
    BY <1>1, <1>3, <2>6, <2>7, <2>8, <2>9, CarriesOn DEF TypeInv, SetPolicy
<1> QED
  BY <1>2, <1>3 DEF SetPolicy

\* Jobs are claimed, given back, put off or collected; albums and reviews stay.
JobsMove ==
    /\ UNCHANGED <<album, reviews, word, policy>>
    /\ \A a \in Albums, r \in Rows :
          \/ Row(a, r)' = Row(a, r)
          \/ Row(a, r).state \in Active /\ Row(a, r)'.state \in Active
          \/ /\ Row(a, r).state = "queued" /\ Row(a, r)'.state = "ended"
             /\ album[a].where = "retired" \/ album[a].barred \/ "graceRunsOut" \in Admits

LEMMA RowFields ==
    ASSUME TablesOK, NEW a \in Albums, NEW r \in Rows
    PROVE  /\ Row(a, r) \in JobRows /\ Row(a, r).state \in JobStates /\ Row(a, r).attempts \in Nat
           /\ Row(a, r).due \in BOOLEAN /\ Row(a, r).failure \in Codes
<1>1. r[1] \in Kinds /\ r[2] \in Keys
  BY DEF Rows
<1>2. Row(a, r) \in JobRows
  BY <1>1 DEF TablesOK, Row
<1> QED
  BY <1>2 DEF JobRows

\* A job that nobody has in hand is moved.
LEMMA LooseJobTypes ==
    ASSUME TypeInv, NEW a \in Albums, NEW r \in Rows,
           Recover(a, r) \/ CollectStale(a, r) \/ Elapse(a, r)
    PROVE  TypeInv' /\ JobsMove /\ worker' = worker
<1>0. TablesOK /\ RestOK /\ AttemptsOK /\ WorkerOK
  BY DEF TypeInv
<1>1. UNCHANGED <<album, reviews, word, policy, paused, breaker, worker, left>>
  BY DEF Recover, CollectStale, Elapse, workVars
<1>2. PICK row \in JobRows :
         /\ SetRow(a, r, row) /\ row.state # "running"
         /\ \/ Row(a, r).state \in Active /\ row.state \in Active
            \/ /\ Row(a, r).state = "queued" /\ row.state = "ended"
               /\ album[a].where = "retired" \/ album[a].barred \/ "graceRunsOut" \in Admits
         /\ Row(a, r).state = "running" => worker.pc = "idle"
  <2>1. CASE Recover(a, r)
    <3>1. [Row(a, r) EXCEPT !.state = "queued"] \in JobRows
      BY <1>0, RowFields DEF JobRows, JobStates
    <3>2. [Row(a, r) EXCEPT !.state = "queued"].state = "queued"
      BY <1>0, RowFields DEF JobRows
    <3> QED
      BY <2>1, <3>1, <3>2 DEF Recover, Active, At
  <2>2. CASE CollectStale(a, r)
    BY <2>2, RowsAreTyped DEF CollectStale, JobStates
  <2>3. CASE Elapse(a, r)
    <3>1. [Row(a, r) EXCEPT !.due = TRUE] \in JobRows
      BY <1>0, RowFields DEF JobRows
    <3>2. [Row(a, r) EXCEPT !.due = TRUE].state = Row(a, r).state
      BY <1>0, RowFields DEF JobRows
    <3> QED
      BY <2>3, <3>1, <3>2 DEF Elapse, Active
  <2> QED
    BY <2>1, <2>2, <2>3
<1>3. /\ jobs' \in [Albums -> [Kinds -> [Keys -> JobRows]]]
      /\ Row(a, r)' = row
      /\ \A b \in Albums, q \in Rows : b # a \/ q # r => Row(b, q)' = Row(b, q)
  BY <1>0, <1>2, SetRowEffect
<1>4. AttemptsOK'
  BY <1>0, <1>2, <1>3 DEF AttemptsOK
<1>5. WorkerOK'
  <2>1. CASE worker.pc = "idle"
    BY <1>0, <1>1, <2>1 DEF WorkerOK
  <2>2. CASE worker.pc # "idle"
    <3>1. RunsStay
      BY <1>2, <1>3, <2>2 DEF RunsStay
    <3> QED
      BY <1>1, <3>1, CarriesOn
  <2> QED
    BY <2>1, <2>2
<1>6. TablesOK'
  BY <1>0, <1>1, <1>3 DEF TablesOK
<1>7. RestOK'
  BY <1>0, <1>1, Zenon DEF RestOK
<1>8. JobsMove
  BY <1>1, <1>2, <1>3 DEF JobsMove
<1> QED
  BY <1>1, <1>4, <1>5, <1>6, <1>7, <1>8 DEF TypeInv

LEMMA ClaimTypes ==
    ASSUME TypeInv, NEW a \in Albums, NEW r \in Rows, Claim(a, r)
    PROVE  TypeInv' /\ JobsMove /\ worker'.pc = "claimed"
<1>0. TablesOK /\ RestOK /\ AttemptsOK
  BY DEF TypeInv
<1>1. UNCHANGED <<album, reviews, word, policy, paused, breaker, left>>
  BY DEF Claim, workVars
<1>2. PICK row \in JobRows : SetRow(a, r, row) /\ row.state = "running" /\ row.attempts > 0
  <2>0. PICK n \in Nat : n = Row(a, r).attempts + 1 /\ n > 0
    BY <1>0, RowFields
  <2>1. [Row(a, r) EXCEPT !.state = "running", !.attempts = n] \in JobRows
    BY <1>0, RowFields DEF JobRows, JobStates
  <2>2. SetRow(a, r, [Row(a, r) EXCEPT !.state = "running", !.attempts = n])
    BY <2>0 DEF Claim
  <2>3. PICK row : row = [Row(a, r) EXCEPT !.state = "running", !.attempts = n]
    OBVIOUS
  <2>4. row.state = "running" /\ row.attempts = n
    BY <1>0, <2>3, RowFields DEF JobRows
  <2> QED
    BY <2>0, <2>1, <2>2, <2>3, <2>4
<1>3. /\ jobs' \in [Albums -> [Kinds -> [Keys -> JobRows]]]
      /\ Row(a, r)' = row
      /\ \A b \in Albums, q \in Rows : b # a \/ q # r => Row(b, q)' = Row(b, q)
  BY <1>0, <1>2, SetRowEffect
<1>4. AttemptsOK'
  BY <1>0, <1>2, <1>3 DEF AttemptsOK
<1>5. r = <<r[1], r[2]>> /\ r[1] \in Kinds /\ r[2] \in Keys
  BY DEF Rows
<1>6. /\ worker' \in Hands /\ worker'.pc = "claimed" /\ worker'.album = a
      /\ worker'.kind = r[1] /\ worker'.key = r[2]
  BY <1>5, KeysAreKeys, RowsAreTyped DEF Claim, Idle, Hands, Pcs, Kinds, Sources, Results
<1>7. WorkerOK'
  <2>1. A' = a /\ R' = r
    BY <1>5, <1>6 DEF A, R
  <2>2. Mine' = row
    BY <1>3, <2>1 DEF Mine
  <2> QED
    BY <1>2, <1>6, <2>2 DEF WorkerOK
<1>8. TablesOK'
  BY <1>0, <1>1, <1>3 DEF TablesOK
<1>9. RestOK'
  BY <1>0, <1>1, Zenon DEF RestOK
<1>10. JobsMove
  BY <1>1, <1>2, <1>3 DEF JobsMove, Claim, Active
<1> QED
  BY <1>4, <1>6, <1>7, <1>8, <1>9, <1>10 DEF TypeInv

\* The job in hand is given back or moves on.
LEMMA HandBack ==
    ASSUME TypeInv, worker.pc # "idle", NEW row \in JobRows, row.state # "running",
           SetRow(A, R, row), worker' = Idle
    PROVE  /\ jobs' \in [Albums -> [Kinds -> [Keys -> JobRows]]] /\ AttemptsOK' /\ WorkerOK'
           /\ jobs'[A][worker.kind][worker.key] = row
           /\ \A b \in Albums, q \in Rows : b # A \/ q # R => Row(b, q)' = Row(b, q)
           /\ \A b \in Albums \ {A} : jobs'[b] = jobs[b]
<1>0. TablesOK /\ AttemptsOK /\ WorkerOK
  BY DEF TypeInv
<1>1. PICK a \in Albums, r \in Rows : a = A /\ r = R /\ r[1] = worker.kind /\ r[2] = worker.key
  BY <1>0, WorkerHands DEF R
<1>2. SetRow(a, r, row)
  BY <1>1
<1>3. /\ jobs' \in [Albums -> [Kinds -> [Keys -> JobRows]]]
      /\ Row(a, r)' = row
      /\ \A b \in Albums, q \in Rows : b # a \/ q # r => Row(b, q)' = Row(b, q)
      /\ \A b \in Albums \ {a} : jobs'[b] = jobs[b]
  BY <1>0, <1>2, SetRowEffect
<1>4. jobs'[a][r[1]][r[2]] = row
  BY <1>3 DEF Row
<1>5. AttemptsOK'
  BY <1>0, <1>3 DEF AttemptsOK
<1>6. WorkerOK'
  <2>1. worker'.pc = "idle"
    BY DEF Idle
  <2> QED
    BY <2>1 DEF WorkerOK
<1> QED
  BY <1>1, <1>3, <1>4, <1>5, <1>6

\* Steps that touch no table: the worker thinks, or something around it changes.
LEMMA ThinkTypes ==
    ASSUME TypeInv, UNCHANGED <<album, jobs, reviews, word, policy>>,
           paused' \in BOOLEAN, breaker' \in {"closed", "open", "half_open"}, left' \in 0 .. MaxEvents,
           \/ worker' = worker
           \/ worker' = Idle
           \/ /\ worker.pc # "idle" /\ worker' \in Hands /\ worker'.album = worker.album
              /\ worker'.kind = worker.kind /\ worker'.key = worker.key /\ worker'.pc # "idle"
    PROVE  TypeInv' /\ JobsMove
<1>0. TablesOK /\ RestOK /\ AttemptsOK /\ WorkerOK
  BY DEF TypeInv
<1>1. TablesOK'
  BY <1>0 DEF TablesOK
<1>2. RestOK'
  BY <1>0, Zenon DEF RestOK
<1>3. AttemptsOK'
  BY <1>0 DEF AttemptsOK, Row
<1>4. JobsMove
  BY DEF JobsMove, Row
<1>5. WorkerOK'
  <2>1. CASE worker' = worker
    BY <2>1, CarriesOn, SameRowsStay
  <2>2. CASE worker' = Idle
    <3>1. worker'.pc = "idle"
      BY <2>2 DEF Idle
    <3> QED
      BY <2>2, <3>1 DEF WorkerOK
  <2>3. CASE /\ worker.pc # "idle" /\ worker' \in Hands /\ worker'.album = worker.album
             /\ worker'.kind = worker.kind /\ worker'.key = worker.key /\ worker'.pc # "idle"
    <3>1. Mine' = Mine
      BY <2>3 DEF Mine, Row, R, A
    <3>2. Mine.state = "running"
      BY <1>0, <2>3, WorkerHands
    <3> QED
      BY <2>3, <3>1, <3>2 DEF WorkerOK
  <2> QED
    BY <2>1, <2>2, <2>3
<1> QED
  BY <1>1, <1>2, <1>3, <1>4, <1>5 DEF TypeInv

LEMMA ResultsAre ==
    /\ Outcomes \subseteq Results
    /\ {"SUBJECT_NOT_AVAILABLE", "PROVIDER_TEMPORARILY_UNAVAILABLE", "UNEXPECTED_ERROR"} \subseteq Results
    /\ {"embedded", "automatic"} \subseteq Sources
    /\ \A result \in Results : Code(result) \in Codes
  BY DEF Results, Codes, Sources, Code

LEMMA AskedBreaker ==
    ASSUME TypeInv, NEW available \in BOOLEAN, Asked(available)
    PROVE  breaker' \in {"closed", "open", "half_open"}
  BY DEF TypeInv, RestOK, Asked

LEMMA ReadTypes ==
    ASSUME TypeInv, ReadContext
    PROVE  TypeInv' /\ JobsMove
<1>0. TablesOK /\ RestOK /\ WorkerOK /\ worker.pc = "claimed"
  BY DEF TypeInv, ReadContext, At
<1>1. worker \in Hands /\ A \in Albums
  BY <1>0, WorkerHands
<1>2. UNCHANGED <<album, jobs, reviews, word, policy, paused, left>>
  BY DEF ReadContext, workVars
<1>3. PICK a \in Albums : a = A
  BY <1>1
<1>4. Input(a) \in Keys /\ album[a].identity \in Identities
  BY <1>0, InputIsKey, AlbumFields
<1>5. breaker' \in {"closed", "open", "half_open"}
  BY <1>0, AskedBreaker DEF ReadContext, RestOK
<1>6. /\ worker' \in Hands /\ worker'.album = worker.album
      /\ worker'.kind = worker.kind /\ worker'.key = worker.key
      /\ worker'.pc \in {"failing", "deferring", "finishing", "evaluating"}
  <2>1. CASE album[A].where = "retired" /\ Ends("failing", "SUBJECT_NOT_AVAILABLE")
    <3>1. worker' = [worker EXCEPT !.pc = "failing", !.result = "SUBJECT_NOT_AVAILABLE"]
      BY <2>1 DEF Ends
    <3> QED
      BY <1>1, <1>4, <2>1, <3>1, ResultsAre DEF Hands, Pcs
  <2>2. CASE \E code \in {"SUBJECT_NOT_AVAILABLE", "PROVIDER_TEMPORARILY_UNAVAILABLE"} : Defers(code)
    <3>1. PICK code \in Results : worker' = [worker EXCEPT !.pc = "deferring", !.result = code]
      BY <2>2, ResultsAre DEF Ends, Defers
    <3> QED
      BY <1>1, <1>4, <3>1, ResultsAre DEF Hands, Pcs
  <2>3. ASSUME NEW outcome \in Outcomes,
               worker' = [worker EXCEPT !.input = Input(a), !.seen = album[a].identity,
                                        !.pc = "finishing", !.result = outcome, !.source = "embedded"]
        PROVE  /\ worker' \in Hands /\ worker'.album = worker.album
               /\ worker'.kind = worker.kind /\ worker'.key = worker.key
               /\ worker'.pc = "finishing"
    BY <1>1, <1>4, <2>3, ResultsAre DEF Hands, Pcs
  <2>4. CASE worker' = [worker EXCEPT !.input = Input(a), !.seen = album[a].identity, !.pc = "evaluating"]
    <3>1. "evaluating" \in Pcs /\ "none" \in Results /\ "none" \in Sources
      BY DEF Pcs, Results, Sources
    <3> QED
      BY <1>1, <1>4, <2>4, <3>1 DEF Hands
  <2>5. \/ album[A].where = "retired" /\ Ends("failing", "SUBJECT_NOT_AVAILABLE")
        \/ \E code \in {"SUBJECT_NOT_AVAILABLE", "PROVIDER_TEMPORARILY_UNAVAILABLE"} : Defers(code)
        \/ \E outcome \in Outcomes :
              worker' = [[worker EXCEPT !.input = Input(A), !.seen = album[A].identity]
                            EXCEPT !.pc = "finishing", !.result = outcome, !.source = "embedded"]
        \/ worker' = [[worker EXCEPT !.input = Input(A), !.seen = album[A].identity]
                            EXCEPT !.pc = "evaluating"]
    BY DEF ReadContext
  <2> QED
    BY <1>1, <1>3, <2>1, <2>2, <2>3, <2>4, <2>5
<1> QED
  BY <1>0, <1>1, <1>2, <1>5, <1>6, ThinkTypes DEF TypeInv, RestOK, A

LEMMA ThoughtTypes ==
    ASSUME TypeInv, Evaluate \/ FinishStale \/ Fault
    PROVE  TypeInv' /\ JobsMove
<1>0. RestOK /\ WorkerOK /\ worker.pc # "idle"
  BY DEF TypeInv, Evaluate, FinishStale, Fault, At
<1>1. worker \in Hands
  BY <1>0, WorkerHands
<1>2. UNCHANGED <<album, jobs, reviews, word, policy, paused, breaker>>
  BY DEF Evaluate, FinishStale, Fault, workVars
<1>3. left' \in 0 .. MaxEvents
  <2>1. Happens \/ left' = left
    BY DEF Evaluate, FinishStale, Fault
  <2> QED
    BY <2>1, EventsLeft
<1>4. \/ worker' = Idle
      \/ worker' = [worker EXCEPT !.pc = "halting"]
      \/ \E result \in Results : worker' = [worker EXCEPT !.pc = "deferring", !.result = result]
      \/ \E result \in Results, source \in Sources :
            worker' = [worker EXCEPT !.pc = "finishing", !.result = result, !.source = source]
  BY ResultsAre DEF Evaluate, FinishStale, Fault, Defers, Ends, Goes
<1>5. \/ worker' = Idle
      \/ /\ worker' \in Hands /\ worker'.album = worker.album
         /\ worker'.kind = worker.kind /\ worker'.key = worker.key
         /\ worker'.pc \in {"halting", "deferring", "finishing"}
  <2>0. {"halting", "deferring", "finishing"} \subseteq Pcs /\ "none" \in Results /\ "none" \in Sources
        /\ worker.input \in Keys /\ worker.seen \in Identities
    BY <1>1 DEF Pcs, Results, Sources, Hands
  <2>1. CASE worker' = [worker EXCEPT !.pc = "halting"]
    BY <1>1, <2>0, <2>1 DEF Hands
  <2>2. ASSUME NEW result \in Results, worker' = [worker EXCEPT !.pc = "deferring", !.result = result]
        PROVE  /\ worker' \in Hands /\ worker'.album = worker.album
               /\ worker'.kind = worker.kind /\ worker'.key = worker.key /\ worker'.pc = "deferring"
    BY <1>1, <2>0, <2>2 DEF Hands
  <2>3. ASSUME NEW result \in Results, NEW source \in Sources,
               worker' = [worker EXCEPT !.pc = "finishing", !.result = result, !.source = source]
        PROVE  /\ worker' \in Hands /\ worker'.album = worker.album
               /\ worker'.kind = worker.kind /\ worker'.key = worker.key /\ worker'.pc = "finishing"
    BY <1>1, <2>0, <2>3 DEF Hands
  <2> QED
    BY <1>4, <2>1, <2>2, <2>3
<1>6. Idle.pc = "idle"
  BY DEF Idle
<1> QED
  BY <1>0, <1>1, <1>2, <1>3, <1>5, <1>6, ThinkTypes DEF RestOK

LEMMA AroundTypes ==
    ASSUME TypeInv, PauseQueue \/ ResumeQueue \/ Trip \/ Close \/ Restart
    PROVE  TypeInv' /\ JobsMove /\ (worker' = worker \/ worker' = Idle)
<1>0. RestOK
  BY DEF TypeInv
<1>1. UNCHANGED <<album, jobs, reviews, word, policy>> /\ (worker' = worker \/ worker' = Idle)
  BY DEF PauseQueue, ResumeQueue, Trip, Close, Restart, workVars
<1>2. left' \in 0 .. MaxEvents
  BY EventsLeft DEF PauseQueue, ResumeQueue, Trip, Close, Restart
<1>3. paused' \in BOOLEAN
  <2>1. paused' = TRUE \/ paused' = FALSE \/ paused' = paused
    BY DEF PauseQueue, ResumeQueue, Trip, Close, Restart, workVars
  <2> QED
    BY <1>0, <2>1, Zenon DEF RestOK
<1>4. breaker' \in {"closed", "open", "half_open"}
  BY <1>0 DEF PauseQueue, ResumeQueue, Trip, Close, Restart, RestOK
<1> QED
  BY <1>1, <1>2, <1>3, <1>4, ThinkTypes

LEMMA HaltTypes ==
    ASSUME TypeInv, Halt
    PROVE  TypeInv' /\ JobsMove
<1>0. TablesOK /\ RestOK /\ WorkerOK /\ AttemptsOK /\ worker.pc = "halting"
  BY DEF TypeInv, Halt, At
<1>1. worker \in Hands /\ A \in Albums /\ R \in Rows /\ Mine.state = "running" /\ Mine = Row(A, R)
  BY <1>0, WorkerHands DEF Mine
<1>2. UNCHANGED <<album, reviews, word, policy, paused, breaker, left>>
  BY DEF Halt, workVars
<1>3. CASE UNCHANGED jobs
  <2>1. \/ worker' = [worker EXCEPT !.pc = "deferring", !.result = "UNEXPECTED_ERROR"]
        \/ worker' = Idle
    BY DEF Halt, Defers, Ends, Goes
  <2>2. \/ worker' = Idle
        \/ /\ worker' \in Hands /\ worker'.album = worker.album
           /\ worker'.kind = worker.kind /\ worker'.key = worker.key
           /\ worker'.pc = "deferring"
    BY <1>1, <2>1, ResultsAre DEF Hands, Pcs
  <2>3. Idle.pc = "idle"
    BY DEF Idle
  <2> QED
    BY <1>0, <1>2, <1>3, <2>2, <2>3, ThinkTypes DEF RestOK
<1>4. CASE ~UNCHANGED jobs
  <2>1. SetRow(A, R, [Mine EXCEPT !.state = "queued", !.attempts = Mine.attempts - 1]) /\ worker' = Idle
    BY <1>4 DEF Halt, Goes
  <2>2. Mine.attempts \in Nat /\ Mine.attempts > 0 /\ Mine \in JobRows
    <3>1. PICK a \in Albums, r \in Rows : a = A /\ r = R
      BY <1>1
    <3>2. Row(a, r).attempts \in Nat /\ Row(a, r) \in JobRows
      BY <1>0, RowFields
    <3> QED
      BY <1>0, <1>1, <3>1, <3>2 DEF AttemptsOK
  <2>3. PICK n \in Nat : n = Mine.attempts - 1
    BY <2>2
  <2>4. PICK row : row = [Mine EXCEPT !.state = "queued", !.attempts = n]
    OBVIOUS
  <2>5. row \in JobRows /\ row.state = "queued"
    BY <2>2, <2>3, <2>4 DEF JobRows, JobStates
  <2>6. SetRow(A, R, row)
    BY <2>1, <2>3, <2>4
  <2>7. /\ jobs' \in [Albums -> [Kinds -> [Keys -> JobRows]]] /\ AttemptsOK' /\ WorkerOK'
        /\ jobs'[A][worker.kind][worker.key] = row
        /\ \A b \in Albums, q \in Rows : b # A \/ q # R => Row(b, q)' = Row(b, q)
    BY <1>0, <2>1, <2>5, <2>6, HandBack
  <2>8. JobsMove
    <3>1. ASSUME NEW b \in Albums, NEW q \in Rows
          PROVE  Row(b, q)' = Row(b, q) \/ (Row(b, q).state \in Active /\ Row(b, q)'.state \in Active)
      <4>1. CASE b = A /\ q = R
        BY <1>1, <2>5, <2>7, <4>1 DEF Row, R, Active
      <4> QED
        BY <2>7, <4>1
    <3> QED
      BY <1>2, <3>1 DEF JobsMove
  <2>9. TablesOK'
    BY <1>0, <1>2, <2>7 DEF TablesOK
  <2>10. RestOK'
    BY <1>0, <1>2, Zenon DEF RestOK
  <2> QED
    BY <2>7, <2>8, <2>9, <2>10 DEF TypeInv
<1> QED
  BY <1>3, <1>4

LEMMA PutOffTypes ==
    ASSUME TypeInv, Defer, ~Exhausted(Mine)
    PROVE  TypeInv' /\ JobsMove
<1>0. TablesOK /\ RestOK /\ WorkerOK /\ AttemptsOK /\ worker.pc = "deferring"
  BY DEF TypeInv, Defer, At
<1>1. worker \in Hands /\ A \in Albums /\ R \in Rows /\ Mine.state = "running" /\ Mine = Row(A, R)
  BY <1>0, WorkerHands DEF Mine
<1>2. UNCHANGED <<album, reviews, word, policy, paused, breaker, left>>
  BY DEF Defer, workVars
<1>3. PICK code \in Codes : code = Code(worker.result)
  BY ResultsAre, <1>1 DEF Hands
<1>4. SetRow(A, R, [Mine EXCEPT !.state = "queued", !.due = FALSE, !.failure = code]) /\ worker' = Idle
  BY <1>3 DEF Defer, Goes
<1>5. Mine \in JobRows
  <2>1. PICK a \in Albums, r \in Rows : a = A /\ r = R
    BY <1>1
  <2> QED
    BY <1>0, <1>1, <2>1, RowFields
<1>6. PICK row : row = [Mine EXCEPT !.state = "queued", !.due = FALSE, !.failure = code]
  OBVIOUS
<1>7. row \in JobRows /\ row.state = "queued"
  BY <1>5, <1>6 DEF JobRows, JobStates
<1>8. SetRow(A, R, row)
  BY <1>4, <1>6
<1>9. /\ jobs' \in [Albums -> [Kinds -> [Keys -> JobRows]]] /\ AttemptsOK' /\ WorkerOK'
      /\ jobs'[A][worker.kind][worker.key] = row
      /\ \A b \in Albums, q \in Rows : b # A \/ q # R => Row(b, q)' = Row(b, q)
  BY <1>0, <1>4, <1>7, <1>8, HandBack
<1>10. JobsMove
  <2>1. ASSUME NEW b \in Albums, NEW q \in Rows
        PROVE  Row(b, q)' = Row(b, q) \/ (Row(b, q).state \in Active /\ Row(b, q)'.state \in Active)
    <3>1. CASE b = A /\ q = R
      BY <1>1, <1>7, <1>9, <3>1 DEF Row, R, Active
    <3> QED
      BY <1>9, <3>1
  <2> QED
    BY <1>2, <2>1 DEF JobsMove
<1>11. TablesOK'
  BY <1>0, <1>2, <1>9 DEF TablesOK
<1>12. RestOK'
  BY <1>0, <1>2, Zenon DEF RestOK
<1> QED
  BY <1>9, <1>10, <1>11, <1>12 DEF TypeInv

LEMMA SweepTypes ==
    ASSUME TypeInv, Sweep
    PROVE  TypeInv' /\ JobsMove /\ worker' = worker
<1>0. TablesOK /\ RestOK /\ WorkerOK /\ AttemptsOK /\ worker.pc = "idle"
  BY DEF TypeInv, Sweep, At
<1>2. UNCHANGED <<album, reviews, word, policy, paused, breaker, left, worker>>
  BY DEF Sweep, workVars
<1>3. jobs' = [a \in Albums |-> [kind \in Kinds |-> [key \in Keys |->
                  IF Deferred(jobs[a][kind][key]) THEN NewJob ELSE jobs[a][kind][key]]]]
  BY DEF Sweep
<1>4. jobs' \in [Albums -> [Kinds -> [Keys -> JobRows]]]
  <2>1. \A a \in Albums, kind \in Kinds, key \in Keys : jobs[a][kind][key] \in JobRows
    BY <1>0 DEF TablesOK
  <2> QED
    BY <1>3, <2>1, RowsAreTyped
<1>5. \A a \in Albums, kind \in Kinds, key \in Keys :
         \/ jobs'[a][kind][key] = jobs[a][kind][key]
         \/ jobs[a][kind][key].state = "queued" /\ jobs'[a][kind][key].state = "queued"
  BY <1>3, RowsAreTyped DEF Deferred
<1>6. \A a \in Albums, r \in Rows :
         \/ Row(a, r)' = Row(a, r)
         \/ Row(a, r).state = "queued" /\ Row(a, r)'.state = "queued"
  BY <1>5 DEF Row, Rows
<1>7. RunsStay
  BY <1>6 DEF RunsStay
<1>8. JobsMove
  BY <1>2, <1>6 DEF JobsMove, Active
<1>9. TablesOK'
  BY <1>0, <1>2, <1>4 DEF TablesOK
<1>10. RestOK'
  BY <1>0, <1>2, Zenon DEF RestOK
<1> QED
  BY <1>2, <1>7, <1>8, <1>9, <1>10, CarriesOn DEF TypeInv

\* The job in hand is over: its row ends, the others are left alone.
JobEnds(a) ==
    /\ jobs'[a][worker.kind][worker.key].state \in {"failed", "ended"}
    /\ \A q \in Rows : q # R => Row(a, q)' = Row(a, q)
    /\ worker'.pc = "idle" /\ UNCHANGED <<policy, word>>

\* A failed job leaves a review of its key, or the one that is open.
LEMMA FailTypes ==
    ASSUME TypeInv, NEW a \in Albums, a = A, NEW cause, worker.pc # "idle", FailJob(cause),
           worker' = Idle, UNCHANGED <<album, word, policy, paused, breaker, left>>
    PROVE  /\ TypeInv' /\ Elsewhere(a) /\ JobEnds(a)
           /\ \A k \in Keys \ {worker.key} : reviews'[a][k] = reviews[a][k]
           /\ \/ worker.key \in Unresolved(a) /\ UNCHANGED reviews
              \/ /\ worker.key \notin Unresolved(a)
                 /\ reviews'[a][worker.key] =
                       [state |-> "needs_review", attempted |-> FALSE, seen |-> NoIdentity,
                        about |-> IF worker.key[1] = 0 THEN Input(a) ELSE worker.key]
<1>0. TablesOK /\ RestOK /\ WorkerOK /\ AttemptsOK
  BY DEF TypeInv
<1>1. worker \in Hands /\ A \in Albums /\ R \in Rows /\ worker.key \in Keys
  BY <1>0, WorkerHands
<1>2. PICK key \in Keys : key = worker.key
  BY <1>1
<1>3. PICK row : row = Failed(cause)
  OBVIOUS
<1>4. row \in JobRows /\ row.state \in {"failed", "ended"} /\ SetRow(A, R, row)
  BY <1>3, RowsAreTyped DEF FailJob, Failed, JobStates
<1>5. /\ jobs' \in [Albums -> [Kinds -> [Keys -> JobRows]]] /\ AttemptsOK' /\ WorkerOK'
      /\ jobs'[A][worker.kind][worker.key] = row
      /\ \A b \in Albums, q \in Rows : b # A \/ q # R => Row(b, q)' = Row(b, q)
      /\ \A b \in Albums \ {A} : jobs'[b] = jobs[b]
  BY <1>0, <1>4, HandBack
<1>6. PICK about \in Keys : about = IF key[1] = 0 THEN Input(a) ELSE key
  BY <1>0, InputIsKey
<1>7. PICK review : review = [state |-> "needs_review", attempted |-> FALSE, seen |-> NoIdentity, about |-> about]
  OBVIOUS
<1>8. review \in Reviews
  BY <1>7, RowsAreTyped DEF Reviews
<1>9. \/ key \in Unresolved(a) /\ UNCHANGED reviews
      \/ key \notin Unresolved(a) /\ reviews' = [reviews EXCEPT ![a][key] = review]
  <2>1. CASE key \in Unresolved(a)
    BY <1>2, <2>1 DEF FailJob
  <2>2. CASE key \notin Unresolved(a)
    <3>1. reviews' = [reviews EXCEPT ![a][key] = Reviewed(reviews[a][key], about, NoIdentity, FALSE)]
      BY <1>2, <1>6, <2>2 DEF FailJob
    <3>2. reviews[a][key].state = "resolved"
      BY <2>2 DEF Unresolved
    <3>3. Reviewed(reviews[a][key], about, NoIdentity, FALSE) = review
      BY <1>7, <3>2 DEF Reviewed
    <3> QED
      BY <2>2, <3>1, <3>3
  <2> QED
    BY <2>1, <2>2
<1>10. /\ reviews' \in [Albums -> [Keys -> Reviews]]
       /\ \A k \in Keys \ {key} : reviews'[a][k] = reviews[a][k]
       /\ \A b \in Albums \ {a} : reviews'[b] = reviews[b]
       /\ key \notin Unresolved(a) => reviews'[a][key] = review
  <2>1. CASE UNCHANGED reviews
    BY <1>0, <1>9, <2>1, NewReview, <1>8 DEF TablesOK
  <2>2. CASE reviews' = [reviews EXCEPT ![a][key] = review]
    BY <1>0, <1>8, <2>2, NewReview
  <2> QED
    BY <1>9, <2>1, <2>2
<1>11. TablesOK' /\ Elsewhere(a)
  BY <1>0, <1>2, <1>5, <1>10 DEF TablesOK, Elsewhere
<1>12. RestOK'
  BY <1>0, Zenon DEF RestOK
<1>13. JobEnds(a)
  <2>1. \A q \in Rows : q # R => Row(a, q)' = Row(a, q)
    BY <1>5
  <2> QED
    BY <1>4, <1>5, <2>1 DEF JobEnds, Idle
<1>14. TypeInv'
  BY <1>5, <1>11, <1>12 DEF TypeInv
<1> QED
  BY <1>2, <1>6, <1>7, <1>9, <1>10, <1>11, <1>13, <1>14

\* A finished job leaves an identity for the present input, or a review of it.
LEMMA FinishTypes ==
    ASSUME TypeInv, NEW a \in Albums, a = A, Finish
    PROVE  /\ TypeInv' /\ Elsewhere(a) /\ JobEnds(a) /\ worker.pc # "idle"
           /\ Indexed(a) /\ Input(a) = worker.input
           /\ \E identity : /\ album'[a] = [album[a] EXCEPT !.identity = identity]
                            /\ \/ identity = album[a].identity
                               \/ /\ identity = NoIdentity
                                  /\ album[a].identity.source = "automatic" /\ worker.result # "identified"
                               \/ /\ identity.of = Input(a) /\ album[a].identity.source # "manual"
           /\ \/ /\ worker.result = "identified" /\ reviews'[a] = Settled(a)
                 /\ album'[a].identity.source = "manual" \/ album'[a].identity.of = Input(a)
                 /\ worker.source # "none" => album'[a].identity.source # "none"
              \/ /\ worker.result # "identified"
                 /\ \A k \in Keys \ {worker.key} : reviews'[a][k] = reviews[a][k]
                 /\ reviews'[a][worker.key] = Reviewed(reviews[a][worker.key], Input(a), worker.seen, TRUE)
<1>0. TablesOK /\ RestOK /\ WorkerOK /\ AttemptsOK /\ worker.pc = "finishing"
  BY DEF TypeInv, Finish, At
<1>1. worker \in Hands /\ R \in Rows /\ worker.key \in Keys /\ worker.source \in Sources
      /\ worker.seen \in Identities
  BY <1>0, WorkerHands DEF Hands
<1>2. Indexed(a) /\ Input(a) = worker.input
  BY DEF Finish, Stale
<1>3. PICK key \in Keys : key = worker.key
  BY <1>1
<1>4. UNCHANGED <<policy, paused, breaker, left, word>> /\ worker' = Idle
  BY DEF Finish, workVars, Goes
<1>5. PICK row : row = Ended("ended")
  OBVIOUS
<1>6. row \in JobRows /\ row.state = "ended" /\ SetRow(A, R, row)
  BY <1>5, RowsAreTyped DEF JobStates, Finish
<1>7. /\ jobs' \in [Albums -> [Kinds -> [Keys -> JobRows]]] /\ AttemptsOK' /\ WorkerOK'
      /\ jobs'[A][worker.kind][worker.key] = row
      /\ \A b \in Albums, q \in Rows : b # A \/ q # R => Row(b, q)' = Row(b, q)
      /\ \A b \in Albums \ {A} : jobs'[b] = jobs[b]
  BY <1>0, <1>4, <1>6, HandBack
<1>8. JobEnds(a)
  <2>1. \A q \in Rows : q # R => Row(a, q)' = Row(a, q)
    BY <1>7
  <2> QED
    BY <1>4, <1>6, <1>7, <2>1 DEF JobEnds, Idle
<1> DEFINE found == [source |-> worker.source, of |-> worker.input]
           identified == worker.result = "identified"
           dropped == worker.result = "contradictory" /\ album[a].identity.source = "automatic"
<1>9. PICK identity \in Identities :
         /\ identity = IF identified /\ album[a].identity.source # "manual" THEN found
                       ELSE IF dropped THEN NoIdentity ELSE album[a].identity
  <2>1. found \in Identities
    BY <1>0, <1>1, <1>2, InputIsKey DEF Identities
  <2>2. album[a].identity \in Identities
    BY <1>0, AlbumFields
  <2> QED
    BY <2>1, <2>2, RowsAreTyped
<1>10. album' = [album EXCEPT ![a] = [album[a] EXCEPT !.identity = identity]]
  <2>0. album \in [Albums -> AlbumRows] /\ album[a] \in AlbumRows
    BY <1>0 DEF TablesOK
  <2>1. CASE identified /\ album[a].identity.source # "manual"
    <3>1. album' = [album EXCEPT ![a].identity = found]
      BY <2>1 DEF Finish
    <3> QED
      BY <1>9, <2>1, <3>1
  <2>2. CASE ~(identified /\ album[a].identity.source # "manual") /\ dropped
    <3>1. album' = [album EXCEPT ![a].identity = NoIdentity]
      BY <2>2 DEF Finish
    <3> QED
      BY <1>9, <2>2, <3>1
  <2>3. CASE ~(identified /\ album[a].identity.source # "manual") /\ ~dropped
    <3>1. album' = album
      BY <2>3 DEF Finish
    <3>2. [album[a] EXCEPT !.identity = album[a].identity] = album[a]
      BY <2>0 DEF AlbumRows
    <3>3. identity = album[a].identity
      BY <1>9, <2>3
    <3> QED
      BY <2>0, <3>1, <3>2, <3>3
  <2> QED
    BY <2>1, <2>2, <2>3
<1>11. /\ album' \in [Albums -> AlbumRows] /\ album'[a] = [album[a] EXCEPT !.identity = identity]
       /\ album'[a].identity = identity
       /\ \A b \in Albums \ {a} : album'[b] = album[b]
  <2>1. [album[a] EXCEPT !.identity = identity] \in AlbumRows
        /\ [album[a] EXCEPT !.identity = identity].identity = identity
    BY <1>0, <1>9, AlbumFields DEF AlbumRows
  <2> QED
    BY <1>0, <1>10, <2>1, NewAlbum
<1>12. PICK review : review = Reviewed(reviews[a][key], worker.input, worker.seen, TRUE)
  OBVIOUS
<1>13. review \in Reviews
  <2>1. worker.input \in Keys
    BY <1>0, <1>2, InputIsKey
  <2> QED
    BY <1>0, <1>1, <1>12, <2>1, ReviewFields DEF Reviewed, Reviews
<1>14. reviews' = IF identified THEN [reviews EXCEPT ![a] = Settled(a)]
                  ELSE [reviews EXCEPT ![a][key] = review]
  BY <1>3, <1>12 DEF Finish
<1>15. /\ reviews' \in [Albums -> [Keys -> Reviews]]
       /\ \A b \in Albums \ {a} : reviews'[b] = reviews[b]
       /\ identified => reviews'[a] = Settled(a)
       /\ ~identified => reviews'[a][key] = review /\ \A k \in Keys \ {key} : reviews'[a][k] = reviews[a][k]
  <2>1. CASE identified
    BY <1>0, <1>14, <2>1, SettledReviews DEF TablesOK
  <2>2. CASE ~identified
    BY <1>0, <1>13, <1>14, <2>2, NewReview
  <2> QED
    BY <2>1, <2>2
<1>16. TablesOK' /\ Elsewhere(a)
  BY <1>0, <1>4, <1>7, <1>11, <1>15 DEF TablesOK, Elsewhere
<1>17. RestOK'
  BY <1>0, <1>4, Zenon DEF RestOK
<1>18. TypeInv'
  BY <1>7, <1>16, <1>17 DEF TypeInv
<1>19. \/ identity = album[a].identity
       \/ identity = NoIdentity /\ album[a].identity.source = "automatic" /\ worker.result # "identified"
       \/ identity.of = Input(a) /\ album[a].identity.source # "manual"
  BY <1>2, <1>9
<1>20. ASSUME identified
       PROVE  /\ identity.source = "manual" \/ identity.of = Input(a)
              /\ worker.source # "none" => identity.source # "none"
  BY <1>2, <1>9, <1>20
<1> QED
  BY <1>0, <1>2, <1>3, <1>8, <1>11, <1>12, <1>15, <1>16, <1>18, <1>19, <1>20

-----------------------------------------------------------------------------
(* The steps by what they do, and type correctness *)

\* The job in hand fails for good.
FailsForGood ==
    /\ worker.pc \in {"failing", "deferring"} /\ worker' = Idle
    /\ \E cause : FailJob(cause)
    /\ UNCHANGED <<album, word, policy, paused, breaker, left>>

\* What the worker found keeps its source.
LEMMA SourceStays ==
    ASSUME OutcomeHasSource, worker' = worker \/ worker' = Idle
    PROVE  OutcomeHasSource'
  BY DEF OutcomeHasSource, Idle

LEMMA SourceIsNamed ==
    ASSUME TypeInv, OutcomeHasSource, ReadContext \/ Evaluate \/ FinishStale \/ Fault
    PROVE  OutcomeHasSource'
<1>0. WorkerOK /\ worker.pc # "idle"
  BY DEF TypeInv, ReadContext, Evaluate, FinishStale, Fault, At
<1>1. worker \in Hands
  BY <1>0, WorkerHands
<1>2. CASE ReadContext
  <2>3. worker'.pc = "finishing" => worker'.source # "none"
    <3>1. CASE worker'.pc = "finishing"
      <4>1. \/ worker' = [worker EXCEPT !.pc = "failing", !.result = "SUBJECT_NOT_AVAILABLE"]
            \/ \E code : worker' = [worker EXCEPT !.pc = "deferring", !.result = code]
            \/ \E outcome : worker' = [[worker EXCEPT !.input = Input(A), !.seen = album[A].identity]
                                EXCEPT !.pc = "finishing", !.result = outcome, !.source = "embedded"]
            \/ worker' = [[worker EXCEPT !.input = Input(A), !.seen = album[A].identity]
                                EXCEPT !.pc = "evaluating"]
        BY <1>2 DEF ReadContext, Ends, Defers
      <4> QED
        BY <1>1, <3>1, <4>1 DEF Hands
    <3> QED
      BY <3>1
  <2> QED
    BY <2>3 DEF OutcomeHasSource
<1>3. CASE Evaluate \/ FinishStale \/ Fault
  <2>2. \/ worker' = Idle
        \/ worker' = [worker EXCEPT !.pc = "halting"]
        \/ \E result : worker' = [worker EXCEPT !.pc = "deferring", !.result = result]
        \/ \E result : worker' = [worker EXCEPT !.pc = "finishing", !.result = result, !.source = "automatic"]
    <3>1. CASE Evaluate
      BY <3>1 DEF Evaluate, Defers, Ends, Goes
    <3>2. CASE FinishStale \/ Fault
      BY <3>2 DEF FinishStale, Fault, Defers, Ends, Goes
    <3> QED
      BY <1>3, <3>1, <3>2
  <2>3. worker'.pc = "finishing" => worker'.source # "none"
    <3>1. CASE worker' = Idle
      BY <3>1 DEF Idle
    <3>2. CASE worker' # Idle
      BY <1>1, <2>2, <3>2 DEF Hands
    <3> QED
      BY <3>1, <3>2
  <2> QED
    BY <2>3 DEF OutcomeHasSource
<1> QED
  BY <1>2, <1>3

\* Next, by what its steps do to albums, rows and reviews; most move jobs and nothing else.
LEMMA StepKinds ==
    ASSUME TypeInv, Next
    PROVE  \/ \E a \in Albums : Change(a) \/ Regroup(a) \/ Retire(a)
           \/ \E a \in Albums : Enqueue(a) \/ Reconsider(a) \/ Repair(a)
           \/ \E a \in Albums : ApplyPolicy(a) \/ Return(a)
           \/ \E a \in Albums : Vanish(a)
           \/ \E a \in Albums, key \in Keys : UserStep(a, key)
           \/ \E p \in Policies : SetPolicy(p)
           \/ JobsMove /\ TypeInv' /\ (OutcomeHasSource => OutcomeHasSource')
           \/ Finish
           \/ FailsForGood
<1>1. ASSUME NEW a \in Albums, NEW r \in Rows, Claim(a, r)
      PROVE  JobsMove /\ TypeInv' /\ (OutcomeHasSource => OutcomeHasSource')
  <2>1. JobsMove /\ TypeInv' /\ worker'.pc = "claimed"
    BY <1>1, ClaimTypes
  <2> QED
    BY <2>1 DEF OutcomeHasSource
<1>2. ASSUME NEW a \in Albums, NEW r \in Rows, Recover(a, r) \/ CollectStale(a, r) \/ Elapse(a, r)
      PROVE  JobsMove /\ TypeInv' /\ (OutcomeHasSource => OutcomeHasSource')
  <2>1. JobsMove /\ TypeInv' /\ worker' = worker
    BY <1>2, LooseJobTypes
  <2> QED
    BY <2>1, SourceStays DEF JobsMove
<1>3. ASSUME PauseQueue \/ ResumeQueue \/ Trip \/ Close \/ Restart
      PROVE  JobsMove /\ TypeInv' /\ (OutcomeHasSource => OutcomeHasSource')
  <2>1. JobsMove /\ TypeInv' /\ (worker' = worker \/ worker' = Idle)
    BY <1>3, AroundTypes
  <2> QED
    BY <2>1, SourceStays DEF JobsMove
<1>4. ASSUME ReadContext \/ Evaluate \/ FinishStale \/ Fault
      PROVE  JobsMove /\ TypeInv' /\ (OutcomeHasSource => OutcomeHasSource')
  BY <1>4, ReadTypes, ThoughtTypes, SourceIsNamed
<1>5. ASSUME Halt \/ (Defer /\ ~Exhausted(Mine))
      PROVE  JobsMove /\ TypeInv' /\ (OutcomeHasSource => OutcomeHasSource')
  <2>1. JobsMove /\ TypeInv'
    BY <1>5, HaltTypes, PutOffTypes
  <2>2. worker'.pc # "finishing"
    <3>1. worker \in Hands
      BY <1>5, WorkerHands DEF TypeInv, Halt, Defer, At
    <3>2. worker' = Idle \/ worker' = [worker EXCEPT !.pc = "deferring", !.result = "UNEXPECTED_ERROR"]
      <4>1. CASE Halt
        BY <4>1 DEF Halt, Goes, Defers, Ends
      <4>2. CASE Defer
        BY <4>2 DEF Defer, Goes
      <4> QED
        BY <1>5, <4>1, <4>2
    <3>3. CASE worker' = Idle
      BY <3>3 DEF Idle
    <3>4. CASE worker' # Idle
      BY <3>1, <3>2, <3>4 DEF Hands
    <3> QED
      BY <3>3, <3>4
  <2> QED
    BY <2>1, <2>2 DEF OutcomeHasSource
<1>6. ASSUME Sweep
      PROVE  JobsMove /\ TypeInv' /\ (OutcomeHasSource => OutcomeHasSource')
  <2>1. JobsMove /\ TypeInv' /\ worker' = worker
    BY <1>6, SweepTypes
  <2> QED
    BY <2>1, SourceStays DEF JobsMove
<1>7. ASSUME Fail \/ (Defer /\ Exhausted(Mine))
      PROVE  FailsForGood
  BY <1>7 DEF Fail, Defer, FailsForGood, Goes, At, workVars
<1> QED
  BY <1>1, <1>2, <1>3, <1>4, <1>5, <1>6, <1>7
     DEF Next, ScanStep, WorkerStep, RunStep, JobStep

LEMMA TypeStep == TypeInv /\ [Next]_vars => TypeInv'
<1> SUFFICES ASSUME TypeInv, [Next]_vars PROVE TypeInv'
  OBVIOUS
<1>1. CASE UNCHANGED vars
  BY <1>1 DEF vars, TypeInv, TablesOK, AttemptsOK, WorkerOK, RestOK, Row, Mine, A, R
<1>2. ASSUME FailsForGood
      PROVE  TypeInv'
  <2>1. PICK cause : FailJob(cause)
    BY <1>2 DEF FailsForGood
  <2>2. worker.pc # "idle"
    BY <1>2 DEF FailsForGood
  <2>3. PICK a \in Albums : a = A
    BY <2>2, WorkerHands DEF TypeInv
  <2> QED
    BY <1>2, <2>1, <2>2, <2>3, FailTypes DEF FailsForGood
<1>3. ASSUME Finish
      PROVE  TypeInv'
  <2>1. PICK a \in Albums : a = A
    BY <1>3, WorkerHands DEF TypeInv, Finish, At
  <2> QED
    BY <1>3, <2>1, FinishTypes
<1>4. CASE Next
  BY <1>2, <1>3, <1>4, StepKinds, ScanTypes, QueueTypes, ReconcileTypes, VanishTypes, DecisionTypes, PolicyTypes
<1> QED
  BY <1>1, <1>4

\* The rows of the queue, the reviews and the worker keep their types, and what the worker
\* has in hand is running: no scan, decision, sweep or recovery takes it from the worker.
THEOREM QueueTypeCorrect == Spec => []TypeOK
<1>1. Init => TypeInv
  BY InitTypes
<1>2. TypeInv /\ [Next]_vars => TypeInv'
  BY TypeStep
<1> QED
  BY <1>1, <1>2, TypeInvImpliesTypeOK, PTL DEF Spec

-----------------------------------------------------------------------------
(* What was, is below what is; and decisions *)

\* Below orders the keys.
LEMMA BelowSelf == ASSUME NEW k \in Keys PROVE Below(k, k)
  BY KeyParts DEF Below

LEMMA BelowBelow ==
    ASSUME NEW k \in Keys, NEW l \in Keys, NEW m \in Keys, Below(k, l), Below(l, m)
    PROVE  Below(k, m)
  BY KeyParts DEF Below

LEMMA NothingBelow ==
    ASSUME TablesOK, NEW a \in Albums
    PROVE  /\ Below(Nothing, Input(a)) /\ NoIdentity.of = Nothing /\ NoIdentity.source = "none"
           /\ \A p \in Policies : PolicyKey(p) # Input(a)
<1>1. album[a].policy \in 1 .. Len(Effective)
  BY AlbumFields, IdentificationAssumption DEF Policies
<1> QED
  BY <1>1, InputIsKey, IdentificationAssumption DEF Below, Nothing, PolicyKey, NoIdentity

\* What was below the input stays below it when the input moves on.
LEMMA PastGrows ==
    ASSUME TypeInv, TypeInv', NEW a \in Albums, Past(a),
           Below(Input(a), Input(a)'), album'[a].policy <= policy',
           \A r \in Rows : Row(a, r)'.state # "absent" =>
              Row(a, r).state # "absent" \/ Below(r[2], Input(a)'),
           \A key \in Unresolved(a)' :
              \/ key \in Unresolved(a) /\ reviews'[a][key].about = reviews[a][key].about
              \/ Below(key, reviews'[a][key].about) /\ Below(reviews'[a][key].about, Input(a)'),
           album'[a].identity.of = album[a].identity.of \/ Below(album'[a].identity.of, Input(a)'),
           word'[a].about = word[a].about \/ Below(word'[a].about, Input(a)')
    PROVE  Past(a)'
<1>1. PICK i \in Keys : i = Input(a)
  BY InputIsKey DEF TypeInv
<1>2. PICK j \in Keys : j = Input(a)'
  BY InputIsKey DEF TypeInv, TablesOK, AlbumRows, Input, Keys
<1>3. \A k \in Keys : Below(k, i) => Below(k, j)
  BY <1>1, <1>2, BelowBelow
<1>4. \A r \in Rows : Row(a, r)'.state # "absent" => Below(r[2], j)
  BY <1>1, <1>2, <1>3 DEF Past, Rows
<1>5. \A key \in Unresolved(a)' :
         Below(key, reviews'[a][key].about) /\ Below(reviews'[a][key].about, j)
  <2> TAKE key \in Unresolved(a)'
  <2>1. key \in Keys
    BY DEF Unresolved
  <2>2. reviews[a][key].about \in Keys
    BY <2>1, ReviewFields DEF TypeInv
  <2> QED
    BY <1>1, <1>2, <1>3, <2>1, <2>2 DEF Past
<1>6. Below(album'[a].identity.of, j)
  BY <1>1, <1>2, <1>3, AlbumFields DEF Past, TypeInv
<1>7. word[a].about \in Keys
  BY DEF TypeInv, TablesOK
<1>8. Below(word'[a].about, j)
  BY <1>1, <1>2, <1>3, <1>7 DEF Past
<1> QED
  BY <1>2, <1>4, <1>5, <1>6, <1>8 DEF Past

\* The input stays what it is.
LEMMA OneDecisionStays ==
    ASSUME NEW a \in Albums, OneDecision(a), Input(a)' = Input(a), Input(a) \in Keys,
           \A k \in Keys : k \in Decided(a)' => k \in Decided(a),
           \/ Decided(a)' = {}
           \/ \A kind \in Kinds : jobs[a][kind][Input(a)].state = "absent"
                                     => jobs'[a][kind][Input(a)].state = "absent",
           \/ Decided(a)' = {}
           \/ reviews[a][Input(a)].state = "resolved" => reviews'[a][Input(a)].state = "resolved"
    PROVE  OneDecision(a)'
<1>1. PICK i \in Keys : i = Input(a) /\ i = Input(a)'
  OBVIOUS
<1> SUFFICES ASSUME NEW k \in Keys, k \in Decided(a)'
             PROVE  /\ Decided(a)' = {k}
                    /\ k # i => /\ \A kind \in Kinds : jobs'[a][kind][i].state = "absent"
                                /\ reviews'[a][i].state = "resolved"
  BY <1>1 DEF OneDecision, Decided
<1>2. k \in Decided(a) /\ Decided(a) = {k}
  BY DEF OneDecision
<1>3. Decided(a)' = {k}
  BY <1>2 DEF Decided
<1>4. k # i => /\ \A kind \in Kinds : jobs[a][kind][i].state = "absent"
               /\ reviews[a][i].state = "resolved"
  BY <1>1, <1>2 DEF OneDecision
<1> QED
  BY <1>1, <1>3, <1>4

\* A new input has no rows, no reviews and no decisions.
LEMMA NewInputIsNew ==
    ASSUME TypeInv, NEW a \in Albums, Past(a), NEW i \in Keys, ~Below(i, Input(a))
    PROVE  /\ \A kind \in Kinds : jobs[a][kind][i].state = "absent"
           /\ reviews[a][i].state = "resolved"
<1>1. ASSUME NEW kind \in Kinds PROVE jobs[a][kind][i].state = "absent"
  <2>1. <<kind, i>> \in Rows
    BY DEF Rows
  <2> QED
    BY <2>1 DEF Past, Row
<1>2. reviews[a][i].state = "resolved"
  <2>1. SUFFICES ASSUME i \in Unresolved(a) PROVE FALSE
    BY DEF Unresolved
  <2>2. Below(i, reviews[a][i].about) /\ Below(reviews[a][i].about, Input(a)) /\ reviews[a][i].about \in Keys
    BY <2>1, ReviewFields DEF Past, TypeInv
  <2> QED
    BY <2>2, BelowBelow, InputIsKey DEF TypeInv
<1> QED
  BY <1>1, <1>2

\* A new input starts without decisions about it, rows or reviews.
LEMMA OneDecisionAfresh ==
    ASSUME TypeInv, NEW a \in Albums, Past(a), OneDecision(a), Input(a)' \in Keys,
           ~Below(Input(a)', Input(a)), reviews'[a] = reviews[a],
           \A kind \in Kinds : jobs'[a][kind][Input(a)'] = jobs[a][kind][Input(a)']
    PROVE  OneDecision(a)'
<1>1. PICK i \in Keys : i = Input(a)'
  OBVIOUS
<1>2. /\ \A kind \in Kinds : jobs'[a][kind][i].state = "absent"
      /\ reviews'[a][i].state = "resolved"
  BY <1>1, NewInputIsNew
<1>3. Decided(a)' = Decided(a)
  BY DEF Decided
<1> QED
  BY <1>1, <1>2, <1>3 DEF OneDecision

\* A step about one album leaves what is said of the others.
LEMMA UntouchedAlbum ==
    ASSUME TypeInv, TypeInv', NEW a \in Albums, Past(a), OneDecision(a), policy <= policy',
           album'[a] = album[a], jobs'[a] = jobs[a], reviews'[a] = reviews[a], word'[a] = word[a]
    PROVE  Past(a)' /\ OneDecision(a)'
<1>1. album[a].policy \in Nat /\ policy \in Nat /\ policy' \in Nat
  BY InputIsKey, KeysAreKeys DEF TypeInv, RestOK
<1>2. Past(a)'
  BY <1>1 DEF Past, Row, Input, Unresolved
<1>3. OneDecision(a)'
  BY DEF OneDecision, Input, Decided
<1> QED
  BY <1>2, <1>3

\* What each kind of step does to what Past and OneDecision say of the album it is about.

LEMMA NewInputIsKey ==
    ASSUME TypeInv', NEW a \in Albums
    PROVE  Input(a)' \in Keys /\ album'[a].files \in Nat /\ album'[a].policy \in Nat
<1>1. album'[a].files \in 1 .. Files /\ album'[a].policy \in Policies
  BY DEF TypeInv, TablesOK, AlbumRows
<1>2. album'[a].files \in 0 .. Files /\ album'[a].files \in Nat /\ album'[a].policy \in Nat
  <2>1. Files \in Nat /\ Policies \subseteq Nat
    BY KeysAreKeys, IdentificationAssumption
  <2>2. \A n : n \in 1 .. Files => n \in 0 .. Files /\ n \in Nat
    BY <2>1
  <2> QED
    BY <1>1, <2>1, <2>2
<1>3. Input(a)' = <<album'[a].files, album'[a].policy>>
  BY DEF Input
<1> QED
  BY <1>1, <1>2, <1>3 DEF Keys

\* What the steps of scans do to the row of the album.
LEMMA ScanAlbums ==
    ASSUME TypeInv, NEW a \in Albums, Change(a) \/ Regroup(a) \/ Retire(a)
    PROVE  /\ UNCHANGED <<jobs, reviews, word, policy, worker>>
           /\ album'[a].identity = album[a].identity /\ album'[a].barred = album[a].barred
           /\ \/ /\ album'[a].files = album[a].files + 1 /\ album'[a].policy = policy
                 /\ album'[a].owed = TRUE /\ album'[a].where = "indexed" /\ album[a].where # "retired"
              \/ /\ album'[a].files = album[a].files /\ album'[a].policy = album[a].policy
                 /\ album'[a].where = album[a].where /\ album'[a].owed = TRUE
              \/ /\ album'[a].files = album[a].files /\ album'[a].policy = album[a].policy
                 /\ album'[a].where = "retired"
<1>0. album[a] \in AlbumRows /\ DOMAIN album = Albums
  BY AlbumFields DEF TypeInv, TablesOK
<1>1. \/ album'[a] = [album[a] EXCEPT !.files = album[a].files + 1, !.policy = policy,
                                       !.where = "indexed", !.owed = TRUE] /\ album[a].where # "retired"
      \/ album'[a] = [album[a] EXCEPT !.owed = TRUE]
      \/ album'[a] = [album[a] EXCEPT !.where = "retired", !.owed = FALSE]
  <2>1. CASE Change(a)
    BY <1>0, <2>1 DEF Change, Indexing
  <2>2. CASE Regroup(a)
    BY <1>0, <2>2 DEF Regroup
  <2>3. CASE Retire(a)
    BY <1>0, <2>3 DEF Retire
  <2> QED
    BY <2>1, <2>2, <2>3
<1>2. UNCHANGED <<jobs, reviews, word, policy, worker>>
  BY DEF Change, Regroup, Retire, scanVars
<1>3. /\ album'[a].identity = album[a].identity /\ album'[a].barred = album[a].barred
  BY <1>0, <1>1 DEF AlbumRows
<1>4. \/ /\ album'[a].files = album[a].files + 1 /\ album'[a].policy = policy
         /\ album'[a].owed = TRUE /\ album'[a].where = "indexed" /\ album[a].where # "retired"
      \/ /\ album'[a].files = album[a].files /\ album'[a].policy = album[a].policy
         /\ album'[a].where = album[a].where /\ album'[a].owed = TRUE
      \/ /\ album'[a].files = album[a].files /\ album'[a].policy = album[a].policy
         /\ album'[a].where = "retired"
  BY <1>0, <1>1 DEF AlbumRows
<1> QED
  BY <1>2, <1>3, <1>4

LEMMA ScanInputs ==
    ASSUME TypeInv, NEW a \in Albums, Past(a), Change(a) \/ Regroup(a) \/ Retire(a)
    PROVE  /\ Below(Input(a), Input(a)') /\ album'[a].policy <= policy'
           /\ \/ Input(a)' = Input(a) /\ album'[a].files = album[a].files
              \/ ~Below(Input(a)', Input(a)) /\ album'[a].owed = TRUE
<1>1. /\ album[a].files \in Nat /\ album[a].policy \in Nat /\ policy \in Nat
      /\ Input(a) \in Keys /\ album[a].policy <= policy
  BY InputIsKey, KeysAreKeys DEF TypeInv, RestOK, Past
<1>0. policy' = policy
  BY ScanAlbums
<1>2. CASE album'[a].files = album[a].files /\ album'[a].policy = album[a].policy
  <2>1. Input(a)' = Input(a)
    BY <1>2 DEF Input
  <2> QED
    BY <1>0, <1>1, <1>2, <2>1, BelowSelf
<1>3. CASE album'[a].files = album[a].files + 1 /\ album'[a].policy = policy /\ album'[a].owed = TRUE
  BY <1>0, <1>1, <1>3 DEF Below, Input
<1> QED
  BY <1>2, <1>3, ScanAlbums

LEMMA QueueAlbums ==
    ASSUME TypeInv, NEW a \in Albums, Enqueue(a) \/ Reconsider(a) \/ Repair(a)
    PROVE  /\ UNCHANGED <<word, policy, worker>> /\ Input(a)' = Input(a)
           /\ album'[a].identity = album[a].identity /\ album'[a].files = album[a].files
           /\ album'[a].policy = album[a].policy /\ album'[a].barred = album[a].barred
           /\ album'[a].where = album[a].where
           /\ album'[a].owed = album[a].owed \/ (Enqueue(a) /\ album'[a].owed = FALSE)
<1>1. album' = album \/ (Enqueue(a) /\ album' = [album EXCEPT ![a].owed = FALSE])
  BY DEF Enqueue, Reconsider, Repair
<1>2. album[a] \in AlbumRows /\ DOMAIN album = Albums
  BY AlbumFields DEF TypeInv, TablesOK
<1>3. album'[a] = album[a] \/ (Enqueue(a) /\ album'[a] = [album[a] EXCEPT !.owed = FALSE])
  BY <1>1, <1>2
<1>4. /\ album'[a].identity = album[a].identity /\ album'[a].files = album[a].files
      /\ album'[a].policy = album[a].policy /\ album'[a].barred = album[a].barred
      /\ album'[a].where = album[a].where
      /\ album'[a].owed = album[a].owed \/ (Enqueue(a) /\ album'[a].owed = FALSE)
  BY <1>2, <1>3 DEF AlbumRows
<1>5. UNCHANGED <<word, policy, worker>>
  BY DEF Enqueue, Reconsider, Repair, scanVars
<1> QED
  BY <1>4, <1>5 DEF Input

LEMMA ReconcileAlbums ==
    ASSUME TypeInv, NEW a \in Albums, ApplyPolicy(a) \/ Return(a)
    PROVE  /\ UNCHANGED <<reviews, word, policy, worker>>
           /\ album'[a].identity = album[a].identity /\ album'[a].files = album[a].files
           /\ album'[a].policy = policy /\ album'[a].barred = album[a].barred
           /\ album'[a].where = "indexed" /\ album'[a].owed = album[a].owed
           /\ album[a].where # "retired"
<1>1. album'[a] = [album[a] EXCEPT !.policy = policy, !.where = "indexed"]
  BY ReconcileTypes
<1>2. album[a] \in AlbumRows
  BY AlbumFields DEF TypeInv
<1>3. /\ album'[a].identity = album[a].identity /\ album'[a].files = album[a].files
      /\ album'[a].policy = policy /\ album'[a].barred = album[a].barred
      /\ album'[a].where = "indexed" /\ album'[a].owed = album[a].owed
  BY <1>1, <1>2 DEF AlbumRows
<1>4. UNCHANGED <<reviews, word, policy, worker>> /\ album[a].where # "retired"
  BY DEF ApplyPolicy, Return, Reconciles, scanVars
<1> QED
  BY <1>3, <1>4

LEMMA ReconcileInputs ==
    ASSUME TypeInv, NEW a \in Albums, Past(a), ApplyPolicy(a) \/ Return(a)
    PROVE  /\ Below(Input(a), Input(a)') /\ Below(PolicyKey(policy), Input(a)')
           /\ PolicyKey(policy) # Input(a)' /\ album'[a].policy <= policy'
           /\ \/ Input(a)' = Input(a) /\ album[a].policy = policy
              \/ ~Below(Input(a)', Input(a))
<1>1. /\ album[a].files \in Nat /\ album[a].files > 0 /\ album[a].policy \in Nat /\ policy \in Nat
      /\ Input(a) \in Keys /\ album[a].policy <= policy
  BY InputIsKey, KeysAreKeys DEF TypeInv, RestOK, Past
<1>2. album'[a].files = album[a].files /\ album'[a].policy = policy /\ policy' = policy
  BY ReconcileAlbums
<1> QED
  BY <1>1, <1>2 DEF Below, Input, PolicyKey

LEMMA VanishAlbums ==
    ASSUME TypeInv, NEW a \in Albums, Vanish(a)
    PROVE  /\ UNCHANGED <<jobs, word, policy, worker>> /\ Input(a)' = Input(a)
           /\ album'[a].identity = album[a].identity /\ album'[a].files = album[a].files
           /\ album'[a].policy = album[a].policy /\ album'[a].barred = album[a].barred
           /\ album'[a].where = "missing" /\ album'[a].owed = album[a].owed
           /\ album[a].where # "retired"
<1>1. album'[a] = [album[a] EXCEPT !.where = "missing"]
  BY VanishTypes
<1>2. album[a] \in AlbumRows
  BY AlbumFields DEF TypeInv
<1>3. /\ album'[a].identity = album[a].identity /\ album'[a].files = album[a].files
      /\ album'[a].policy = album[a].policy /\ album'[a].barred = album[a].barred
      /\ album'[a].where = "missing" /\ album'[a].owed = album[a].owed
  BY <1>1, <1>2 DEF AlbumRows
<1>4. UNCHANGED <<jobs, word, policy, worker>> /\ album[a].where # "retired"
  BY DEF Vanish, scanVars
<1> QED
  BY <1>3, <1>4 DEF Input

LEMMA ScanDecisions ==
    ASSUME TypeInv, NEW a \in Albums, Past(a), OneDecision(a), Change(a) \/ Regroup(a) \/ Retire(a)
    PROVE  Past(a)' /\ OneDecision(a)'
<1>1. TypeInv'
  BY ScanTypes
<1>2. UNCHANGED <<jobs, reviews, word, policy>>
  BY DEF Change, Regroup, Retire, scanVars
<1>3. /\ album'[a].identity = album[a].identity
      /\ Below(Input(a), Input(a)') /\ album'[a].policy <= policy'
      /\ Input(a)' = Input(a) \/ ~Below(Input(a)', Input(a))
  BY ScanAlbums, ScanInputs
<1>5. Input(a) \in Keys /\ Input(a)' \in Keys
  BY <1>1, InputIsKey, NewInputIsKey DEF TypeInv
<1>7. Past(a)'
  <2>1. \A r \in Rows : Row(a, r)' = Row(a, r)
    BY <1>2 DEF Row
  <2>2. Unresolved(a)' = Unresolved(a)
    BY <1>2 DEF Unresolved
  <2> QED
    BY <1>1, <1>2, <1>3, <2>1, <2>2, PastGrows
<1>8. OneDecision(a)'
  <2>1. CASE Input(a)' = Input(a)
    BY <1>2, <1>5, <2>1, OneDecisionStays DEF Decided
  <2>2. CASE ~Below(Input(a)', Input(a))
    BY <1>2, <1>5, <2>2, OneDecisionAfresh
  <2> QED
    BY <1>3, <2>1, <2>2
<1> QED
  BY <1>7, <1>8

LEMMA QueueDecisions ==
    ASSUME TypeInv, NEW a \in Albums, Past(a), OneDecision(a),
           Enqueue(a) \/ Reconsider(a) \/ Repair(a)
    PROVE  Past(a)' /\ OneDecision(a)'
<1>0. TypeInv' /\ TablesOK
  BY QueueTypes DEF TypeInv
<1>1. UNCHANGED <<word, policy>>
  BY QueueAlbums
<1>2. /\ album'[a].identity = album[a].identity /\ Input(a)' = Input(a)
      /\ album'[a].policy = album[a].policy
  BY QueueAlbums
<1>3. PICK i \in Keys : i = Input(a)
  BY <1>0, InputIsKey
<1>4. /\ \A r \in Rows : Row(a, r)'.state # "absent" => Row(a, r).state # "absent" \/ r[2] = i
      /\ \A key \in Keys : reviews'[a][key] = reviews[a][key] \/ reviews'[a][key] = Resolved
      /\ \/ jobs'[a] = jobs[a] /\ reviews'[a] = reviews[a]
         \/ Decided(a)' = {}
  <2>1. \/ UNCHANGED <<jobs, reviews>>
        \/ \E kind \in Kinds : EnqueueJob(a, kind)
    BY DEF Enqueue, Reconsider, Repair, Kinds
  <2>2. CASE UNCHANGED <<jobs, reviews>>
    BY <2>2 DEF Row
  <2>3. ASSUME NEW kind \in Kinds, NEW available \in BOOLEAN,
               NEW rows \in Enqueued(jobs[a][kind], Input(a), available),
               jobs' = [jobs EXCEPT ![a][kind] = rows]
        PROVE  \A r \in Rows : Row(a, r)'.state # "absent" => Row(a, r).state # "absent" \/ r[2] = i
    <3>1. jobs[a][kind] \in [Keys -> JobRows]
      BY <1>0 DEF TablesOK
    <3>2. \A k \in Keys \ {i} : rows[k] = jobs[a][kind][k] \/ rows[k] = Absent
      BY <1>3, <2>3, <3>1, EnqueuedRows
    <3>3. TAKE r \in Rows
    <3>4. r[1] \in Kinds /\ r[2] \in Keys
      BY DEF Rows
    <3>5. Row(a, r)' = IF r[1] = kind THEN rows[r[2]] ELSE Row(a, r)
      BY <1>0, <2>3, <3>4 DEF TablesOK, Row
    <3> QED
      BY <3>2, <3>4, <3>5 DEF Row, Absent
  <2>4. ASSUME Decided(a) = {}, UNCHANGED reviews
        PROVE  Decided(a)' = {} /\ \A key \in Keys : reviews'[a][key] = reviews[a][key]
    BY <2>4 DEF Decided
  <2>5. ASSUME NEW k \in Decided(a), reviews' = [reviews EXCEPT ![a][k] = Resolved]
        PROVE  /\ Decided(a)' = {}
               /\ \A key \in Keys : reviews'[a][key] = reviews[a][key] \/ reviews'[a][key] = Resolved
    <3>1. k \in Keys
      BY DEF Decided
    <3>2. \A key \in Keys : reviews'[a][key] = IF key = k THEN Resolved ELSE reviews[a][key]
      BY <1>0, <2>5, <3>1 DEF TablesOK
    <3>3. Decided(a) = {k}
      BY DEF OneDecision
    <3>4. \A key \in Keys \ {k} : reviews[a][key].state \notin {"keep_tagged", "excluded"}
      BY <3>3 DEF Decided
    <3>5. \A key \in Keys : reviews'[a][key].state \notin {"keep_tagged", "excluded"}
      BY <3>2, <3>4 DEF Resolved
    <3> QED
      BY <3>2, <3>5 DEF Decided
  <2>6. ASSUME NEW kind \in Kinds, EnqueueJob(a, kind)
        PROVE  \/ UNCHANGED <<jobs, reviews>>
               \/ \E available \in BOOLEAN :
                  \E rows \in Enqueued(jobs[a][kind], Input(a), available) :
                     /\ jobs' = [jobs EXCEPT ![a][kind] = rows]
                     /\ \/ Decided(a) = {} /\ UNCHANGED reviews
                        \/ \E k \in Decided(a) : reviews' = [reviews EXCEPT ![a][k] = Resolved]
    BY <1>0, <2>6, EnqueueJobEffect
  <2>7. ASSUME NEW kind \in Kinds, EnqueueJob(a, kind), ~UNCHANGED <<jobs, reviews>>
        PROVE  /\ \A r \in Rows : Row(a, r)'.state # "absent" => Row(a, r).state # "absent" \/ r[2] = i
               /\ \A key \in Keys : reviews'[a][key] = reviews[a][key] \/ reviews'[a][key] = Resolved
               /\ Decided(a)' = {}
    BY <2>3, <2>4, <2>5, <2>6, <2>7
  <2> QED
    BY <2>1, <2>2, <2>7
<1>5. Below(i, i) /\ album'[a].policy <= policy'
  BY <1>0, <1>1, <1>2, <1>3, BelowSelf, InputIsKey DEF Past
<1>6. Past(a)'
  <2>1. \A key \in Unresolved(a)' : key \in Unresolved(a) /\ reviews'[a][key].about = reviews[a][key].about
    BY <1>4 DEF Unresolved, Resolved
  <2> QED
    BY <1>0, <1>1, <1>2, <1>3, <1>4, <1>5, <2>1, PastGrows
<1>7. OneDecision(a)'
  <2>1. \A k \in Keys : k \in Decided(a)' => k \in Decided(a)
    BY <1>4 DEF Decided, Resolved
  <2> QED
    BY <1>2, <1>3, <1>4, <2>1, OneDecisionStays
<1> QED
  BY <1>6, <1>7

LEMMA ReconcileDecisions ==
    ASSUME TypeInv, NEW a \in Albums, Past(a), OneDecision(a), ApplyPolicy(a) \/ Return(a)
    PROVE  Past(a)' /\ OneDecision(a)'
<1>0. TypeInv' /\ TablesOK /\ policy \in Policies /\ album[a].policy <= policy
  BY ReconcileTypes DEF TypeInv, RestOK, Past
<1>1. UNCHANGED <<reviews, policy, word>> /\ album'[a].identity = album[a].identity
  BY ReconcileAlbums
<1>3. Input(a) \in Keys /\ Input(a)' \in Keys
  BY <1>0, InputIsKey, NewInputIsKey
<1>4. /\ Below(Input(a), Input(a)') /\ Below(PolicyKey(policy), Input(a)')
      /\ PolicyKey(policy) # Input(a)' /\ album'[a].policy <= policy'
      /\ Input(a)' = Input(a) \/ ~Below(Input(a)', Input(a))
  BY ReconcileInputs
<1>5. \A r \in Rows : Row(a, r)' = Row(a, r) \/ r = <<"automatic", PolicyKey(policy)>>
  BY ReconcileTypes
<1>6. Past(a)'
  <2>1. Unresolved(a)' = Unresolved(a)
    BY <1>1 DEF Unresolved
  <2>3. \A r \in Rows : Row(a, r)'.state # "absent" =>
           Row(a, r).state # "absent" \/ Below(r[2], Input(a)')
    BY <1>4, <1>5
  <2> QED
    BY <1>0, <1>1, <1>4, <2>1, <2>3, PastGrows
<1>7. \A kind \in Kinds : jobs'[a][kind][Input(a)'] = jobs[a][kind][Input(a)']
  <2>1. PICK i \in Keys : i = Input(a)'
    BY <1>3
  <2>2. TAKE kind \in Kinds
  <2>3. <<kind, i>> \in Rows /\ <<kind, i>> # <<"automatic", PolicyKey(policy)>>
    BY <1>4, <2>1 DEF Rows
  <2>4. Row(a, <<kind, i>>)' = Row(a, <<kind, i>>)
    BY <1>5, <2>3
  <2> QED
    BY <2>1, <2>4 DEF Row
<1>8. OneDecision(a)'
  <2>1. CASE Input(a)' = Input(a)
    BY <1>1, <1>3, <1>7, <2>1, OneDecisionStays DEF Decided
  <2>2. CASE ~Below(Input(a)', Input(a))
    BY <1>1, <1>3, <1>7, <2>2, OneDecisionAfresh
  <2> QED
    BY <1>4, <2>1, <2>2
<1> QED
  BY <1>6, <1>8

LEMMA VanishDecisions ==
    ASSUME TypeInv, NEW a \in Albums, Past(a), OneDecision(a), Vanish(a)
    PROVE  Past(a)' /\ OneDecision(a)'
<1>0. TypeInv' /\ TablesOK
  BY VanishTypes DEF TypeInv
<1>1. UNCHANGED <<jobs, policy, word>>
  BY VanishAlbums
<1>2. /\ album'[a].identity = album[a].identity /\ Input(a)' = Input(a)
      /\ album'[a].policy = album[a].policy
  BY VanishAlbums
<1>3. \A key \in Keys : reviews'[a][key] = reviews[a][key] \/ reviews'[a][key] = Resolved
  <2>1. reviews'[a] = Settled(a)
    BY VanishTypes
  <2>2. \A key \in Keys : Settled(a)[key] = reviews[a][key] \/ Settled(a)[key] = Resolved
    BY <1>0, SettledReviews
  <2> QED
    BY <2>1, <2>2
<1>4. \A key \in Unresolved(a)' : key \in Unresolved(a) /\ reviews'[a][key].about = reviews[a][key].about
  BY <1>3 DEF Unresolved, Resolved
<1>5. /\ Input(a) \in Keys /\ Below(Input(a), Input(a)) /\ album'[a].policy <= policy'
  BY <1>0, <1>1, <1>2, InputIsKey, BelowSelf DEF Past
<1>6. Past(a)'
  <2>1. \A r \in Rows : Row(a, r)' = Row(a, r)
    BY <1>1 DEF Row
  <2> QED
    BY <1>0, <1>1, <1>2, <1>4, <1>5, <2>1, PastGrows
<1>7. OneDecision(a)'
  <2>1. \A k \in Keys : k \in Decided(a)' => k \in Decided(a)
    BY <1>3 DEF Decided, Resolved
  <2>2. reviews[a][Input(a)].state = "resolved" => reviews'[a][Input(a)].state = "resolved"
    BY <1>3, <1>5 DEF Resolved
  <2> QED
    BY <1>1, <1>2, <1>5, <2>1, <2>2, OneDecisionStays
<1> QED
  BY <1>6, <1>7

LEMMA PeopleDecisions ==
    ASSUME TypeInv, NEW a \in Albums, Past(a), OneDecision(a), "otherReview" \notin Admits,
           NEW key \in Keys, UserStep(a, key)
    PROVE  Past(a)' /\ OneDecision(a)'
<1>0. TypeInv' /\ TablesOK /\ key \in Unresolved(a) /\ key = Input(a)
  BY DecisionTypes DEF TypeInv
<1>1. /\ album'[a].policy = album[a].policy /\ UNCHANGED policy /\ Input(a)' = Input(a)
  BY DecisionTypes DEF Input
<1>2. /\ reviews[a][key].about \in Keys /\ Below(reviews[a][key].about, key) /\ Below(key, key)
      /\ word'[a].about = reviews[a][key].about /\ album'[a].policy <= policy'
  BY <1>0, <1>1, ReviewFields, BelowSelf, DecisionTypes DEF Past
<1>3. album'[a].identity.of = album[a].identity.of \/ Below(album'[a].identity.of, key)
  <2>1. album'[a].identity \in {album[a].identity, NoIdentity, [source |-> "manual", of |-> Input(a)]}
    BY DecisionTypes
  <2>2. Below(NoIdentity.of, key) /\ [source |-> "manual", of |-> Input(a)].of = key
    BY <1>0, NothingBelow
  <2> QED
    BY <1>2, <2>1, <2>2
<1>4. \A r \in Rows : Row(a, r)'.state # "absent" => Row(a, r).state # "absent"
  BY DecisionTypes
<1>5. /\ \A k \in Keys \ {key} : reviews'[a][k] = reviews[a][k]
      /\ reviews'[a][key].state = "resolved" \/ reviews'[a][key].about = reviews[a][key].about
  <2>1. reviews'[a][key] \in {Resolved, [reviews[a][key] EXCEPT !.state = "keep_tagged"],
                              [reviews[a][key] EXCEPT !.state = "excluded"]}
    BY DecisionTypes
  <2>2. reviews[a][key] \in Reviews
    BY <1>0, ReviewFields
  <2>3. reviews'[a][key].state = "resolved" \/ reviews'[a][key].about = reviews[a][key].about
    BY <2>1, <2>2 DEF Reviews, Resolved
  <2> QED
    BY <2>3, DecisionTypes
<1>6. Past(a)'
  <2>1. \A k \in Unresolved(a)' : k \in Unresolved(a) /\ reviews'[a][k].about = reviews[a][k].about
    BY <1>0, <1>5 DEF Unresolved
  <2> QED
    BY <1>0, <1>1, <1>2, <1>3, <1>4, <2>1, PastGrows
<1>7. OneDecision(a)'
  <2>1. \A k \in Keys : k \in Decided(a) => k = key
    BY <1>0 DEF OneDecision, Unresolved
  <2>2. \A k \in Keys : k \in Decided(a)' => k = key
    BY <1>5, <2>1 DEF Decided
  <2> QED
    BY <1>0, <1>1, <2>2 DEF OneDecision, Decided
<1> QED
  BY <1>6, <1>7

LEMMA PolicyDecisions ==
    ASSUME TypeInv, NEW a \in Albums, Past(a), OneDecision(a), "policyWithdrawn" \notin Admits,
           NEW p \in Policies, SetPolicy(p)
    PROVE  Past(a)' /\ OneDecision(a)'
<1>0. TypeInv' /\ TablesOK /\ policy' = p /\ UNCHANGED <<album, reviews, word>> /\ policy < policy'
  BY PolicyTypes DEF TypeInv
<1>1. \A r \in Rows : Row(a, r)'.state # "absent" <=> Row(a, r).state # "absent"
  BY PolicyTypes
<1>2. Input(a)' = Input(a) /\ Input(a) \in Keys /\ Below(Input(a), Input(a))
  BY <1>0, InputIsKey, BelowSelf DEF Input
<1>3. album'[a].policy <= policy'
  <2>1. album[a].policy \in Nat /\ policy \in Nat /\ policy' \in Nat
    BY <1>0, InputIsKey, KeysAreKeys DEF TypeInv, RestOK
  <2> QED
    BY <1>0, <2>1 DEF Past
<1>4. Past(a)'
  <2>1. Unresolved(a)' = Unresolved(a)
    BY <1>0 DEF Unresolved
  <2> QED
    BY <1>0, <1>1, <1>2, <1>3, <2>1, PastGrows
<1>5. OneDecision(a)'
  <2>1. \A kind \in Kinds : jobs[a][kind][Input(a)].state = "absent"
                               => jobs'[a][kind][Input(a)].state = "absent"
    <3>1. PICK i \in Keys : i = Input(a)
      BY <1>2
    <3>2. TAKE kind \in Kinds
    <3>3. <<kind, i>> \in Rows
      BY DEF Rows
    <3> QED
      BY <1>1, <3>1, <3>3 DEF Row
  <2> QED
    BY <1>0, <1>2, <2>1, OneDecisionStays DEF Decided
<1> QED
  BY <1>4, <1>5

LEMMA JobDecisions ==
    ASSUME TypeInv, TypeInv', NEW a \in Albums, Past(a), OneDecision(a), JobsMove
    PROVE  Past(a)' /\ OneDecision(a)'
<1>0. UNCHANGED <<album, reviews, word, policy>> /\ TablesOK
  BY DEF TypeInv, JobsMove
<1>1. \A r \in Rows : Row(a, r)'.state # "absent" <=> Row(a, r).state # "absent"
  BY DEF JobsMove, Active
<1>2. Input(a)' = Input(a) /\ Input(a) \in Keys /\ Below(Input(a), Input(a))
  BY <1>0, InputIsKey, BelowSelf DEF Input
<1>3. Past(a)'
  <2>1. Unresolved(a)' = Unresolved(a)
    BY <1>0 DEF Unresolved
  <2>2. album'[a].policy <= policy'
    BY <1>0 DEF Past
  <2> QED
    BY <1>0, <1>1, <1>2, <2>1, <2>2, PastGrows
<1>4. OneDecision(a)'
  <2>1. \A kind \in Kinds : jobs[a][kind][Input(a)].state = "absent"
                               => jobs'[a][kind][Input(a)].state = "absent"
    <3>1. PICK i \in Keys : i = Input(a)
      BY <1>2
    <3>2. TAKE kind \in Kinds
    <3>3. <<kind, i>> \in Rows
      BY DEF Rows
    <3> QED
      BY <1>1, <3>1, <3>3 DEF Row
  <2> QED
    BY <1>0, <1>2, <2>1, OneDecisionStays DEF Decided
<1> QED
  BY <1>3, <1>4

\* A job in hand has a row, so that a decision of the album is about its present input, or
\* the job's key is not.
LEMMA EndDecisions ==
    ASSUME TypeInv, TypeInv', NEW a \in Albums, a = A, worker.pc # "idle", Past(a), OneDecision(a),
           JobEnds(a), Input(a)' = Input(a), album'[a].policy = album[a].policy,
           album'[a].identity.of = album[a].identity.of \/ Below(album'[a].identity.of, Input(a)),
           \A key \in Keys :
              \/ reviews'[a][key] = reviews[a][key]
              \/ reviews'[a][key] = Resolved
              \/ /\ key = worker.key /\ reviews'[a][key].state # "resolved"
                 /\ key \in Decided(a)' => key \in Decided(a)
                 /\ Below(key, reviews'[a][key].about) /\ Below(reviews'[a][key].about, Input(a))
    PROVE  Past(a)' /\ OneDecision(a)'
<1>0. TablesOK /\ WorkerOK /\ UNCHANGED <<policy, word>>
  BY DEF TypeInv, JobEnds
<1>1. /\ R \in Rows /\ worker.key \in Keys /\ worker.kind \in Kinds
      /\ jobs[a][worker.kind][worker.key].state = "running" /\ Row(a, R).state = "running"
  BY <1>0, WorkerHands DEF Mine
<1>2. PICK i \in Keys : i = Input(a) /\ Input(a)' = i
  BY <1>0, InputIsKey
<1>3. \A r \in Rows : Row(a, r)'.state # "absent" => Row(a, r).state # "absent"
  BY <1>1 DEF JobEnds
<1>4. Past(a)'
  <2>1. Below(i, i) /\ album'[a].policy <= policy'
    BY <1>0, BelowSelf DEF Past
  <2>2. \A key \in Unresolved(a)' :
           \/ key \in Unresolved(a) /\ reviews'[a][key].about = reviews[a][key].about
           \/ Below(key, reviews'[a][key].about) /\ Below(reviews'[a][key].about, Input(a))
    BY DEF Unresolved, Resolved
  <2> QED
    BY <1>0, <1>2, <1>3, <2>1, <2>2, PastGrows
<1>5. OneDecision(a)'
  <2>1. \A k \in Keys : k \in Decided(a)' => k \in Decided(a)
    BY DEF Decided, Resolved
  <2>2. \A kind \in Kinds : jobs[a][kind][i].state = "absent" => jobs'[a][kind][i].state = "absent"
    <3>1. TAKE kind \in Kinds
    <3>2. <<kind, i>> \in Rows
      BY DEF Rows
    <3> QED
      BY <1>3, <3>2 DEF Row
  <2>3. CASE worker.key # i
    <3>1. reviews[a][i].state = "resolved" => reviews'[a][i].state = "resolved"
      BY <2>3 DEF Resolved
    <3> QED
      BY <1>2, <2>1, <2>2, <3>1, OneDecisionStays
  <2>4. CASE worker.key = i
    <3>1. \A k \in Keys : k \in Decided(a) => k = i
      BY <1>1, <1>2, <2>4 DEF OneDecision
    <3>2. \A k \in Keys : k \in Decided(a)' => k = i
      BY <2>1, <3>1
    <3> QED
      BY <1>2, <3>2 DEF OneDecision, Decided
  <2> QED
    BY <2>3, <2>4
<1> QED
  BY <1>4, <1>5

LEMMA HandIsPast ==
    ASSUME TypeInv, NEW a \in Albums, a = A, worker.pc # "idle", Past(a)
    PROVE  worker.key \in Keys /\ worker.kind \in Kinds /\ Below(worker.key, Input(a))
           /\ jobs[a][worker.kind][worker.key].state = "running"
<1>1. /\ R \in Rows /\ worker.key \in Keys /\ worker.kind \in Kinds /\ Row(a, R).state = "running"
      /\ jobs[a][worker.kind][worker.key].state = "running"
  BY WorkerHands DEF TypeInv, Mine
<1>2. Below(R[2], Input(a))
  BY <1>1 DEF Past
<1> QED
  BY <1>1, <1>2 DEF R

LEMMA FinishDecisions ==
    ASSUME TypeInv, NEW a \in Albums, a = A, Past(a), OneDecision(a), Finish
    PROVE  Past(a)' /\ OneDecision(a)'
<1>0. TypeInv' /\ TablesOK /\ JobEnds(a) /\ worker.pc # "idle"
  BY FinishTypes DEF TypeInv
<1>1. PICK identity :
         /\ album'[a] = [album[a] EXCEPT !.identity = identity]
         /\ \/ identity = album[a].identity
            \/ /\ identity = NoIdentity
               /\ album[a].identity.source = "automatic" /\ worker.result # "identified"
            \/ /\ identity.of = Input(a) /\ album[a].identity.source # "manual"
  BY FinishTypes
<1>2. album'[a].identity = identity /\ Input(a)' = Input(a) /\ album'[a].policy = album[a].policy
  <2>1. album[a] \in AlbumRows
    BY <1>0, AlbumFields
  <2>2. /\ album'[a].identity = identity /\ album'[a].files = album[a].files
        /\ album'[a].policy = album[a].policy
    BY <1>1, <2>1 DEF AlbumRows
  <2> QED
    BY <2>2 DEF Input
<1>3. Below(Input(a), Input(a)) /\ Below(NoIdentity.of, Input(a))
  BY <1>0, InputIsKey, BelowSelf, NothingBelow
<1>4. album'[a].identity.of = album[a].identity.of \/ Below(album'[a].identity.of, Input(a))
  BY <1>1, <1>2, <1>3
<1>5. ASSUME NEW key \in Keys
      PROVE  \/ reviews'[a][key] = reviews[a][key]
             \/ reviews'[a][key] = Resolved
             \/ /\ key = worker.key /\ reviews'[a][key].state # "resolved"
                /\ key \in Decided(a)' => key \in Decided(a)
                /\ Below(key, reviews'[a][key].about) /\ Below(reviews'[a][key].about, Input(a))
  <2>1. CASE reviews'[a] = Settled(a)
    BY <1>0, <2>1, SettledReviews
  <2>2. CASE /\ \A k \in Keys \ {worker.key} : reviews'[a][k] = reviews[a][k]
             /\ reviews'[a][worker.key] = Reviewed(reviews[a][worker.key], Input(a), worker.seen, TRUE)
    <3>1. CASE key # worker.key
      BY <2>2, <3>1
    <3>2. CASE key = worker.key
      <4>1. /\ reviews'[a][key].about = Input(a)
            /\ reviews'[a][key].state = IF reviews[a][key].state = "resolved" THEN "needs_review"
                                        ELSE reviews[a][key].state
        BY <2>2, <3>2 DEF Reviewed
      <4>2. Below(key, Input(a))
        BY <1>0, <3>2, HandIsPast
      <4>3. key \in Decided(a)' => key \in Decided(a)
        BY <4>1 DEF Decided
      <4> QED
        BY <1>3, <3>2, <4>1, <4>2, <4>3
    <3> QED
      BY <3>1, <3>2
  <2> QED
    BY <2>1, <2>2, FinishTypes
<1> QED
  BY <1>0, <1>2, <1>4, <1>5, EndDecisions

LEMMA FailDecisions ==
    ASSUME TypeInv, NEW a \in Albums, a = A, Past(a), OneDecision(a), FailsForGood
    PROVE  Past(a)' /\ OneDecision(a)'
<1>1. PICK cause : FailJob(cause)
  BY DEF FailsForGood
<1>2. worker.pc # "idle" /\ worker' = Idle /\ UNCHANGED <<album, word, policy, paused, breaker, left>>
  BY DEF FailsForGood
<1>3. /\ TypeInv' /\ Elsewhere(a) /\ JobEnds(a)
      /\ \A k \in Keys \ {worker.key} : reviews'[a][k] = reviews[a][k]
      /\ \/ worker.key \in Unresolved(a) /\ UNCHANGED reviews
         \/ /\ worker.key \notin Unresolved(a)
            /\ reviews'[a][worker.key] =
                  [state |-> "needs_review", attempted |-> FALSE, seen |-> NoIdentity,
                   about |-> IF worker.key[1] = 0 THEN Input(a) ELSE worker.key]
  BY <1>1, <1>2, FailTypes
<1>4. Input(a)' = Input(a) /\ album'[a] = album[a]
  BY <1>2 DEF Input
<1>5. /\ worker.key \in Keys /\ Below(worker.key, Input(a)) /\ Below(worker.key, worker.key)
      /\ Below(Input(a), Input(a))
  BY <1>2, HandIsPast, BelowSelf, InputIsKey DEF TypeInv
<1>6. ASSUME NEW key \in Keys
      PROVE  \/ reviews'[a][key] = reviews[a][key]
             \/ /\ key = worker.key /\ reviews'[a][key].state # "resolved"
                /\ key \in Decided(a)' => key \in Decided(a)
                /\ Below(key, reviews'[a][key].about) /\ Below(reviews'[a][key].about, Input(a))
  <2>1. CASE key # worker.key \/ worker.key \in Unresolved(a)
    BY <1>3, <2>1
  <2>2. CASE key = worker.key /\ worker.key \notin Unresolved(a)
    <3>1. /\ reviews'[a][key].state = "needs_review"
          /\ reviews'[a][key].about \in {Input(a), key}
      BY <1>3, <2>2
    <3> QED
      BY <1>5, <2>2, <3>1 DEF Decided
  <2> QED
    BY <2>1, <2>2
<1> QED
  BY <1>2, <1>3, <1>4, <1>6, EndDecisions

LEMMA InitDecisions == Init => DecisionsInv
<1> SUFFICES ASSUME Init, NEW a \in Albums PROVE Past(a) /\ OneDecision(a)
  BY DEF DecisionsInv
<1>0. TypeInv /\ TablesOK
  BY InitTypes DEF TypeInv
<1>1. /\ album[a].policy = 1 /\ policy = 1 /\ album[a].identity = NoIdentity /\ word[a] = NoWord
      /\ \A r \in Rows : Row(a, r).state = "absent"
      /\ Unresolved(a) = {} /\ Decided(a) = {}
  BY DEF Init, Row, Rows, Absent, Resolved, Unresolved, Decided
<1>2. Below(Nothing, Input(a)) /\ NoIdentity.of = Nothing
  BY <1>0, NothingBelow
<1>3. Past(a)
  BY <1>1, <1>2 DEF Past, NoWord
<1> QED
  BY <1>1, <1>3 DEF OneDecision

\* Every step, of any album, keeps what the rows of every album are about.
LEMMA DecisionsStep ==
    ASSUME TypeInv, DecisionsInv, [Next]_vars, {"otherReview", "policyWithdrawn"} \cap Admits = {}
    PROVE  DecisionsInv'
<1>0. "otherReview" \notin Admits /\ "policyWithdrawn" \notin Admits
  OBVIOUS
<1>1. TypeInv'
  BY TypeStep
<1>2. policy <= policy /\ policy \in Nat
  BY KeysAreKeys DEF TypeInv, RestOK
<1> SUFFICES ASSUME NEW b \in Albums PROVE Past(b)' /\ OneDecision(b)'
  BY DEF DecisionsInv
<1>3. Past(b) /\ OneDecision(b)
  BY DEF DecisionsInv
<1>4. ASSUME NEW a \in Albums, Elsewhere(a), policy' = policy, b # a
      PROVE  Past(b)' /\ OneDecision(b)'
  <2>1. album'[b] = album[b] /\ jobs'[b] = jobs[b] /\ reviews'[b] = reviews[b] /\ word'[b] = word[b]
    BY <1>4 DEF Elsewhere
  <2> QED
    BY <1>1, <1>2, <1>3, <1>4, <2>1, UntouchedAlbum
<1>5. CASE UNCHANGED vars
  BY <1>1, <1>2, <1>3, <1>5, UntouchedAlbum DEF vars
<1>6. ASSUME NEW a \in Albums, Change(a) \/ Regroup(a) \/ Retire(a)
      PROVE  Past(b)' /\ OneDecision(b)'
  <2>1. Elsewhere(a) /\ policy' = policy
    BY <1>6, ScanTypes DEF Change, Regroup, Retire
  <2> QED
    BY <1>3, <1>4, <1>6, <2>1, ScanDecisions
<1>7. ASSUME NEW a \in Albums, Enqueue(a) \/ Reconsider(a) \/ Repair(a)
      PROVE  Past(b)' /\ OneDecision(b)'
  <2>1. Elsewhere(a) /\ policy' = policy
    BY <1>7, QueueTypes DEF Enqueue, Reconsider, Repair
  <2> QED
    BY <1>3, <1>4, <1>7, <2>1, QueueDecisions
<1>8. ASSUME NEW a \in Albums, ApplyPolicy(a) \/ Return(a)
      PROVE  Past(b)' /\ OneDecision(b)'
  <2>1. Elsewhere(a) /\ policy' = policy
    BY <1>8, ReconcileTypes DEF ApplyPolicy, Return, Reconciles
  <2> QED
    BY <1>3, <1>4, <1>8, <2>1, ReconcileDecisions
<1>9. ASSUME NEW a \in Albums, Vanish(a)
      PROVE  Past(b)' /\ OneDecision(b)'
  <2>1. Elsewhere(a) /\ policy' = policy
    BY <1>9, VanishTypes DEF Vanish
  <2> QED
    BY <1>3, <1>4, <1>9, <2>1, VanishDecisions
<1>10. ASSUME NEW a \in Albums, NEW key \in Keys, UserStep(a, key)
       PROVE  Past(b)' /\ OneDecision(b)'
  <2>1. Elsewhere(a) /\ policy' = policy
    BY <1>10, DecisionTypes
  <2> QED
    BY <1>0, <1>3, <1>4, <1>10, <2>1, PeopleDecisions
<1>11. ASSUME NEW p \in Policies, SetPolicy(p)
       PROVE  Past(b)' /\ OneDecision(b)'
  BY <1>0, <1>3, <1>11, PolicyDecisions
<1>12. CASE JobsMove
  BY <1>1, <1>3, <1>12, JobDecisions
<1>13. CASE Finish
  <2>1. PICK a \in Albums : a = A
    BY <1>13, WorkerHands DEF TypeInv, Finish, At
  <2>2. Elsewhere(a) /\ policy' = policy
    BY <1>13, <2>1, FinishTypes DEF JobEnds
  <2> QED
    BY <1>3, <1>4, <1>13, <2>1, <2>2, FinishDecisions
<1>14. CASE FailsForGood
  <2>1. PICK a \in Albums : a = A
    BY <1>14, WorkerHands DEF TypeInv, FailsForGood
  <2>2. PICK cause : FailJob(cause)
    BY <1>14 DEF FailsForGood
  <2>3. Elsewhere(a) /\ policy' = policy
    BY <1>14, <2>1, <2>2, FailTypes DEF FailsForGood
  <2> QED
    BY <1>3, <1>4, <1>14, <2>1, <2>3, FailDecisions
<1>15. CASE Next
  BY <1>6, <1>7, <1>8, <1>9, <1>10, <1>11, <1>12, <1>13, <1>14, <1>15, StepKinds
<1> QED
  BY <1>5, <1>15

-----------------------------------------------------------------------------
(* Decisions stand *)

\* Nothing that Kept and AcceptedStays read has changed, but for jobs that ended.
LEMMA StandsUnless ==
    ASSUME NEW a \in Albums, Kept(a), AcceptedStays(a), word'[a] = word[a],
           album'[a].identity = album[a].identity,
           \/ word[a].about # Input(a)'
           \/ /\ Input(a)' = Input(a)
              /\ \A r \in Rows : Row(a, r)'.state \in Active => Row(a, r).state \in Active
              /\ reviews[a][Input(a)].state = "keep_tagged"
                    => reviews'[a][Input(a)].state = "keep_tagged"
    PROVE  Kept(a)' /\ AcceptedStays(a)'
<1>1. AcceptedStays(a)'
  BY DEF AcceptedStays
<1>2. CASE word[a].about # Input(a)'
  <2>1. Kept(a)'
    BY <1>2 DEF Kept
  <2> QED
    BY <1>1, <2>1
<1>3. CASE /\ Input(a)' = Input(a)
           /\ \A r \in Rows : Row(a, r)'.state \in Active => Row(a, r).state \in Active
           /\ reviews[a][Input(a)].state = "keep_tagged"
                 => reviews'[a][Input(a)].state = "keep_tagged"
  <2>1. HasActive(a)' => HasActive(a)
    BY <1>3 DEF HasActive, Active, Rows, Kinds, Keys, Policies
  <2>2. Kept(a)'
    BY <1>3, <2>1 DEF Kept
  <2> QED
    BY <1>1, <2>2
<1> QED
  BY <1>2, <1>3

\* What each kind of step does to a decision.
LEMMA ScanStands ==
    ASSUME TypeInv, NEW a \in Albums, Past(a), Kept(a), AcceptedStays(a),
           Change(a) \/ Regroup(a) \/ Retire(a)
    PROVE  Kept(a)' /\ AcceptedStays(a)'
<1>1. UNCHANGED <<jobs, reviews, word, policy>>
  BY DEF Change, Regroup, Retire, scanVars
<1>2. /\ album'[a].identity = album[a].identity
      /\ Input(a)' = Input(a) \/ ~Below(Input(a)', Input(a))
  BY ScanAlbums, ScanInputs
<1>3. CASE Input(a)' = Input(a)
  <2>1. \A r \in Rows : Row(a, r)' = Row(a, r)
    BY <1>1 DEF Row
  <2> QED
    BY <1>1, <1>2, <1>3, <2>1, StandsUnless
<1>4. CASE ~Below(Input(a)', Input(a))
  <2>1. word[a].about # Input(a)'
    BY <1>4 DEF Past
  <2> QED
    BY <1>1, <1>2, <2>1, StandsUnless
<1> QED
  BY <1>2, <1>3, <1>4

LEMMA QueueStands ==
    ASSUME TypeInv, NEW a \in Albums, OneDecision(a), Kept(a), AcceptedStays(a),
           Enqueue(a) \/ Reconsider(a) \/ Repair(a)
    PROVE  Kept(a)' /\ AcceptedStays(a)'
<1>0. TablesOK /\ UNCHANGED word /\ Input(a) \in Keys
  BY InputIsKey DEF TypeInv, Enqueue, Reconsider, Repair, scanVars
<1>1. album'[a].identity = album[a].identity /\ Input(a)' = Input(a)
  BY QueueAlbums
<1>2. CASE word[a].said = "keep" /\ word[a].about = Input(a)
  <2>1. reviews[a][Input(a)].state = "keep_tagged"
    BY <1>2 DEF Kept
  <2>2. Decided(a) = {Input(a)}
    BY <1>0, <2>1 DEF OneDecision, Decided
  <2>3. ASSUME NEW kind \in Kinds, EnqueueJob(a, kind) PROVE UNCHANGED <<jobs, reviews>>
    BY <1>0, <2>2, <2>3, EnqueueJobEffect
  <2>4. UNCHANGED <<jobs, reviews>>
    BY <2>3 DEF Enqueue, Reconsider, Repair, Kinds
  <2>5. \A r \in Rows : Row(a, r)' = Row(a, r)
    BY <2>4 DEF Row
  <2> QED
    BY <1>0, <1>1, <2>4, <2>5, StandsUnless
<1>3. CASE ~(word[a].said = "keep" /\ word[a].about = Input(a))
  BY <1>0, <1>1, <1>3 DEF Kept, AcceptedStays
<1> QED
  BY <1>2, <1>3

LEMMA ReconcileStands ==
    ASSUME TypeInv, NEW a \in Albums, Past(a), Kept(a), AcceptedStays(a), ApplyPolicy(a) \/ Return(a)
    PROVE  Kept(a)' /\ AcceptedStays(a)'
<1>1. UNCHANGED <<reviews, word>> /\ Reconciles(a)
  BY DEF ApplyPolicy, Return, Reconciles, scanVars
<1>2. /\ album'[a].identity = album[a].identity
      /\ album'[a].files = album[a].files /\ album'[a].policy = policy
      /\ (Input(a)' = Input(a) /\ album[a].policy = policy) \/ ~Below(Input(a)', Input(a))
  BY ReconcileAlbums, ReconcileInputs
<1>3. CASE Input(a)' = Input(a) /\ album[a].policy = policy
  <2>1. jobs' = jobs
    BY <1>1, <1>3 DEF Reconciles, Automatic
  <2>2. \A r \in Rows : Row(a, r)' = Row(a, r)
    BY <2>1 DEF Row
  <2> QED
    BY <1>1, <1>2, <1>3, <2>2, StandsUnless
<1>4. CASE ~Below(Input(a)', Input(a))
  <2>1. word[a].about # Input(a)'
    BY <1>4 DEF Past
  <2> QED
    BY <1>1, <1>2, <2>1, StandsUnless
<1> QED
  BY <1>2, <1>3, <1>4

LEMMA VanishStands ==
    ASSUME TypeInv, NEW a \in Albums, Kept(a), AcceptedStays(a), Vanish(a)
    PROVE  Kept(a)' /\ AcceptedStays(a)'
<1>1. UNCHANGED <<jobs, word>> /\ TablesOK /\ Input(a) \in Keys
  BY InputIsKey DEF Vanish, scanVars, TypeInv
<1>2. album'[a].identity = album[a].identity /\ Input(a)' = Input(a)
  BY VanishAlbums
<1>3. reviews[a][Input(a)].state = "keep_tagged" => reviews'[a][Input(a)].state = "keep_tagged"
  <2>1. reviews'[a] = Settled(a)
    BY VanishTypes
  <2> QED
    BY <1>1, <2>1, SettledReviews
<1>4. \A r \in Rows : Row(a, r)' = Row(a, r)
  BY <1>1 DEF Row
<1> QED
  BY <1>1, <1>2, <1>3, <1>4, StandsUnless

LEMMA PeopleStand ==
    ASSUME TypeInv, NEW a \in Albums, {"otherReview", "decisionMeetsWork"} \cap Admits = {},
           NEW key \in Keys, UserStep(a, key)
    PROVE  Kept(a)' /\ AcceptedStays(a)'
<1>0. "otherReview" \notin Admits /\ "decisionMeetsWork" \notin Admits /\ TablesOK
  BY DEF TypeInv
<1>1. key = Input(a) /\ Input(a)' = Input(a)
  BY <1>0, DecisionTypes DEF Input
<1>2. CASE Keep(a, key)
  <2>1. word'[a].said = "keep"
    BY <1>0, <1>2 DEF Keep, Decides, TablesOK
  <2>2. album'[a].identity.source = "none"
    BY <1>0, <1>2, NothingBelow DEF Keep, TablesOK, AlbumRows
  <2>3. reviews'[a][key].state = "keep_tagged"
    BY <1>0, <1>2 DEF Keep, Decides, TablesOK, Reviews
  <2>4. ~HasActive(a)'
    <3>1. SUFFICES ASSUME NEW r \in Rows, Row(a, r)'.state \in Active PROVE FALSE
      BY DEF HasActive, Rows, Kinds, Keys, Policies, Active
    <3>2. Spared(a) = {}
      BY <1>0, <1>2 DEF Keep
    <3>3. Row(a, r)' = Row(a, r)
      BY <3>1, DecisionTypes DEF Active
    <3>4. r[1] \in Kinds /\ r[2] \in Keys /\ Row(a, r) = jobs[a][r[1]][r[2]] /\ Row(a, r)' = jobs'[a][r[1]][r[2]]
      BY DEF Row, Rows
    <3>5. r[1] # "automatic" \/ Row(a, r).state # "queued"
      BY <3>3, <3>4, DecisionTypes
    <3> QED
      BY <3>1, <3>2, <3>3, <3>4, <3>5 DEF Spared, Active, Kinds
  <2> QED
    BY <1>1, <2>1, <2>2, <2>3, <2>4 DEF Kept, AcceptedStays
<1>3. CASE Accept(a, key)
  <2>1. word'[a].said = "accept"
    BY <1>0, <1>3 DEF Accept, Decides, TablesOK
  <2>2. album'[a].identity.source = "manual"
    BY <1>0, <1>3 DEF Accept, TablesOK, AlbumRows
  <2> QED
    BY <2>1, <2>2 DEF Kept, AcceptedStays
<1>4. CASE Exclude(a, key) \/ Restore(a, key) \/ Dismiss(a, key)
  <2>1. word'[a].said = "other"
    BY <1>0, <1>4 DEF Exclude, Restore, Dismiss, Decides, TablesOK
  <2> QED
    BY <2>1 DEF Kept, AcceptedStays
<1> QED
  BY <1>2, <1>3, <1>4 DEF UserStep

LEMMA JobsStand ==
    ASSUME NEW a \in Albums, Kept(a), AcceptedStays(a),
           UNCHANGED <<album, reviews, word>>,
           \A r \in Rows : Row(a, r)'.state \in Active => Row(a, r).state \in Active
    PROVE  Kept(a)' /\ AcceptedStays(a)'
<1>1. Input(a)' = Input(a)
  BY DEF Input
<1> QED
  BY <1>1, StandsUnless

\* The job in hand shows that the album is not kept as tagged.
LEMMA EndStands ==
    ASSUME TypeInv, NEW a \in Albums, a = A, worker.pc # "idle", Kept(a), AcceptedStays(a),
           word' = word, Input(a)' = Input(a),
           album[a].identity.source = "manual" => album'[a].identity.source = "manual"
    PROVE  Kept(a)' /\ AcceptedStays(a)'
<1>1. HasActive(a)
  BY WorkerHands DEF TypeInv, HasActive, Mine, Active
<1> QED
  BY <1>1 DEF Kept, AcceptedStays

LEMMA InitStands == Init => StandInv
<1> SUFFICES ASSUME Init, NEW a \in Albums PROVE Kept(a) /\ AcceptedStays(a)
  BY DEF StandInv
<1>1. word[a].said = "none"
  BY DEF Init, NoWord
<1> QED
  BY <1>1 DEF Kept, AcceptedStays

\* Every step, of any album, keeps what was decided of every album.
LEMMA StandStep ==
    ASSUME TypeInv, DecisionsInv, StandInv, [Next]_vars,
           {"decisionMeetsWork", "otherReview", "policyWithdrawn"} \cap Admits = {}
    PROVE  StandInv'
<1>0. {"otherReview", "decisionMeetsWork"} \cap Admits = {}
  OBVIOUS
<1> SUFFICES ASSUME NEW b \in Albums PROVE Kept(b)' /\ AcceptedStays(b)'
  BY DEF StandInv
<1>1. Kept(b) /\ AcceptedStays(b) /\ Past(b) /\ OneDecision(b)
  BY DEF DecisionsInv, StandInv
<1>2. ASSUME album'[b] = album[b], jobs'[b] = jobs[b], reviews'[b] = reviews[b], word'[b] = word[b]
      PROVE  Kept(b)' /\ AcceptedStays(b)'
  <2>1. Input(b)' = Input(b) /\ \A r \in Rows : Row(b, r)' = Row(b, r)
    BY <1>2 DEF Input, Row
  <2> QED
    BY <1>1, <1>2, <2>1, StandsUnless
<1>3. ASSUME NEW a \in Albums, Elsewhere(a), b # a
      PROVE  Kept(b)' /\ AcceptedStays(b)'
  BY <1>2, <1>3 DEF Elsewhere
<1>4. CASE UNCHANGED vars
  BY <1>2, <1>4 DEF vars
<1>5. ASSUME NEW a \in Albums, Change(a) \/ Regroup(a) \/ Retire(a)
      PROVE  Kept(b)' /\ AcceptedStays(b)'
  BY <1>1, <1>3, <1>5, ScanTypes, ScanStands
<1>6. ASSUME NEW a \in Albums, Enqueue(a) \/ Reconsider(a) \/ Repair(a)
      PROVE  Kept(b)' /\ AcceptedStays(b)'
  BY <1>1, <1>3, <1>6, QueueTypes, QueueStands
<1>7. ASSUME NEW a \in Albums, ApplyPolicy(a) \/ Return(a)
      PROVE  Kept(b)' /\ AcceptedStays(b)'
  BY <1>1, <1>3, <1>7, ReconcileTypes, ReconcileStands
<1>8. ASSUME NEW a \in Albums, Vanish(a)
      PROVE  Kept(b)' /\ AcceptedStays(b)'
  BY <1>1, <1>3, <1>8, VanishTypes, VanishStands
<1>9. ASSUME NEW a \in Albums, NEW key \in Keys, UserStep(a, key)
      PROVE  Kept(b)' /\ AcceptedStays(b)'
  BY <1>0, <1>1, <1>3, <1>9, DecisionTypes, PeopleStand
<1>10. ASSUME NEW p \in Policies, SetPolicy(p)
       PROVE  Kept(b)' /\ AcceptedStays(b)'
  <2>1. UNCHANGED <<album, reviews, word>>
    BY <1>10, PolicyTypes
  <2>2. \A r \in Rows : Row(b, r)'.state \in Active => Row(b, r).state \in Active
    BY <1>10, PolicyTypes DEF Active
  <2> QED
    BY <1>1, <2>1, <2>2, JobsStand
<1>11. CASE JobsMove
  <2>1. \A r \in Rows : Row(b, r)'.state \in Active => Row(b, r).state \in Active
    BY <1>11 DEF JobsMove, Active
  <2> QED
    BY <1>1, <1>11, <2>1, JobsStand DEF JobsMove
<1>12. CASE Finish
  <2>1. PICK a \in Albums : a = A
    BY <1>12, WorkerHands DEF TypeInv, Finish, At
  <2>2. Elsewhere(a) /\ word' = word /\ worker.pc # "idle"
    BY <1>12, <2>1, FinishTypes DEF JobEnds
  <2>3. /\ Input(a)' = Input(a)
        /\ album[a].identity.source = "manual" => album'[a].identity.source = "manual"
    <3>1. PICK identity :
             /\ album'[a] = [album[a] EXCEPT !.identity = identity]
             /\ \/ identity = album[a].identity
                \/ /\ identity = NoIdentity
                   /\ album[a].identity.source = "automatic" /\ worker.result # "identified"
                \/ /\ identity.of = Input(a) /\ album[a].identity.source # "manual"
      BY <1>12, <2>1, FinishTypes
    <3>2. album[a] \in AlbumRows
      BY AlbumFields DEF TypeInv
    <3>3. /\ album'[a].identity = identity /\ album'[a].files = album[a].files
          /\ album'[a].policy = album[a].policy
      BY <3>1, <3>2 DEF AlbumRows
    <3> QED
      BY <3>1, <3>3 DEF Input
  <2> QED
    BY <1>1, <1>3, <2>1, <2>2, <2>3, EndStands
<1>13. CASE FailsForGood
  <2>1. PICK a \in Albums : a = A
    BY <1>13, WorkerHands DEF TypeInv, FailsForGood
  <2>2. PICK cause : FailJob(cause)
    BY <1>13 DEF FailsForGood
  <2>3. Elsewhere(a) /\ UNCHANGED <<album, word>> /\ worker.pc # "idle"
    BY <1>13, <2>1, <2>2, FailTypes DEF FailsForGood
  <2>4. Input(a)' = Input(a)
    BY <2>3 DEF Input
  <2> QED
    BY <1>1, <1>3, <2>1, <2>3, <2>4, EndStands
<1>14. CASE Next
  BY <1>5, <1>6, <1>7, <1>8, <1>9, <1>10, <1>11, <1>12, <1>13, <1>14, StepKinds
<1> QED
  BY <1>4, <1>14

\* What a user has said of an album stands: an album kept as tagged gets no external identity
\* while its input is what it was, and an accepted candidate stays until the user decides again.
\* Where the policy moves on only after scans have applied it, reviews are decided that are about
\* the album's present input, and an album is kept as tagged when no job of it is at work.
THEOREM DecisionStandsHolds ==
    ASSUME {"decisionMeetsWork", "otherReview", "policyWithdrawn"} \cap Admits = {}
    PROVE  Spec => []DecisionStands
<1> DEFINE Inv == TypeInv /\ DecisionsInv /\ StandInv
<1>1. Init => Inv
  BY InitTypes, InitDecisions, InitStands
<1>2. Inv /\ [Next]_vars => Inv'
  BY TypeStep, DecisionsStep, StandStep
<1>3. Inv => DecisionStands
  BY DEF DecisionStands, StandInv, Kept, AcceptedStays
<1> QED
  BY <1>1, <1>2, <1>3, PTL DEF Spec

-----------------------------------------------------------------------------
(* Nothing is forgotten *)

\* A review whose key has the present files is about the present files.
LEMMA PresentReview ==
    ASSUME TypeInv, NEW a \in Albums, Past(a), NEW key \in Unresolved(a), key[1] = album[a].files
    PROVE  reviews[a][key].about[1] = album[a].files
<1>1. key \in Keys
  BY DEF Unresolved
<1>2. reviews[a][key].about \in Keys
  BY <1>1, ReviewFields DEF TypeInv
<1>3. key[1] \in Nat /\ reviews[a][key].about[1] \in Nat /\ Input(a)[1] = album[a].files
  BY <1>1, <1>2, KeyParts, InputIsKey DEF TypeInv
<1>4. Below(key, reviews[a][key].about) /\ Below(reviews[a][key].about, Input(a))
  BY DEF Past
<1> QED
  BY <1>3, <1>4 DEF Below

\* ExcludedIsBarred and PolicyJobs read little; what leaves that alone keeps them.
LEMMA ExcludedStays ==
    ASSUME NEW a \in Albums, ExcludedIsBarred(a), album'[a].barred = album[a].barred,
           \A key \in Keys : reviews'[a][key].state = "excluded" => reviews[a][key].state = "excluded"
    PROVE  ExcludedIsBarred(a)'
  BY DEF ExcludedIsBarred, Keys, Policies

LEMMA PolicyJobsStay ==
    ASSUME NEW a \in Albums, PolicyJobs(a),
           \A p \in Policies :
              /\ jobs[a]["post_processing"][PolicyKey(p)].state = "absent"
                    => jobs'[a]["post_processing"][PolicyKey(p)].state = "absent"
              /\ jobs'[a]["automatic"][PolicyKey(p)].state \in Active =>
                    \/ reviews'[a][PolicyKey(p)].state = "resolved"
                    \/ /\ jobs[a]["automatic"][PolicyKey(p)].state \in Active
                       /\ reviews'[a][PolicyKey(p)] = reviews[a][PolicyKey(p)]
    PROVE  PolicyJobs(a)'
<1> SUFFICES ASSUME NEW p \in Policies
             PROVE  /\ jobs'[a]["post_processing"][PolicyKey(p)].state = "absent"
                    /\ jobs'[a]["automatic"][PolicyKey(p)].state \in Active
                          => reviews'[a][PolicyKey(p)].state = "resolved"
  BY DEF PolicyJobs, Active, Policies, PolicyKey
<1> QED
  BY DEF PolicyJobs

\* What cares for an album still does, where nothing but its jobs and other reviews changed.
LEMMA CareStays ==
    ASSUME NEW a \in Albums, Cared(a),
           album'[a].files = album[a].files, album'[a].policy = album[a].policy,
           album'[a].identity = album[a].identity, word'[a] = word[a],
           AtWork(a) => Cared(a)',
           \A key \in Unresolved(a) : reviews'[a][key] = reviews[a][key]
    PROVE  Cared(a)'
<1>1. CASE AtWork(a)
  BY <1>1
<1>2. ASSUME NEW key \in Unresolved(a),
             \/ reviews[a][key].about[1] = album[a].files
             \/ reviews[a][key].state = "keep_tagged" /\ reviews[a][key].about[2] # album[a].policy
      PROVE  Cared(a)'
  <2>1. key \in Unresolved(a)'
    BY DEF Unresolved
  <2> QED
    BY <1>2, <2>1 DEF Cared
<1>3. CASE \/ album[a].identity.source = "manual"
           \/ /\ album[a].identity.source # "none"
              /\ album[a].identity.of[1] = album[a].files \/ album[a].identity.of[2] # album[a].policy
           \/ word[a].said # "none" /\ word[a].about[1] = album[a].files
  BY <1>3 DEF Cared
<1> QED
  BY <1>1, <1>2, <1>3 DEF Cared

\* An album that nothing happens to.
LEMMA LeftAlone ==
    ASSUME NEW a \in Albums, Tended(a), UNCHANGED policy,
           album'[a] = album[a], jobs'[a] = jobs[a], reviews'[a] = reviews[a], word'[a] = word[a]
    PROVE  Tended(a)'
  BY DEF Tended, ExcludedIsBarred, PolicyJobs, Due, Cared, AtWork, Row, Unresolved, Automatic, Input

\* What each kind of step does for an album that is due.
LEMMA ScanTends ==
    ASSUME TypeInv, NEW a \in Albums, Past(a), Tended(a), Change(a) \/ Regroup(a) \/ Retire(a)
    PROVE  Tended(a)'
<1>1. /\ UNCHANGED <<jobs, reviews, word, policy>>
      /\ album'[a].identity = album[a].identity /\ album'[a].barred = album[a].barred
  BY ScanAlbums
<1>2. ExcludedIsBarred(a)' /\ PolicyJobs(a)'
  BY <1>1, ExcludedStays, PolicyJobsStay DEF Tended
<1>3. CASE ~Below(Input(a)', Input(a)) /\ album'[a].owed = TRUE
  <2>1. PICK i \in Keys : i = Input(a)'
    BY ScanTypes, NewInputIsKey
  <2>2. jobs[a]["automatic"][i].state = "absent"
    BY <1>3, <2>1, NewInputIsNew DEF Kinds
  <2>3. ~Due(a)'
    BY <1>1, <1>3, <2>1, <2>2 DEF Due
  <2> QED
    BY <1>2, <2>3 DEF Tended
<1>4. CASE Input(a)' = Input(a) /\ album'[a].files = album[a].files
  <2>1. album'[a].policy = album[a].policy
    BY <1>4 DEF Input
  <2>2. SUFFICES ASSUME Due(a)' PROVE Cared(a)'
    BY <1>2 DEF Tended
  <2>3. Due(a)
    <3>1. album'[a].where = album[a].where /\ album'[a].owed = TRUE
      <4>1. album[a].files \in Nat /\ album[a].files # album[a].files + 1
        BY InputIsKey DEF TypeInv
      <4>2. album'[a].where # "retired"
        BY <2>2 DEF Due
      <4> QED
        BY <1>4, <4>1, <4>2, ScanAlbums
    <3> QED
      BY <1>1, <1>4, <2>1, <2>2, <3>1 DEF Due, Automatic
  <2>4. Cared(a)
    BY <2>3 DEF Tended
  <2>5. AtWork(a) => AtWork(a)'
    BY <1>1, <1>4 DEF AtWork, Row, Rows, Keys, Policies, Kinds, Active
  <2> QED
    BY <1>1, <1>4, <2>1, <2>4, <2>5, CareStays DEF Cared
<1> QED
  BY <1>3, <1>4, ScanInputs

LEMMA QueueTends ==
    ASSUME TypeInv, NEW a \in Albums, Past(a), OneDecision(a), Tended(a),
           Enqueue(a) \/ Reconsider(a) \/ Repair(a)
    PROVE  Tended(a)'
<1>0. TablesOK /\ TypeInv'
  BY QueueTypes DEF TypeInv
<1>1. /\ UNCHANGED <<word, policy>> /\ Input(a)' = Input(a)
      /\ album'[a].identity = album[a].identity /\ album'[a].files = album[a].files
      /\ album'[a].policy = album[a].policy /\ album'[a].barred = album[a].barred
      /\ album'[a].where = album[a].where
      /\ album'[a].owed = album[a].owed \/ Enqueue(a)
  BY QueueAlbums
<1>2. PICK i \in Keys : /\ i = Input(a) /\ i = Input(a)' /\ i[1] = album[a].files
                      /\ \A p \in Policies : PolicyKey(p) # i
  BY <1>0, <1>1, InputIsKey, NothingBelow
<1>3. CASE UNCHANGED <<jobs, reviews>>
  <2>1. ExcludedIsBarred(a)' /\ PolicyJobs(a)'
    BY <1>1, <1>3, ExcludedStays, PolicyJobsStay DEF Tended
  <2>2. Cared(a) => Cared(a)'
    <3>1. AtWork(a) => AtWork(a)'
      BY <1>1, <1>3 DEF AtWork, Row, Rows, Keys, Policies, Kinds, Active
    <3> QED
      BY <1>1, <1>3, <3>1, CareStays DEF Cared
  <2>3. ASSUME Due(a)' PROVE Cared(a)'
    <3>1. /\ album[a].where # "retired" /\ ~album[a].barred /\ Automatic(a)
          /\ Effective[policy] = "automatic"
      BY <1>1, <2>3 DEF Due, Automatic
    <3>2. CASE Due(a)
      BY <2>2, <3>2 DEF Tended
    <3>3. CASE ~Due(a)
      <4>1. Enqueue(a)
        BY <1>1, <1>2, <1>3, <2>3, <3>1, <3>3 DEF Due
      <4>2. EnqueueJob(a, "automatic")
        BY <3>1, <4>1 DEF Enqueue
      <4>3. PICK effect \in {1, 2} :
               \/ /\ effect = 1
                  /\ \E k \in Decided(a) : Refuses(reviews[a][k], k, Input(a))
               \/ /\ effect = 2
                  /\ \E available \in BOOLEAN :
                     \E rows \in Enqueued(jobs[a]["automatic"], Input(a), available) :
                        jobs' = [jobs EXCEPT ![a]["automatic"] = rows]
        BY <1>0, <4>2, EnqueueJobEffect DEF Kinds
      <4>4. CASE \E k \in Decided(a) : Refuses(reviews[a][k], k, Input(a))
        <5>1. PICK k \in Decided(a) : Refuses(reviews[a][k], k, Input(a))
          BY <4>4
        <5>2. reviews[a][k].state # "excluded"
          BY <3>1 DEF Decided, Tended, ExcludedIsBarred
        <5>3. k = i /\ k \in Unresolved(a)
          BY <1>2, <5>1, <5>2 DEF Refuses, Decided, Unresolved
        <5>4. reviews[a][k].about[1] = album[a].files
          BY <1>2, <5>3, PresentReview
        <5>5. Cared(a)
          BY <5>3, <5>4 DEF Cared
        <5> QED
          BY <2>2, <5>5
      <4>5. ASSUME NEW available \in BOOLEAN,
                   NEW rows \in Enqueued(jobs[a]["automatic"], i, available),
                   jobs' = [jobs EXCEPT ![a]["automatic"] = rows]
            PROVE  Cared(a)'
        <5>1. jobs[a]["automatic"] \in [Keys -> JobRows]
          BY <1>0 DEF TablesOK, Kinds
        <5>2. rows[i].state \in {"queued", "running", "failed", "ended"}
          BY <4>5, <5>1, EnqueuedRows
        <5>3. jobs'[a]["automatic"][i] = rows[i]
          BY <1>0, <4>5 DEF TablesOK, Kinds
        <5>4. jobs'[a]["automatic"][i].state \notin {"failed", "ended"}
          BY <1>2, <1>3, <3>1, <3>3 DEF Due
        <5>5. jobs'[a]["automatic"][i].state \in Active
          BY <5>2, <5>3, <5>4 DEF Active
        <5>6. AtWork(a)'
          <6>1. <<"automatic", i>> \in Rows
            BY DEF Rows, Kinds
          <6> QED
            BY <1>1, <1>2, <5>5, <6>1 DEF AtWork, Row, Rows, Keys, Policies, Kinds, Active
        <5> QED
          BY <5>6 DEF Cared
      <4> QED
        BY <1>2, <4>3, <4>4, <4>5
    <3> QED
      BY <3>2, <3>3
  <2> QED
    BY <2>1, <2>3 DEF Tended
<1>4. CASE ~UNCHANGED <<jobs, reviews>>
  <2>1. PICK kind \in Kinds : EnqueueJob(a, kind)
    BY <1>4 DEF Enqueue, Reconsider, Repair, Kinds
  <2>2. PICK available \in BOOLEAN :
           \E rows \in Enqueued(jobs[a][kind], Input(a), available) :
              /\ jobs' = [jobs EXCEPT ![a][kind] = rows]
              /\ \/ Decided(a) = {} /\ UNCHANGED reviews
                 \/ \E k \in Decided(a) :
                       /\ k # Input(a) /\ reviews[a][k].state # "excluded"
                       /\ reviews' = [reviews EXCEPT ![a][k] = Resolved]
    BY <1>0, <1>4, <2>1, EnqueueJobEffect
  <2>3. PICK rows \in Enqueued(jobs[a][kind], i, available) :
              /\ jobs' = [jobs EXCEPT ![a][kind] = rows]
              /\ \/ Decided(a) = {} /\ UNCHANGED reviews
                 \/ \E k \in Decided(a) :
                       /\ k # Input(a) /\ reviews[a][k].state # "excluded"
                       /\ reviews' = [reviews EXCEPT ![a][k] = Resolved]
    BY <1>2, <2>2
  <2>4. jobs[a][kind] \in [Keys -> JobRows]
    BY <1>0 DEF TablesOK
  <2>5. /\ \A k \in Keys \ {i} : rows[k] = jobs[a][kind][k] \/ rows[k] = Absent
        /\ rows[i].state = "queued" \/ (jobs[a][kind][i].state # "absent" /\ rows = jobs[a][kind])
    BY <2>4, EnqueuedRows
  <2>6. \A l \in Kinds, k \in Keys : jobs'[a][l][k] = IF l = kind THEN rows[k] ELSE jobs[a][l][k]
    BY <1>0, <2>3 DEF TablesOK
  <2>7. \A key \in Keys : reviews'[a][key] = reviews[a][key] \/ reviews'[a][key] = Resolved
    BY <1>0, <2>3 DEF TablesOK, Decided
  <2>8. rows[i].state = "queued"
    <3>1. SUFFICES ASSUME jobs[a][kind][i].state # "absent", rows = jobs[a][kind] PROVE FALSE
      BY <2>5
    <3>2. jobs' = jobs
      BY <1>0, <2>3, <3>1 DEF TablesOK
    <3>3. UNCHANGED reviews
      BY <1>2, <2>3, <3>1 DEF OneDecision
    <3> QED
      BY <1>4, <3>2, <3>3
  <2>9. Cared(a)'
    <3>1. <<kind, i>> \in Rows /\ jobs'[a][kind][i].state = "queued"
      BY <2>6, <2>8 DEF Rows
    <3>2. AtWork(a)'
      BY <1>1, <1>2, <3>1 DEF AtWork, Row, Rows, Keys, Policies, Kinds, Active
    <3> QED
      BY <3>2 DEF Cared
  <2>10. ExcludedIsBarred(a)'
    BY <1>1, <2>7, ExcludedStays DEF Tended, Resolved
  <2>11. PolicyJobs(a)'
    <3>1. ASSUME NEW p \in Policies, NEW l \in Kinds
          PROVE  \/ jobs'[a][l][PolicyKey(p)] = jobs[a][l][PolicyKey(p)]
                 \/ jobs'[a][l][PolicyKey(p)] = Absent
      <4>1. PolicyKey(p) \in Keys /\ PolicyKey(p) # i
        BY <1>2, KeysAreKeys
      <4> QED
        BY <2>5, <2>6, <4>1
    <3>2. \A p \in Policies : /\ reviews'[a][PolicyKey(p)] = reviews[a][PolicyKey(p)]
                                 \/ reviews'[a][PolicyKey(p)].state = "resolved"
      BY <2>7, KeysAreKeys DEF Resolved
    <3> QED
      BY <3>1, <3>2, PolicyJobsStay DEF Tended, Absent, Active, Kinds
  <2> QED
    BY <2>9, <2>10, <2>11 DEF Tended
<1> QED
  BY <1>3, <1>4

LEMMA ReconcileTends ==
    ASSUME TypeInv, NEW a \in Albums, Past(a), Tended(a), ApplyPolicy(a) \/ Return(a)
    PROVE  Tended(a)'
<1>0. TablesOK /\ TypeInv' /\ policy \in Policies /\ Reconciles(a)
  BY ReconcileTypes DEF TypeInv, RestOK, ApplyPolicy, Return
<1>1. /\ UNCHANGED <<reviews, word, policy>>
      /\ album'[a].identity = album[a].identity /\ album'[a].files = album[a].files
      /\ album'[a].policy = policy /\ album'[a].barred = album[a].barred
      /\ album'[a].owed = album[a].owed /\ album[a].where # "retired"
  BY ReconcileAlbums
<1>2. ExcludedIsBarred(a)'
  BY <1>1, ExcludedStays DEF Tended
<1>3. CASE Input(a)' = Input(a) /\ album[a].policy = policy
  <2>1. jobs' = jobs
    BY <1>0, <1>3 DEF Reconciles, Automatic
  <2>2. PolicyJobs(a)'
    BY <1>1, <2>1, PolicyJobsStay DEF Tended
  <2>3. AtWork(a) => AtWork(a)'
    BY <1>1, <2>1 DEF AtWork, Row, Rows, Keys, Policies, Kinds, Active
  <2>4. Due(a)' => Due(a)
    BY <1>1, <1>3, <2>1 DEF Due, Automatic
  <2>5. Cared(a) => Cared(a)'
    BY <1>1, <1>3, <2>3, CareStays DEF Cared
  <2> QED
    BY <1>2, <2>2, <2>4, <2>5 DEF Tended
<1>4. CASE ~Below(Input(a)', Input(a))
  <2>1. album[a].policy < policy /\ policy \in Nat /\ album[a].policy \in Nat /\ album[a].files \in Nat
        /\ Input(a)[2] = album[a].policy /\ album[a].policy \in Policies
    <3>1. /\ album[a].policy <= policy /\ policy \in Nat /\ album[a].policy \in Nat
          /\ album[a].files \in Nat /\ album[a].policy \in Policies
      BY <1>0, KeysAreKeys, InputIsKey, AlbumFields DEF Past
    <3>2. album[a].policy # policy
      BY <1>1, <1>4, <3>1 DEF Input, Below
    <3> QED
      BY <3>1, <3>2 DEF Input
  <2>2. PICK r0 \in Rows : r0 = <<"automatic", PolicyKey(policy)>>
    BY <1>0, KeysAreKeys DEF Rows, Kinds
  <2>3. \A r \in Rows : \/ Row(a, r)' = Row(a, r)
                        \/ r = r0 /\ Row(a, r).state \notin Active /\ Row(a, r)' = NewJob
    BY <2>2, ReconcileTypes
  <2>4. reviews[a][PolicyKey(policy)].state = "resolved"
    <3>1. PICK k \in Keys : k = PolicyKey(policy)
      BY <1>0, KeysAreKeys
    <3>2. ~Below(k, Input(a))
      BY <2>1, <3>1 DEF Below, PolicyKey
    <3> QED
      BY <3>1, <3>2, NewInputIsNew
  <2>5. PolicyJobs(a)'
    <3>1. ASSUME NEW p \in Policies, NEW kind \in Kinds
          PROVE  \/ jobs'[a][kind][PolicyKey(p)] = jobs[a][kind][PolicyKey(p)]
                 \/ kind = "automatic" /\ PolicyKey(p) = PolicyKey(policy)
      <4>1. PICK r \in Rows : r = <<kind, PolicyKey(p)>>
        BY KeysAreKeys DEF Rows
      <4>2. Row(a, r)' = Row(a, r) \/ r = r0
        BY <2>3
      <4> QED
        BY <2>2, <4>1, <4>2 DEF Row
    <3> QED
      BY <1>1, <2>4, <3>1, PolicyJobsStay DEF Tended, Kinds
  <2>6. ASSUME Due(a)' PROVE Cared(a)'
    <3>1. /\ ~album[a].barred /\ Effective[policy] = "automatic" /\ album[a].where # "retired"
      BY <1>1, <2>6 DEF Due
    <3>2. CASE Row(a, r0)'.state \in Active
      <4>1. r0[2][1] = 0
        BY <2>2 DEF PolicyKey
      <4>2. AtWork(a)'
        BY <3>2, <4>1 DEF AtWork, Row, Rows, Keys, Policies, Kinds, Active
      <4> QED
        BY <4>2 DEF Cared
    <3>3. CASE Row(a, r0)'.state \notin Active
      <4>1. UNCHANGED jobs /\ (Automatic(a) \/ Protected(a))
        <5>1. /\ jobs[a]["automatic"][PolicyKey(policy)] = Row(a, r0)
              /\ jobs'[a]["automatic"][PolicyKey(policy)] = Row(a, r0)'
          BY <2>2 DEF Row
        <5>2. jobs' # [jobs EXCEPT ![a]["automatic"][PolicyKey(policy)] = NewJob]
          <6>1. PICK k \in Keys : k = PolicyKey(policy)
            BY <1>0, KeysAreKeys
          <6>2. [jobs EXCEPT ![a]["automatic"][k] = NewJob][a]["automatic"][k] = NewJob
            BY <1>0, <6>1 DEF TablesOK, Kinds
          <6> QED
            BY <3>3, <5>1, <6>1, <6>2, RowsAreTyped DEF Active
        <5>3. Row(a, r0)'.state = Row(a, r0).state
          BY <2>3, <3>3, RowsAreTyped DEF Active
        <5> QED
          BY <1>0, <3>1, <3>3, <5>1, <5>2, <5>3 DEF Reconciles
      <4>2. \A k \in Keys : Below(k, Input(a)) => k[2] # policy
        BY <2>1, KeyParts DEF Below
      <4>3. album[a].identity.of[2] # policy
        BY <1>0, <4>2, AlbumFields DEF Past
      <4>4. \A key \in Unresolved(a) : reviews[a][key].about[2] # policy
        <5>1. TAKE key \in Unresolved(a)
        <5>2. key \in Keys
          BY DEF Unresolved
        <5>3. reviews[a][key].about \in Keys /\ Below(reviews[a][key].about, Input(a))
          BY <1>0, <5>2, ReviewFields DEF Past
        <5> QED
          BY <4>2, <5>3
      <4>5. CASE Protected(a)
        <5>1. CASE album[a].identity.source # "none"
          BY <1>1, <4>3, <5>1 DEF Cared
        <5>2. ASSUME NEW key \in Keys, reviews[a][key].state = "keep_tagged" PROVE Cared(a)'
          <6>1. key \in Unresolved(a) /\ key \in Unresolved(a)'
            BY <1>1, <5>2 DEF Unresolved
          <6> QED
            BY <1>1, <4>4, <5>2, <6>1 DEF Cared
        <5> QED
          BY <4>5, <5>1, <5>2 DEF Protected
      <4>6. CASE Automatic(a)
        <5>1. jobs[a]["automatic"][Input(a)'].state = "absent"
          <6>1. PICK i \in Keys : i = Input(a)'
            BY <1>0, NewInputIsKey
          <6> QED
            BY <1>4, <6>1, NewInputIsNew DEF Kinds
        <5>2. ~album[a].owed
          BY <1>1, <2>6, <4>1, <5>1 DEF Due
        <5>3. Cared(a)
          BY <3>1, <4>6, <5>2 DEF Due, Tended
        <5>4. CASE AtWork(a)
          <6>1. AtWork(a)'
            BY <1>1, <4>1, <5>4 DEF AtWork, Row, Rows, Keys, Policies, Kinds, Active
          <6> QED
            BY <6>1 DEF Cared
        <5>5. ASSUME NEW key \in Unresolved(a),
                     \/ reviews[a][key].about[1] = album[a].files
                     \/ reviews[a][key].state = "keep_tagged"
              PROVE  Cared(a)'
          <6>1. key \in Unresolved(a)'
            BY <1>1 DEF Unresolved
          <6> QED
            BY <1>1, <4>4, <5>5, <6>1 DEF Cared
        <5>6. CASE \/ album[a].identity.source # "none"
                   \/ word[a].said # "none" /\ word[a].about[1] = album[a].files
          BY <1>1, <4>3, <5>6 DEF Cared
        <5>7. CASE album[a].identity.source = "manual"
          BY <1>1, <5>7 DEF Cared
        <5> QED
          BY <5>3, <5>4, <5>5, <5>6, <5>7 DEF Cared
      <4> QED
        BY <4>1, <4>5, <4>6
    <3> QED
      BY <3>2, <3>3
  <2> QED
    BY <1>2, <2>5, <2>6 DEF Tended
<1> QED
  BY <1>3, <1>4, ReconcileInputs

LEMMA VanishTends ==
    ASSUME TypeInv, NEW a \in Albums, Tended(a), "reviewOfMissing" \notin Admits, Vanish(a)
    PROVE  Tended(a)'
<1>1. /\ UNCHANGED <<jobs, word, policy>> /\ Input(a)' = Input(a)
      /\ album'[a].identity = album[a].identity /\ album'[a].files = album[a].files
      /\ album'[a].policy = album[a].policy /\ album'[a].barred = album[a].barred
      /\ album'[a].owed = album[a].owed /\ album[a].where # "retired"
  BY VanishAlbums
<1>2. reviews'[a] = reviews[a]
  BY VanishTypes DEF Vanish
<1>3. ExcludedIsBarred(a)' /\ PolicyJobs(a)'
  BY <1>1, <1>2, ExcludedStays, PolicyJobsStay DEF Tended
<1>4. Due(a)' => Due(a)
  BY <1>1 DEF Due, Automatic
<1>5. AtWork(a) => AtWork(a)'
  BY <1>1 DEF AtWork, Row, Rows, Keys, Policies, Kinds, Active
<1>6. Cared(a) => Cared(a)'
  BY <1>1, <1>2, <1>5, CareStays DEF Cared
<1> QED
  BY <1>3, <1>4, <1>6 DEF Tended

LEMMA PeopleTend ==
    ASSUME TypeInv, NEW a \in Albums, Past(a), OneDecision(a), Tended(a), "otherReview" \notin Admits,
           NEW key \in Keys, UserStep(a, key)
    PROVE  Tended(a)'
<1>0. TablesOK /\ key \in Unresolved(a) /\ key = Input(a) /\ key[1] = album[a].files
  BY DecisionTypes, InputIsKey DEF TypeInv
<1>1. /\ word'[a].about = reviews[a][key].about /\ word'[a].said # "none"
      /\ album'[a].files = album[a].files
      /\ \A k \in Keys \ {key} : reviews'[a][k] = reviews[a][k]
      /\ \A r \in Rows : \/ Row(a, r)' = Row(a, r)
                         \/ Row(a, r).state \in {"queued", "failed"} /\ Row(a, r)'.state = "ended"
  BY DecisionTypes
<1>2. Cared(a)'
  BY <1>0, <1>1, PresentReview DEF Cared
<1>3. PolicyJobs(a)'
  <2>1. ASSUME NEW p \in Policies, NEW kind \in Kinds
        PROVE  /\ reviews'[a][PolicyKey(p)] = reviews[a][PolicyKey(p)]
               /\ \/ jobs'[a][kind][PolicyKey(p)] = jobs[a][kind][PolicyKey(p)]
                  \/ /\ jobs[a][kind][PolicyKey(p)].state \in {"queued", "failed"}
                     /\ jobs'[a][kind][PolicyKey(p)].state = "ended"
    <3>1. PolicyKey(p) \in Keys \ {key}
      BY <1>0, KeysAreKeys, NothingBelow
    <3>2. PICK r \in Rows : r = <<kind, PolicyKey(p)>>
      BY <3>1 DEF Rows
    <3> QED
      BY <1>1, <3>1, <3>2 DEF Row
  <2> QED
    BY <2>1, PolicyJobsStay DEF Tended, Kinds, Active
<1>4. ExcludedIsBarred(a)'
  <2>1. CASE Exclude(a, key)
    <3>1. album'[a].barred
      BY <1>0, <2>1 DEF Exclude, TablesOK, AlbumRows
    <3> QED
      BY <3>1 DEF ExcludedIsBarred
  <2>2. CASE Restore(a, key)
    <3>1. Decided(a) = {key} /\ reviews'[a][key].state = "resolved"
      BY <1>0, <2>2 DEF Restore, Decides, Decided, OneDecision, TablesOK, Resolved
    <3>2. \A k \in Keys : reviews'[a][k].state # "excluded"
      BY <1>1, <3>1 DEF Decided
    <3> QED
      BY <3>2 DEF ExcludedIsBarred, Keys, Policies
  <2>3. CASE Keep(a, key) \/ Dismiss(a, key) \/ Accept(a, key)
    <3>1. album'[a].barred = album[a].barred
      BY <1>0, <2>3 DEF Keep, Dismiss, Accept, TablesOK, AlbumRows
    <3>2. reviews'[a][key].state # "excluded"
      <4>1. CASE Keep(a, key)
        BY <1>0, <4>1 DEF Keep, Decides, TablesOK, Reviews
      <4>2. CASE Dismiss(a, key) \/ Accept(a, key)
        BY <1>0, <4>2 DEF Dismiss, Accept, Decides, TablesOK, Resolved
      <4> QED
        BY <2>3, <4>1, <4>2
    <3>3. \A k \in Keys : reviews'[a][k].state = "excluded" => reviews[a][k].state = "excluded"
      BY <1>1, <3>2
    <3> QED
      BY <3>1, <3>3, ExcludedStays DEF Tended
  <2> QED
    BY <2>1, <2>2, <2>3 DEF UserStep
<1> QED
  BY <1>2, <1>3, <1>4 DEF Tended

LEMMA PolicyTends ==
    ASSUME TypeInv, NEW a \in Albums, Tended(a), "policyWithdrawn" \notin Admits,
           NEW p \in Policies, SetPolicy(p)
    PROVE  Tended(a)'
<1>0. TablesOK /\ policy' = p /\ UNCHANGED <<album, reviews, word>> /\ PolicyApplied
      /\ (Effective[p] = "automatic" => UNCHANGED jobs)
      /\ \A r \in Rows : \/ Row(a, r)' = Row(a, r)
                         \/ Row(a, r).state = "queued" /\ Row(a, r)'.state = "ended"
  BY PolicyTypes DEF TypeInv
<1>1. ExcludedIsBarred(a)'
  BY <1>0, ExcludedStays DEF Tended
<1>2. PolicyJobs(a)'
  <2>1. ASSUME NEW q \in Policies, NEW kind \in Kinds
        PROVE  \/ jobs'[a][kind][PolicyKey(q)] = jobs[a][kind][PolicyKey(q)]
               \/ /\ jobs[a][kind][PolicyKey(q)].state = "queued"
                  /\ jobs'[a][kind][PolicyKey(q)].state = "ended"
    <3>1. PICK r \in Rows : r = <<kind, PolicyKey(q)>>
      BY KeysAreKeys DEF Rows
    <3> QED
      BY <1>0, <3>1 DEF Row
  <2> QED
    BY <1>0, <2>1, PolicyJobsStay DEF Tended, Kinds, Active
<1>3. ASSUME Due(a)' PROVE Cared(a)'
  <2>1. Effective[p] = "automatic" /\ UNCHANGED jobs
    BY <1>0, <1>3 DEF Due
  <2>2. album[a].policy = policy
    BY <1>0, <1>3 DEF Due, PolicyApplied
  <2>3. Due(a)
    BY <1>0, <1>3, <2>1, <2>2 DEF Due, Automatic, Input
  <2>4. AtWork(a) => AtWork(a)'
    BY <1>0, <2>1 DEF AtWork, Row, Rows, Keys, Policies, Kinds, Active
  <2> QED
    BY <1>0, <2>3, <2>4, CareStays DEF Tended, Cared
<1> QED
  BY <1>1, <1>2, <1>3 DEF Tended

LEMMA JobsTend ==
    ASSUME TypeInv, NEW a \in Albums, Tended(a), "graceRunsOut" \notin Admits, JobsMove
    PROVE  Tended(a)'
<1>0. UNCHANGED <<album, reviews, word, policy>> /\ TablesOK
  BY DEF TypeInv, JobsMove
<1>1. \A r \in Rows :
         \/ Row(a, r)' = Row(a, r)
         \/ Row(a, r).state \in Active /\ Row(a, r)'.state \in Active
         \/ /\ Row(a, r).state = "queued" /\ Row(a, r)'.state = "ended"
            /\ album[a].where = "retired" \/ album[a].barred
  BY DEF JobsMove
<1>2. ExcludedIsBarred(a)'
  BY <1>0, ExcludedStays DEF Tended
<1>3. PolicyJobs(a)'
  <2>1. ASSUME NEW q \in Policies, NEW kind \in Kinds
        PROVE  \/ jobs'[a][kind][PolicyKey(q)] = jobs[a][kind][PolicyKey(q)]
               \/ /\ jobs[a][kind][PolicyKey(q)].state \in Active
                  /\ jobs'[a][kind][PolicyKey(q)].state \in {"queued", "running", "ended"}
    <3>1. PICK r \in Rows : r = <<kind, PolicyKey(q)>>
      BY KeysAreKeys DEF Rows
    <3> QED
      BY <1>1, <3>1 DEF Row, Active
  <2> QED
    BY <1>0, <2>1, PolicyJobsStay DEF Tended, Kinds, Active
<1>4. ASSUME Due(a)' PROVE Cared(a)'
  <2>1. album[a].where # "retired" /\ ~album[a].barred
    BY <1>0, <1>4 DEF Due
  <2>2. \A r \in Rows : \/ Row(a, r)' = Row(a, r)
                        \/ Row(a, r).state \in Active /\ Row(a, r)'.state \in Active
    BY <1>1, <2>1
  <2>3. Due(a)
    <3>1. PICK i \in Keys : i = Input(a) /\ i = Input(a)'
      BY <1>0, InputIsKey DEF Input
    <3>2. PICK r \in Rows : r = <<"automatic", i>>
      BY DEF Rows, Kinds
    <3>3. jobs'[a]["automatic"][i].state \in {"failed", "ended"}
             => jobs[a]["automatic"][i].state \in {"failed", "ended"}
      BY <2>2, <3>2 DEF Row, Active
    <3> QED
      BY <1>0, <1>4, <3>1, <3>3 DEF Due, Automatic
  <2>4. AtWork(a) => AtWork(a)'
    BY <1>0, <2>2 DEF AtWork, Rows, Keys, Policies, Kinds, Active
  <2> QED
    BY <1>0, <2>3, <2>4, CareStays DEF Tended, Cared
<1> QED
  BY <1>2, <1>3, <1>4 DEF Tended

\* A policy's job that runs has no review yet, and ends when it has one.
LEMMA EndPolicyJobs ==
    ASSUME TypeInv, NEW a \in Albums, a = A, worker.pc # "idle", PolicyJobs(a), JobEnds(a),
           \A key \in Keys \ {worker.key} :
              reviews'[a][key] = reviews[a][key] \/ reviews'[a][key].state = "resolved"
    PROVE  PolicyJobs(a)'
<1>1. /\ R \in Rows /\ R = <<worker.kind, worker.key>> /\ worker.key \in Keys /\ worker.kind \in Kinds
      /\ jobs[a][worker.kind][worker.key].state = "running"
      /\ jobs'[a][worker.kind][worker.key].state \in {"failed", "ended"}
  BY WorkerHands DEF TypeInv, R, Mine, JobEnds
<1>2. ASSUME NEW p \in Policies, NEW kind \in Kinds, ~(kind = worker.kind /\ PolicyKey(p) = worker.key)
      PROVE  jobs'[a][kind][PolicyKey(p)] = jobs[a][kind][PolicyKey(p)]
  <2>1. PICK r \in Rows : r = <<kind, PolicyKey(p)>>
    BY KeysAreKeys DEF Rows
  <2>2. r # R
    BY <1>1, <1>2, <2>1
  <2> QED
    BY <2>1, <2>2 DEF Row, JobEnds
<1>3. ASSUME NEW p \in Policies
      PROVE  /\ jobs'[a]["post_processing"][PolicyKey(p)].state = "absent"
             /\ jobs'[a]["automatic"][PolicyKey(p)].state \in Active
                   => reviews'[a][PolicyKey(p)].state = "resolved"
  <2>1. /\ jobs[a]["post_processing"][PolicyKey(p)].state = "absent"
        /\ jobs[a]["automatic"][PolicyKey(p)].state \in Active
              => reviews[a][PolicyKey(p)].state = "resolved"
    BY DEF PolicyJobs
  <2>2. CASE PolicyKey(p) = worker.key
    <3>1. worker.kind = "automatic"
      BY <1>1, <2>1, <2>2 DEF Kinds
    <3>2. jobs'[a]["automatic"][PolicyKey(p)].state \notin Active
      BY <1>1, <2>2, <3>1 DEF Active
    <3> QED
      BY <1>2, <2>1, <3>1, <3>2 DEF Kinds
  <2>3. CASE PolicyKey(p) # worker.key
    <3>1. reviews'[a][PolicyKey(p)] = reviews[a][PolicyKey(p)]
             \/ reviews'[a][PolicyKey(p)].state = "resolved"
      BY <2>3, KeysAreKeys
    <3> QED
      BY <1>2, <2>1, <2>3, <3>1 DEF Kinds
  <2> QED
    BY <2>2, <2>3
<1> QED
  BY <1>3 DEF PolicyJobs, Policies, PolicyKey, Active

LEMMA FinishTends ==
    ASSUME TypeInv, NEW a \in Albums, a = A, Past(a), Tended(a), OutcomeHasSource, Finish
    PROVE  Tended(a)'
<1>0. /\ TypeInv' /\ TablesOK /\ JobEnds(a) /\ worker.pc = "finishing" /\ Input(a) = worker.input
      /\ worker.source # "none"
  BY FinishTypes DEF TypeInv, Finish, At, OutcomeHasSource
<1>1. /\ \E identity : album'[a] = [album[a] EXCEPT !.identity = identity]
      /\ \/ /\ worker.result = "identified" /\ reviews'[a] = Settled(a)
            /\ album'[a].identity.source = "manual" \/ album'[a].identity.of = Input(a)
            /\ album'[a].identity.source # "none"
         \/ /\ worker.result # "identified"
            /\ \A k \in Keys \ {worker.key} : reviews'[a][k] = reviews[a][k]
            /\ reviews'[a][worker.key] = Reviewed(reviews[a][worker.key], Input(a), worker.seen, TRUE)
  <2>1. \E identity : album'[a] = [album[a] EXCEPT !.identity = identity]
    <3>1. PICK identity :
             /\ album'[a] = [album[a] EXCEPT !.identity = identity]
             /\ \/ identity = album[a].identity
                \/ /\ identity = NoIdentity
                   /\ album[a].identity.source = "automatic" /\ worker.result # "identified"
                \/ /\ identity.of = Input(a) /\ album[a].identity.source # "manual"
      BY FinishTypes
    <3> QED
      BY <3>1
  <2> QED
    BY <1>0, <2>1, FinishTypes
<1>2. /\ album'[a].files = album[a].files /\ album'[a].barred = album[a].barred
      /\ Input(a)[1] = album[a].files /\ worker.key \in Keys
  BY <1>0, <1>1, AlbumFields, InputIsKey, HandIsPast DEF AlbumRows
<1>3. Settled(a) = reviews'[a] => \A key \in Keys : \/ reviews'[a][key] = reviews[a][key]
                                                \/ reviews'[a][key] = Resolved
  BY <1>0, SettledReviews
<1>4. /\ \A key \in Keys \ {worker.key} : reviews'[a][key] = reviews[a][key] \/ reviews'[a][key] = Resolved
      /\ \A key \in Keys : reviews'[a][key].state = "excluded" => reviews[a][key].state = "excluded"
  <2>1. CASE reviews'[a] = Settled(a)
    <3>1. \A key \in Keys : reviews'[a][key] = reviews[a][key] \/ reviews'[a][key] = Resolved
      BY <1>3, <2>1
    <3>2. Resolved.state = "resolved"
      BY DEF Resolved
    <3> QED
      BY <3>1, <3>2
  <2>2. CASE /\ \A k \in Keys \ {worker.key} : reviews'[a][k] = reviews[a][k]
             /\ reviews'[a][worker.key] = Reviewed(reviews[a][worker.key], Input(a), worker.seen, TRUE)
    <3>1. reviews'[a][worker.key].state = "excluded" => reviews[a][worker.key].state = "excluded"
      BY <2>2 DEF Reviewed
    <3> QED
      BY <2>2, <3>1
  <2> QED
    BY <1>1, <2>1, <2>2
<1>5. ExcludedIsBarred(a)'
  BY <1>2, <1>4, ExcludedStays DEF Tended
<1>6. PolicyJobs(a)'
  BY <1>0, <1>4, EndPolicyJobs DEF Tended, Resolved
<1>7. Cared(a)'
  <2>1. CASE /\ album'[a].identity.source = "manual" \/ album'[a].identity.of = Input(a)
             /\ album'[a].identity.source # "none"
    BY <1>2, <2>1 DEF Cared
  <2>2. CASE reviews'[a][worker.key] = Reviewed(reviews[a][worker.key], Input(a), worker.seen, TRUE)
    <3>1. reviews'[a][worker.key].state # "resolved" /\ reviews'[a][worker.key].about[1] = album'[a].files
      BY <1>2, <2>2 DEF Reviewed
    <3>2. worker.key \in Unresolved(a)'
      BY <1>2, <3>1 DEF Unresolved
    <3> QED
      BY <3>1, <3>2 DEF Cared
  <2> QED
    BY <1>1, <2>1, <2>2
<1> QED
  BY <1>5, <1>6, <1>7 DEF Tended

LEMMA FailTends ==
    ASSUME TypeInv, NEW a \in Albums, a = A, Past(a), Tended(a), FailsForGood
    PROVE  Tended(a)'
<1>1. PICK cause : FailJob(cause)
  BY DEF FailsForGood
<1>2. /\ worker.pc # "idle" /\ worker' = Idle /\ UNCHANGED <<album, word, policy, paused, breaker, left>>
      /\ TablesOK
  BY DEF FailsForGood, TypeInv
<1>3. /\ TypeInv' /\ Elsewhere(a) /\ JobEnds(a)
      /\ \A k \in Keys \ {worker.key} : reviews'[a][k] = reviews[a][k]
      /\ \/ worker.key \in Unresolved(a) /\ UNCHANGED reviews
         \/ /\ worker.key \notin Unresolved(a)
            /\ reviews'[a][worker.key] =
                  [state |-> "needs_review", attempted |-> FALSE, seen |-> NoIdentity,
                   about |-> IF worker.key[1] = 0 THEN Input(a) ELSE worker.key]
  BY <1>1, <1>2, FailTypes
<1>4. PICK i \in Keys : i = Input(a) /\ i = Input(a)' /\ i[1] = album[a].files /\ i[1] # 0
  <2>1. /\ Input(a) \in Keys /\ Input(a)[1] = album[a].files
        /\ album[a].files \in Nat /\ album[a].files > 0
    BY <1>2, InputIsKey
  <2>2. Input(a)' = Input(a)
    BY <1>2 DEF Input
  <2> QED
    BY <2>1, <2>2
<1>5. /\ worker.key \in Keys /\ worker.kind \in Kinds /\ R = <<worker.kind, worker.key>> /\ R \in Rows
      /\ jobs[a][worker.kind][worker.key].state = "running"
  BY <1>2, HandIsPast, WorkerHands DEF R, TypeInv
<1>6. ExcludedIsBarred(a)'
  <2>1. \A key \in Keys : reviews'[a][key].state = "excluded" => reviews[a][key].state = "excluded"
    BY <1>3
  <2> QED
    BY <1>2, <2>1, ExcludedStays DEF Tended
<1>7. PolicyJobs(a)'
  BY <1>2, <1>3, EndPolicyJobs DEF Tended
<1>8. CASE worker.key[1] \in {0, album[a].files}
  <2>1. CASE worker.key \notin Unresolved(a)
    <3>1. /\ reviews'[a][worker.key].state # "resolved"
          /\ reviews'[a][worker.key].about = IF worker.key[1] = 0 THEN i ELSE worker.key
      BY <1>3, <1>4, <2>1
    <3>2. reviews'[a][worker.key].about[1] = album'[a].files
      BY <1>2, <1>4, <1>8, <3>1
    <3>3. worker.key \in Unresolved(a)'
      BY <1>5, <3>1 DEF Unresolved
    <3> QED
      BY <1>6, <1>7, <3>2, <3>3 DEF Tended, Cared
  <2>2. CASE worker.key \in Unresolved(a)
    <3>1. worker.key[1] # 0
      <4>1. SUFFICES ASSUME worker.key[1] = 0 PROVE FALSE
        OBVIOUS
      <4>2. PICK p \in Policies : worker.key = PolicyKey(p)
        BY <1>5, <4>1, KeyParts DEF PolicyKey
      <4>3. worker.kind = "automatic"
        BY <1>5, <4>2 DEF Tended, PolicyJobs, Kinds
      <4> QED
        BY <1>5, <2>2, <4>2, <4>3 DEF Tended, PolicyJobs, Active, Unresolved
    <3>2. reviews[a][worker.key].about[1] = album[a].files
      BY <1>8, <2>2, <3>1, PresentReview
    <3>3. worker.key \in Unresolved(a)' /\ reviews'[a] = reviews[a]
      BY <1>3, <2>2 DEF Unresolved
    <3> QED
      BY <1>2, <1>6, <1>7, <3>2, <3>3 DEF Tended, Cared
  <2> QED
    BY <2>1, <2>2
<1>9. CASE worker.key[1] \notin {0, album[a].files}
  <2>1. \A r \in Rows : r # R => Row(a, r)' = Row(a, r)
    BY <1>3 DEF JobEnds
  <2>2. jobs'[a]["automatic"][i] = jobs[a]["automatic"][i]
    <3>1. PICK r \in Rows : r = <<"automatic", i>>
      BY DEF Rows, Kinds
    <3>2. r # R
      BY <1>4, <1>5, <1>9, <3>1
    <3> QED
      BY <2>1, <3>1, <3>2 DEF Row
  <2>3. Due(a)' => Due(a)
    BY <1>2, <1>4, <2>2 DEF Due, Automatic
  <2>4. ASSUME AtWork(a) PROVE Cared(a)'
    <3>1. PICK r \in Rows : Row(a, r).state \in Active /\ r[2][1] \in {0, album[a].files}
      BY <2>4 DEF AtWork
    <3>2. r # R
      BY <1>5, <1>9, <3>1
    <3>3. AtWork(a)'
      BY <1>2, <2>1, <3>1, <3>2 DEF AtWork, Rows, Keys, Policies, Kinds, Active
    <3> QED
      BY <3>3 DEF Cared
  <2>5. \A key \in Unresolved(a) : reviews'[a][key] = reviews[a][key]
    BY <1>3 DEF Unresolved
  <2>6. Cared(a) => Cared(a)'
    BY <1>2, <2>4, <2>5, CareStays
  <2> QED
    BY <1>6, <1>7, <2>3, <2>6 DEF Tended
<1> QED
  BY <1>8, <1>9

LEMMA InitCare == Init => CareInv
<1> SUFFICES ASSUME Init PROVE CareInv
  OBVIOUS
<1>1. OutcomeHasSource
  BY DEF Init, Idle, OutcomeHasSource
<1>2. ASSUME NEW a \in Albums PROVE Tended(a)
  <2>1. TablesOK /\ album[a].owed
    BY InitTypes DEF Init, TypeInv
  <2>2. \A kind \in Kinds, key \in Keys : jobs[a][kind][key].state = "absent"
    BY DEF Init, Absent
  <2>3. \A key \in Keys : reviews[a][key].state = "resolved"
    BY DEF Init, Resolved
  <2>4. ~Due(a)
    BY <2>1, <2>2, InputIsKey DEF Due, Kinds
  <2>5. ExcludedIsBarred(a)
    BY <2>3 DEF ExcludedIsBarred
  <2>6. PolicyJobs(a)
    BY <2>2, <2>3, KeysAreKeys DEF PolicyJobs, Kinds, Active
  <2> QED
    BY <2>4, <2>5, <2>6 DEF Tended
<1> QED
  BY <1>1, <1>2 DEF CareInv

\* Every step, of any album, leaves every album that is due cared for.
LEMMA CareStep ==
    ASSUME TypeInv, DecisionsInv, CareInv, [Next]_vars,
           {"otherReview", "policyWithdrawn", "reviewOfMissing", "graceRunsOut"} \cap Admits = {}
    PROVE  CareInv'
<1>0. /\ "otherReview" \notin Admits /\ "policyWithdrawn" \notin Admits
      /\ "reviewOfMissing" \notin Admits /\ "graceRunsOut" \notin Admits
  OBVIOUS
<1>1. OutcomeHasSource'
  <2>1. OutcomeHasSource
    BY DEF CareInv
  <2>2. ASSUME worker' = worker \/ worker'.pc = "idle" PROVE OutcomeHasSource'
    BY <2>1, <2>2 DEF OutcomeHasSource
  <2>3. CASE UNCHANGED vars
    BY <2>2, <2>3 DEF vars
  <2>4. CASE \E a \in Albums : Change(a) \/ Regroup(a) \/ Retire(a)
    BY <2>2, <2>4, ScanAlbums
  <2>5. CASE \E a \in Albums : Enqueue(a) \/ Reconsider(a) \/ Repair(a)
    BY <2>2, <2>5, QueueAlbums
  <2>6. CASE \E a \in Albums : ApplyPolicy(a) \/ Return(a)
    BY <2>2, <2>6, ReconcileAlbums
  <2>7. CASE \E a \in Albums : Vanish(a)
    BY <2>2, <2>7, VanishAlbums
  <2>8. CASE \E a \in Albums, key \in Keys : UserStep(a, key)
    BY <2>2, <2>8, DecisionTypes
  <2>9. CASE \E p \in Policies : SetPolicy(p)
    BY <2>2, <2>9, PolicyTypes
  <2>10. CASE Finish
    BY <2>2, <2>10 DEF Finish, Goes, Idle
  <2>11. CASE FailsForGood
    BY <2>2, <2>11 DEF FailsForGood, Idle
  <2>12. CASE Next
    BY <2>1, <2>4, <2>5, <2>6, <2>7, <2>8, <2>9, <2>10, <2>11, <2>12, StepKinds
  <2> QED
    BY <2>3, <2>12
<1> SUFFICES ASSUME NEW b \in Albums PROVE Tended(b)'
  BY <1>1 DEF CareInv
<1>2. Tended(b) /\ Past(b) /\ OneDecision(b) /\ OutcomeHasSource
  BY DEF DecisionsInv, CareInv
<1>3. ASSUME NEW a \in Albums, Elsewhere(a), UNCHANGED policy, b # a
      PROVE  Tended(b)'
  BY <1>2, <1>3, LeftAlone DEF Elsewhere
<1>4. CASE UNCHANGED vars
  BY <1>2, <1>4, LeftAlone DEF vars
<1>5. ASSUME NEW a \in Albums, Change(a) \/ Regroup(a) \/ Retire(a)
      PROVE  Tended(b)'
  BY <1>2, <1>3, <1>5, ScanTypes, ScanAlbums, ScanTends
<1>6. ASSUME NEW a \in Albums, Enqueue(a) \/ Reconsider(a) \/ Repair(a)
      PROVE  Tended(b)'
  BY <1>2, <1>3, <1>6, QueueTypes, QueueAlbums, QueueTends
<1>7. ASSUME NEW a \in Albums, ApplyPolicy(a) \/ Return(a)
      PROVE  Tended(b)'
  BY <1>2, <1>3, <1>7, ReconcileTypes, ReconcileAlbums, ReconcileTends
<1>8. ASSUME NEW a \in Albums, Vanish(a)
      PROVE  Tended(b)'
  BY <1>0, <1>2, <1>3, <1>8, VanishTypes, VanishAlbums, VanishTends
<1>9. ASSUME NEW a \in Albums, NEW key \in Keys, UserStep(a, key)
      PROVE  Tended(b)'
  <2>1. Elsewhere(a) /\ UNCHANGED policy
    BY <1>9, DecisionTypes
  <2> QED
    BY <1>0, <1>2, <1>3, <1>9, <2>1, PeopleTend
<1>10. ASSUME NEW p \in Policies, SetPolicy(p)
       PROVE  Tended(b)'
  BY <1>0, <1>2, <1>10, PolicyTends
<1>11. CASE JobsMove
  BY <1>0, <1>2, <1>11, JobsTend
<1>12. CASE Finish
  <2>1. PICK a \in Albums : a = A
    BY <1>12, WorkerHands DEF TypeInv, Finish, At
  <2>2. Elsewhere(a) /\ UNCHANGED policy
    BY <1>12, <2>1, FinishTypes DEF JobEnds
  <2> QED
    BY <1>2, <1>3, <1>12, <2>1, <2>2, FinishTends
<1>13. CASE FailsForGood
  <2>1. PICK a \in Albums : a = A
    BY <1>13, WorkerHands DEF TypeInv, FailsForGood
  <2>2. PICK cause : FailJob(cause)
    BY <1>13 DEF FailsForGood
  <2>3. Elsewhere(a) /\ UNCHANGED policy
    BY <1>13, <2>1, <2>2, FailTypes DEF FailsForGood
  <2> QED
    BY <1>2, <1>3, <1>13, <2>1, <2>3, FailTends
<1>14. CASE Next
  BY <1>5, <1>6, <1>7, <1>8, <1>9, <1>10, <1>11, <1>12, <1>13, <1>14, StepKinds
<1> QED
  BY <1>4, <1>14

\* No album is lost between scans, the queue and the reviews, whatever is changed, taken over,
\* cancelled, deferred, given up or interrupted in between.  Where the policy moves on only
\* after scans have applied it, reviews are decided that are about the album's present input,
\* no album with an open review is found missing, and the job of a missing album is not given up.
THEOREM NothingForgottenHolds ==
    ASSUME {"otherReview", "policyWithdrawn", "reviewOfMissing", "graceRunsOut"} \cap Admits = {}
    PROVE  Spec => []NothingForgotten
<1>0. {"otherReview", "policyWithdrawn"} \cap Admits = {}
  OBVIOUS
<1> DEFINE Inv == TypeInv /\ DecisionsInv /\ CareInv
<1>1. Init => Inv
  BY InitTypes, InitDecisions, InitCare
<1>2. Inv /\ [Next]_vars => Inv'
  BY <1>0, TypeStep, DecisionsStep, CareStep
<1>3. CareInv => NothingForgotten
  <2> SUFFICES ASSUME CareInv, NEW a \in Albums,
                      Indexed(a) /\ Automatic(a) /\ ~album[a].owed /\ album[a].policy = policy
               PROVE  \/ HasActive(a)
                      \/ Cared(a) /\ ~AtWork(a) /\ album[a].policy = policy
    BY DEF NothingForgotten, Cared
  <2>1. Cared(a)
    BY DEF CareInv, Tended, Due, Indexed, Automatic
  <2>2. AtWork(a) => HasActive(a)
    BY DEF AtWork, HasActive
  <2> QED
    BY <2>1, <2>2
<1> QED
  BY <1>1, <1>2, <1>3, PTL DEF Spec
=============================================================================
