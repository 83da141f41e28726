--------------------------- MODULE CreationProofs ---------------------------
(***************************************************************************)
(* Theorems about how documents are made.  Imports, for any jobs, files,   *)
(* assets, workers and bounds on files, parts and redirects: an imported   *)
(* file is kept and charged once whatever is delivered again, and what a   *)
(* delivery stores is the whole file that it fetched.  The New dialog, for *)
(* any files, templates, users and pages, and for any page sizes, lengths  *)
(* and counts that are typed: a document is made of what was shown, and    *)
(* the paper that is shown has its marks on the page.                      *)
(***************************************************************************)
EXTENDS RecordsProofs

-----------------------------------------------------------------------------
\* Import jobs.

JobRecords == [status : {"none", "queued", "running", "succeeded", "failed"}, output : Assets \cup {None}]
Messages == [at : {"none", "queue", "out", "dead", "gone"}, received : 0..MaxReceives]

\* Where a worker has a key that no asset has yet.
Holding == {"put", "twin", "drop", "commit", "dropDuplicate", "dropFailed"}
Deliveries == [at : {"idle", "start", "fetch", "winner", "succeed", "fail", "ack", "nack"} \cup Holding,
               job : Jobs \cup {None}, key : Assets \cup {None}, file : Files \cup {None},
               found : Assets \cup {None}, retry : BOOLEAN]

JobTypes == /\ job \in [Jobs -> JobRecords] /\ msg \in [Jobs -> Messages]
            /\ asset \in [Assets -> Files \cup {None}]
            /\ verifying \in SUBSET J!Registered /\ rejected \in SUBSET (keyed \ J!Registered)
            /\ object \in SUBSET keyed /\ keyed \in SUBSET Assets
            /\ other \in 0..Limit /\ used \in 0..Limit
            /\ worker \in [Workers -> Deliveries]

\* A message on the queue may be received once more.
MessagesCount == \A j \in Jobs : /\ msg[j].at = "none" => msg[j].received = 0
                                 /\ msg[j].at = "queue" => msg[j].received < MaxReceives

\* What a worker knows: its message is out, its key is its own, and what it has found is there.
DeliveryKnown(r) ==
  /\ r.at # "idle" => r.job \in Jobs /\ msg[r.job].at = "out"
  /\ r.at \in Holding => r.key \in keyed /\ r.key \notin rejected /\ asset[r.key] = None /\ r.file \in Files
  /\ r.at \in {"twin", "commit"} => r.key \in object
  /\ r.at \in {"drop", "succeed"} => r.found \in J!Named

WorkersKnow == \A w \in Workers : DeliveryKnown(worker[w])

\* No two workers have a message, or a key, in common.
Apart == \A v, w \in Workers :
           v # w => /\ worker[v].at # "idle" /\ worker[w].at # "idle" => worker[v].job # worker[w].job
                    /\ worker[v].at \in Holding /\ worker[w].at \in Holding => worker[v].key # worker[w].key

\* Every asset has its object, no two are the same file, and a job that succeeded names one, or
\* one that was rejected.
AssetsKept == /\ J!Registered \subseteq object
              /\ \A d, e \in J!Registered : asset[d] = asset[e] => d = e
              /\ \A j \in Jobs : job[j].status = "succeeded" => job[j].output \in J!Named
AssetsCharged == used = other + Cardinality(J!Registered)

\* The inductive invariant behind ImportedIsKept.
JobsInv == JobTypes /\ MessagesCount /\ WorkersKnow /\ Apart /\ AssetsKept /\ AssetsCharged

LEMMA SameCardinality == ASSUME NEW X PROVE J!Cardinality(X) = Cardinality(X)
  BY DEF J!Cardinality, Cardinality

LEMMA ImportedFromInv == JobsInv => J!ImportedIsKept /\ J!TypeOK
<1> SUFFICES ASSUME JobsInv PROVE J!ImportedIsKept /\ J!TypeOK
  OBVIOUS
<1>1. ASSUME NEW f \in Files PROVE J!Cardinality(J!Twins(f)) <= 1
  <2>1. CASE J!Twins(f) = {}
    BY <2>1, FS_EmptySet, SameCardinality
  <2>2. CASE J!Twins(f) # {}
    <3>1. PICK d : d \in J!Twins(f)
      BY <2>2
    <3>2. J!Twins(f) = {d}
      BY <3>1 DEF J!Twins, JobsInv, AssetsKept
    <3> QED
      <4>1. Cardinality({d}) = 1
        BY FS_Singleton
      <4> QED
        BY <3>2, <4>1, SameCardinality
  <2> QED
    BY <2>1, <2>2
<1>2. J!TypeOK
  BY DEF J!TypeOK, JobsInv, JobTypes, JobRecords, Messages, WorkersKnow, DeliveryKnown
<1> QED
  BY <1>1, <1>2, SameCardinality DEF J!ImportedIsKept, JobsInv, AssetsKept, AssetsCharged

LEMMA JobIdle == J!Idle \in Deliveries /\ J!Idle.at = "idle"
  BY DEF J!Idle, Deliveries

\* A worker goes on with what it has.
Same(r, s) == r.job = s.job /\ r.key = s.key /\ r.file = s.file
Becomes(w, r) == worker' = [worker EXCEPT ![w] = r]

LEMMA DeliveryGoesOn ==
  ASSUME JobTypes, NEW w \in Workers, NEW at, J!Goes(w, at), [worker[w] EXCEPT !.at = at] \in Deliveries
  PROVE  \E r \in Deliveries : Becomes(w, r) /\ r.at = at /\ Same(r, worker[w]) /\ r.found = worker[w].found
<1> DEFINE r == [worker[w] EXCEPT !.at = at]
<1>1. Becomes(w, r)
  BY DEF J!Goes, Becomes, JobTypes
<1>2. r.at = at /\ Same(r, worker[w]) /\ r.found = worker[w].found
  BY DEF Same, JobTypes, Deliveries
<1> HIDE DEF r
<1> QED
  BY <1>1, <1>2 DEF r

LEMMA Fails ==
  ASSUME JobTypes, NEW w \in Workers, NEW retry \in BOOLEAN, J!Throws(w, retry)
  PROVE  \E r \in Deliveries : Becomes(w, r) /\ r.at = "fail" /\ Same(r, worker[w])
<1> DEFINE r == [worker[w] EXCEPT !.at = "fail", !.retry = retry]
<1>1. Becomes(w, r)
  BY DEF J!Throws, Becomes, JobTypes
<1>2. r \in Deliveries /\ r.at = "fail" /\ Same(r, worker[w])
  BY DEF Same, JobTypes, Deliveries
<1> HIDE DEF r
<1> QED
  BY <1>1, <1>2

\* What one worker does leaves the others what they know: of assets and objects it changes only those
\* under its own key k, or a new one, and of messages only its own, or one that is not out.
LEMMA OneMoves ==
  ASSUME JobsInv, NEW w \in Workers, NEW r \in Deliveries, Becomes(w, r), DeliveryKnown(r)',
         NEW k, k \notin keyed \/ (worker[w].at \in Holding /\ k = worker[w].key),
         \A d \in Assets \ {k} : asset'[d] = asset[d] /\ (d \in object => d \in object'),
         J!Registered \subseteq J!Registered', rejected' = rejected, keyed \subseteq keyed',
         \A j \in Jobs : msg'[j] = msg[j] \/ msg[j].at # "out" \/ (worker[w].at # "idle" /\ j = worker[w].job),
         r.at # "idle" => \/ worker[w].at # "idle" /\ r.job = worker[w].job
                          \/ msg[r.job].at # "out",
         r.at \in Holding => \/ worker[w].at \in Holding /\ r.key = worker[w].key
                             \/ r.key \notin keyed
  PROVE  worker' \in [Workers -> Deliveries] /\ WorkersKnow' /\ Apart'
<1>1. /\ worker' \in [Workers -> Deliveries] /\ worker'[w] = r
      /\ \A q \in Workers \ {w} : worker'[q] = worker[q]
  BY DEF Becomes, JobsInv, JobTypes
<1>2. ASSUME NEW q \in Workers \ {w} PROVE DeliveryKnown(worker[q])'
  <2>1. DeliveryKnown(worker[q]) /\ worker'[q] = worker[q] /\ worker[q] \in Deliveries
    BY <1>1 DEF JobsInv, WorkersKnow, JobTypes
  <2>2. worker[q].at # "idle" => worker[q].job \in Jobs /\ msg'[worker[q].job].at = "out"
    BY <2>1 DEF DeliveryKnown, JobsInv, Apart
  <2>3. worker[q].at \in Holding => /\ worker[q].key \in keyed' /\ worker[q].key \notin rejected'
                                    /\ asset'[worker[q].key] = None /\ worker[q].file \in Files
                                    /\ (worker[q].key \in object => worker[q].key \in object')
    BY <2>1 DEF DeliveryKnown, JobsInv, JobTypes, Apart
  <2>4. worker[q].at \in {"twin", "commit"} => worker[q].key \in object'
    BY <2>1, <2>3 DEF DeliveryKnown, Holding
  <2>5. worker[q].at \in {"drop", "succeed"} => worker[q].found \in J!Named'
    BY <2>1 DEF DeliveryKnown, J!Named
  <2> QED
    BY <2>1, <2>2, <2>3, <2>4, <2>5 DEF DeliveryKnown
<1>3. WorkersKnow'
  BY <1>1, <1>2 DEF WorkersKnow
<1>4. ASSUME NEW q \in Workers \ {w}
      PROVE  /\ worker[q].at # "idle" /\ r.at # "idle" => worker[q].job # r.job
             /\ worker[q].at \in Holding /\ r.at \in Holding => worker[q].key # r.key
  BY DEF JobsInv, Apart, WorkersKnow, DeliveryKnown
<1>5. Apart'
  BY <1>1, <1>4 DEF JobsInv, Apart
<1> QED
  BY <1>1, <1>3, <1>5

\* Steps that change no asset keep what is imported, if they remove no object of one.
LEMMA KeptSame ==
  ASSUME JobsInv, UNCHANGED <<asset, used, other, verifying, rejected>>, J!Registered \subseteq object',
         \A j \in Jobs : job'[j].status = "succeeded" => job'[j].output \in J!Named
  PROVE  AssetsKept' /\ AssetsCharged' /\ J!Registered' = J!Registered /\ J!Named' = J!Named
<1>1. J!Registered' = J!Registered /\ J!Named' = J!Named
  BY DEF J!Registered, J!Named
<1> QED
  BY <1>1 DEF JobsInv, AssetsKept, AssetsCharged

\* A worker goes on within its own delivery, and nothing but the worker changes.
LEMMA OnlyWorker ==
  ASSUME JobsInv, NEW w \in Workers, NEW r \in Deliveries, Becomes(w, r),
         UNCHANGED <<job, msg, asset, object, keyed, used, other, verifying, rejected>>,
         worker[w].at # "idle", r.at # "idle", Same(r, worker[w]),
         r.at \in Holding => worker[w].at \in Holding, DeliveryKnown(r)
  PROVE  JobsInv'
<1>1. AssetsKept' /\ AssetsCharged' /\ J!Registered' = J!Registered /\ J!Named' = J!Named
  BY KeptSame DEF JobsInv, AssetsKept
<1>2. DeliveryKnown(r)'
  BY <1>1 DEF DeliveryKnown
<1>3. None \notin keyed
  BY JobAssumption DEF JobsInv, JobTypes
<1>4. worker' \in [Workers -> Deliveries] /\ WorkersKnow' /\ Apart'
  BY <1>1, <1>2, <1>3, OneMoves DEF Same
<1> QED
  BY <1>1, <1>4 DEF JobsInv, JobTypes, MessagesCount

-----------------------------------------------------------------------------
\* enqueueJob.

LEMMA RecordKeeps == ASSUME JobsInv, NEW j \in Jobs, J!Record(j), UNCHANGED <<other, verifying, rejected>> PROVE JobsInv'
<1>1. job' = [job EXCEPT ![j].status = "queued"] /\ UNCHANGED <<msg, asset, object, keyed, used, worker>>
  BY DEF J!Record
<1>2. job' \in [Jobs -> JobRecords]
      /\ \A i \in Jobs : job'[i].status = "succeeded" => job[i].status = "succeeded" /\ job'[i].output = job[i].output
  BY <1>1 DEF JobsInv, JobTypes, JobRecords
<1>3. AssetsKept' /\ AssetsCharged' /\ J!Registered' = J!Registered /\ J!Named' = J!Named
  BY <1>1, <1>2, KeptSame DEF JobsInv, AssetsKept
<1> QED
  BY <1>1, <1>2, <1>3 DEF JobsInv, JobTypes, MessagesCount, WorkersKnow, DeliveryKnown, Apart

LEMMA SendKeeps == ASSUME JobsInv, NEW j \in Jobs, J!Send(j), UNCHANGED <<other, verifying, rejected>> PROVE JobsInv'
<1>1. /\ msg' = [msg EXCEPT ![j].at = "queue"] /\ msg[j] = J!NoMsg
      /\ UNCHANGED <<job, asset, object, keyed, used, worker>>
  BY DEF J!Send
<1>2. msg[j].at = "none" /\ msg[j].received = 0
  BY <1>1 DEF J!NoMsg
<1>3. msg' \in [Jobs -> Messages] /\ MessagesCount'
  BY <1>1, <1>2, JobAssumption DEF JobsInv, JobTypes, Messages, MessagesCount
<1>4. AssetsKept' /\ AssetsCharged' /\ J!Registered' = J!Registered /\ J!Named' = J!Named
  BY <1>1, KeptSame DEF JobsInv, AssetsKept
<1>5. WorkersKnow'
  BY <1>1, <1>2, <1>4 DEF JobsInv, JobTypes, WorkersKnow, DeliveryKnown
<1> QED
  BY <1>1, <1>3, <1>4, <1>5 DEF JobsInv, JobTypes, Apart

-----------------------------------------------------------------------------
\* A delivery.

LEMMA ReceiveKeeps == ASSUME JobsInv, NEW w \in Workers, NEW j \in Jobs, J!Receive(w, j), UNCHANGED <<other, verifying, rejected>>
                      PROVE JobsInv'
<1> DEFINE r == [J!Idle EXCEPT !.at = "start", !.job = j]
<1>1. /\ worker[w] = J!Idle /\ msg[j].at = "queue" /\ Becomes(w, r)
      /\ msg' = [msg EXCEPT ![j] = [at |-> "out", received |-> msg[j].received + 1]]
      /\ UNCHANGED <<job, asset, object, keyed, used>>
  BY DEF J!Receive, Becomes
<1>2. r \in Deliveries /\ r.at = "start" /\ r.job = j
  BY JobIdle DEF Deliveries
<1> HIDE DEF r
<1>3. [at |-> "out", received |-> msg[j].received + 1] \in Messages
  BY <1>1, JobAssumption DEF JobsInv, JobTypes, Messages, MessagesCount
<1>4. msg' \in [Jobs -> Messages] /\ msg'[j].at = "out" /\ \A i \in Jobs \ {j} : msg'[i] = msg[i]
  BY <1>1, <1>3 DEF JobsInv, JobTypes
<1>5. MessagesCount'
  BY <1>4 DEF JobsInv, MessagesCount
<1>6. AssetsKept' /\ AssetsCharged' /\ J!Registered' = J!Registered /\ J!Named' = J!Named
  BY <1>1, KeptSame DEF JobsInv, AssetsKept
<1>7. PICK s \in Deliveries : s = r
  BY <1>2
<1>8. DeliveryKnown(s)'
  BY <1>2, <1>4, <1>7 DEF DeliveryKnown, Holding
<1>9. None \notin keyed
  BY JobAssumption DEF JobsInv, JobTypes
<1>10. worker' \in [Workers -> Deliveries] /\ WorkersKnow' /\ Apart'
  BY <1>1, <1>2, <1>4, <1>6, <1>7, <1>8, <1>9, OneMoves DEF Holding
<1> QED
  BY <1>1, <1>4, <1>5, <1>6, <1>10 DEF JobsInv, JobTypes

\* A job's record changes, but to succeeded only with an output that is there.
LEMMA JobWritten ==
  ASSUME JobsInv, NEW w \in Workers, NEW r \in Deliveries, Becomes(w, r),
         UNCHANGED <<msg, asset, object, keyed, used, other, verifying, rejected>>, job' \in [Jobs -> JobRecords],
         \A j \in Jobs : job'[j].status = "succeeded" => job'[j].output \in J!Named,
         worker[w].at # "idle", r.at \in {"fetch", "ack", "nack"}, Same(r, worker[w])
  PROVE  JobsInv'
<1>1. AssetsKept' /\ AssetsCharged' /\ J!Registered' = J!Registered /\ J!Named' = J!Named
  BY KeptSame DEF JobsInv, AssetsKept
<1>2. DeliveryKnown(r)'
  BY DEF JobsInv, WorkersKnow, DeliveryKnown, Holding, Same
<1>3. None \notin keyed
  BY JobAssumption DEF JobsInv, JobTypes
<1>4. worker' \in [Workers -> Deliveries] /\ WorkersKnow' /\ Apart'
  BY <1>1, <1>2, <1>3, OneMoves DEF Same, Holding
<1> QED
  BY <1>1, <1>4 DEF JobsInv, JobTypes, MessagesCount

LEMMA StartKeeps == ASSUME JobsInv, NEW w \in Workers, J!Start(w), UNCHANGED <<other, verifying, rejected>> PROVE JobsInv'
<1>1. /\ worker[w].at = "start" /\ J!Goes(w, "fetch") /\ job' = [job EXCEPT ![worker[w].job].status = "running"]
      /\ UNCHANGED <<msg, asset, object, keyed, used>>
  BY DEF J!Start
<1>2. worker[w] \in Deliveries
  BY DEF JobsInv, JobTypes
<1>3. PICK r \in Deliveries : Becomes(w, r) /\ r.at = "fetch" /\ Same(r, worker[w])
  <2>1. [worker[w] EXCEPT !.at = "fetch"] \in Deliveries
    BY <1>2 DEF Deliveries
  <2> QED
    BY <1>1, <2>1, DeliveryGoesOn DEF JobsInv
<1>4. /\ job' \in [Jobs -> JobRecords]
      /\ \A j \in Jobs : job'[j].status = "succeeded" => job[j].status = "succeeded" /\ job'[j].output = job[j].output
  BY <1>1 DEF JobsInv, JobTypes, JobRecords
<1> QED
  BY <1>1, <1>3, <1>4, JobWritten DEF JobsInv, AssetsKept

\* The handler threw.
LEMMA ThrowKeeps ==
  ASSUME JobsInv, NEW w \in Workers, NEW retry \in BOOLEAN, J!Throws(w, retry), worker[w].at # "idle",
         UNCHANGED <<job, msg, asset, object, keyed, used, other, verifying, rejected>>
  PROVE  JobsInv'
<1>1. PICK r \in Deliveries : Becomes(w, r) /\ r.at = "fail" /\ Same(r, worker[w])
  BY Fails DEF JobsInv
<1>2. DeliveryKnown(r)
  BY <1>1 DEF JobsInv, WorkersKnow, DeliveryKnown, Holding, Same
<1> QED
  BY <1>1, <1>2, OnlyWorker DEF Holding

LEMMA FetchKeeps == ASSUME JobsInv, NEW w \in Workers, J!Fetch(w), UNCHANGED <<other, verifying, rejected>> PROVE JobsInv'
<1>1. worker[w].at = "fetch" /\ UNCHANGED <<job, msg, asset, object, used>>
  BY Zenon DEF J!Fetch
<1>2. ASSUME NEW retry \in BOOLEAN, J!Throws(w, retry), UNCHANGED keyed PROVE JobsInv'
  BY <1>1, <1>2, ThrowKeeps
<1>3. ASSUME NEW f \in Files, NEW k \in Assets \ keyed, keyed' = keyed \cup {k},
             worker' = [worker EXCEPT ![w].at = "put", ![w].file = f, ![w].key = k]
      PROVE  JobsInv'
  <2> DEFINE s == [worker[w] EXCEPT !.at = "put", !.file = f, !.key = k]
  <2>1. worker[w] \in Deliveries /\ DeliveryKnown(worker[w])
    BY DEF JobsInv, JobTypes, WorkersKnow
  <2>2. Becomes(w, s)
    BY <1>3 DEF Becomes, JobsInv, JobTypes
  <2>3. s \in Deliveries /\ s.at = "put" /\ s.file = f /\ s.key = k /\ s.job = worker[w].job
    BY <2>1 DEF Deliveries, Holding
  <2> HIDE DEF s
  <2>4. PICK r \in Deliveries : Becomes(w, r) /\ r.at = "put" /\ r.file = f /\ r.key = k /\ r.job = worker[w].job
    BY <2>2, <2>3
  <2>5. AssetsKept' /\ AssetsCharged' /\ J!Registered' = J!Registered /\ J!Named' = J!Named
    BY <1>1, KeptSame DEF JobsInv, AssetsKept
  <2>6. asset[k] = None /\ k \notin rejected
    BY <1>3 DEF JobsInv, JobTypes, AssetsKept, J!Registered
  <2>7. DeliveryKnown(r)'
    BY <1>1, <1>3, <2>1, <2>4, <2>6 DEF DeliveryKnown
  <2>8. worker' \in [Workers -> Deliveries] /\ WorkersKnow' /\ Apart'
    BY <1>1, <1>3, <2>4, <2>5, <2>7, OneMoves
  <2> QED
    BY <1>1, <1>3, <2>5, <2>8 DEF JobsInv, JobTypes, MessagesCount
<1> QED
  BY <1>2, <1>3, Zenon DEF J!Fetch

\* An object is stored or removed, under the worker's own key.
LEMMA OwnObject ==
  ASSUME JobsInv, NEW w \in Workers, NEW r \in Deliveries, Becomes(w, r), Same(r, worker[w]),
         worker[w].at \in Holding, r.at # "idle",
         \/ object' = object \cup {worker[w].key} /\ r.at = "twin"
         \/ /\ object' = object \ {worker[w].key} /\ r.at \notin Holding
            /\ r.at = "succeed" => r.found \in J!Named,
         UNCHANGED <<job, msg, asset, keyed, used, other, verifying, rejected>>
  PROVE  JobsInv'
<1>1. DeliveryKnown(worker[w]) /\ worker[w] \in Deliveries
  BY DEF JobsInv, WorkersKnow, JobTypes
<1>2. PICK k : k = worker[w].key
  OBVIOUS
<1>3. k \in keyed /\ asset[k] = None /\ \A d \in Assets \ {k} : d \in object => d \in object'
  BY <1>1, <1>2 DEF DeliveryKnown
<1>4. J!Registered \subseteq object' /\ object' \in SUBSET keyed
  BY <1>1, <1>3 DEF DeliveryKnown, JobsInv, JobTypes, AssetsKept, J!Registered
<1>5. AssetsKept' /\ AssetsCharged' /\ J!Registered' = J!Registered /\ J!Named' = J!Named
  BY <1>4, KeptSame DEF JobsInv, AssetsKept
<1>6. DeliveryKnown(r)'
  BY <1>1, <1>5 DEF DeliveryKnown, Holding, Same
<1>7. worker' \in [Workers -> Deliveries] /\ WorkersKnow' /\ Apart'
  BY <1>2, <1>3, <1>5, <1>6, OneMoves DEF Same, Holding
<1> QED
  BY <1>4, <1>5, <1>7 DEF JobsInv, JobTypes, MessagesCount

LEMMA PutKeeps == ASSUME JobsInv, NEW w \in Workers, J!Put(w), UNCHANGED <<other, verifying, rejected>> PROVE JobsInv'
<1>1. worker[w].at = "put" /\ UNCHANGED <<job, msg, asset, keyed, used>> /\ worker[w] \in Deliveries
  BY Zenon DEF J!Put, JobsInv, JobTypes
<1>2. ASSUME NEW retry \in BOOLEAN, J!Throws(w, retry), UNCHANGED object PROVE JobsInv'
  BY <1>1, <1>2, ThrowKeeps
<1>3. ASSUME object' = object \cup {worker[w].key}, J!Goes(w, "twin") PROVE JobsInv'
  <2>1. [worker[w] EXCEPT !.at = "twin"] \in Deliveries
    BY <1>1 DEF Deliveries, Holding
  <2>2. PICK r \in Deliveries : Becomes(w, r) /\ r.at = "twin" /\ Same(r, worker[w])
    BY <1>3, <2>1, DeliveryGoesOn DEF JobsInv
  <2> QED
    BY <1>1, <1>3, <2>2, OwnObject DEF Holding
<1> QED
  BY <1>2, <1>3, Zenon DEF J!Put

-----------------------------------------------------------------------------
\* registerFetched.

LEMMA TwinKeeps == ASSUME JobsInv, NEW w \in Workers, J!Twin(w), UNCHANGED <<other, verifying, rejected>> PROVE JobsInv'
<1>1. worker[w].at = "twin" /\ UNCHANGED <<job, msg, asset, object, keyed, used>>
  BY Zenon DEF J!Twin
<1>2. worker[w] \in Deliveries /\ DeliveryKnown(worker[w])
  BY DEF JobsInv, JobTypes, WorkersKnow
<1>3. ASSUME J!Goes(w, "commit") PROVE JobsInv'
  <2>1. [worker[w] EXCEPT !.at = "commit"] \in Deliveries
    BY <1>2 DEF Deliveries, Holding
  <2>2. PICK r \in Deliveries : Becomes(w, r) /\ r.at = "commit" /\ Same(r, worker[w])
    BY <1>3, <2>1, DeliveryGoesOn DEF JobsInv
  <2>3. DeliveryKnown(r)
    BY <1>1, <1>2, <2>2 DEF DeliveryKnown, Same, Holding
  <2> QED
    BY <1>1, <2>2, <2>3, OnlyWorker DEF Holding
<1>4. ASSUME NEW d \in J!Twins(worker[w].file), worker' = [worker EXCEPT ![w].at = "drop", ![w].found = d]
      PROVE JobsInv'
  <2> DEFINE s == [worker[w] EXCEPT !.at = "drop", !.found = d]
  <2>1. Becomes(w, s)
    BY <1>4 DEF Becomes, JobsInv, JobTypes
  <2>2. d \in J!Named /\ d \in Assets
    BY DEF J!Twins, J!Registered, J!Named
  <2>3. s \in Deliveries /\ s.at = "drop" /\ s.found = d /\ Same(s, worker[w])
    BY <1>2, <2>2 DEF Deliveries, Holding, Same
  <2> HIDE DEF s
  <2>4. DeliveryKnown(s)
    BY <1>1, <1>2, <2>2, <2>3 DEF DeliveryKnown, Same, Holding
  <2> QED
    BY <1>1, <2>1, <2>3, <2>4, OnlyWorker DEF Holding
<1> QED
  BY <1>3, <1>4, Zenon DEF J!Twin

LEMMA DropKeeps == ASSUME JobsInv, NEW w \in Workers, J!DropCopy(w), UNCHANGED <<other, verifying, rejected>> PROVE JobsInv'
<1>1. worker[w].at = "drop" /\ UNCHANGED <<job, msg, asset, keyed, used>>
  BY Zenon DEF J!DropCopy
<1>2. worker[w] \in Deliveries /\ DeliveryKnown(worker[w])
  BY DEF JobsInv, JobTypes, WorkersKnow
<1>3. ASSUME J!Throws(w, TRUE), UNCHANGED object PROVE JobsInv'
  BY <1>1, <1>3, ThrowKeeps
<1>4. ASSUME object' = object \ {worker[w].key}, J!Goes(w, "succeed") PROVE JobsInv'
  <2>1. [worker[w] EXCEPT !.at = "succeed"] \in Deliveries
    BY <1>2 DEF Deliveries, Holding
  <2>2. PICK r \in Deliveries : Becomes(w, r) /\ r.at = "succeed" /\ Same(r, worker[w]) /\ r.found = worker[w].found
    BY <1>4, <2>1, DeliveryGoesOn DEF JobsInv
  <2>3. r.found \in J!Named
    BY <1>1, <1>2, <2>2 DEF DeliveryKnown
  <2> QED
    BY <1>1, <1>4, <2>2, <2>3, OwnObject DEF Holding
<1> QED
  BY <1>3, <1>4, Zenon DEF J!DropCopy, J!Dropped

\* The transaction: the file becomes an asset and is charged, or this copy is to go.
LEMMA CommitKeeps == ASSUME JobsInv, NEW w \in Workers, J!Commit(w), UNCHANGED <<other, verifying, rejected>> PROVE JobsInv'
<1>1. worker[w].at = "commit" /\ UNCHANGED <<job, msg, object, keyed>>
  BY DEF J!Commit
<1>2. worker[w] \in Deliveries /\ DeliveryKnown(worker[w])
  BY DEF JobsInv, JobTypes, WorkersKnow
<1>3. ASSUME J!Inserted(worker[w].key, worker[w].file),
             worker' = [worker EXCEPT ![w].at = "succeed", ![w].found = worker[w].key]
      PROVE  JobsInv'
  <2>1. PICK k : k = worker[w].key
    OBVIOUS
  <2>2. PICK f : f = worker[w].file
    OBVIOUS
  <2>3. /\ asset' = [asset EXCEPT ![k] = f] /\ used' = used + 1 /\ used < Limit
        /\ worker' = [worker EXCEPT ![w].at = "succeed", ![w].found = k]
    BY <1>3, <2>1, <2>2 DEF J!Inserted, J!Charged, J!Fits
  <2>4. k \in keyed /\ k \notin rejected /\ k \in Assets /\ asset[k] = None /\ f \in Files /\ k \in object
    BY <1>1, <1>2, <2>1, <2>2 DEF DeliveryKnown, Holding, JobsInv, JobTypes
  <2> DEFINE s == [worker[w] EXCEPT !.at = "succeed", !.found = k]
  <2>5. Becomes(w, s)
    BY <2>3 DEF Becomes, JobsInv, JobTypes
  <2>6. s \in Deliveries /\ s.at = "succeed" /\ s.found = k /\ s.job = worker[w].job
    BY <1>2, <2>4 DEF Deliveries
  <2> HIDE DEF s
  <2>7. PICK r \in Deliveries : Becomes(w, r) /\ r.at = "succeed" /\ r.found = k /\ r.job = worker[w].job
    BY <2>5, <2>6
  <2>8. /\ asset' \in [Assets -> Files \cup {None}] /\ asset'[k] = f
        /\ \A d \in Assets \ {k} : asset'[d] = asset[d]
    BY <2>3, <2>4 DEF JobsInv, JobTypes
  <2>9. J!Registered' = J!Registered \cup {k} /\ k \notin J!Registered /\ J!Named' = J!Named \cup {k}
    BY <2>4, <2>8, JobAssumption DEF J!Registered, J!Named
  <2>10. IsFiniteSet(J!Registered)
    BY JobAssumption, FS_Subset DEF J!Registered
  <2>11. Cardinality(J!Registered') = Cardinality(J!Registered) + 1
    BY <2>9, <2>10, FS_AddElement
  <2>12. AssetsCharged'
    <3>1. Cardinality(J!Registered) \in Nat /\ other \in Nat
      BY <2>10, FS_CardinalityType DEF JobsInv, JobTypes
    <3> QED
      BY <2>3, <2>11, <3>1 DEF AssetsCharged, JobsInv
  <2>13. \A d \in J!Registered : asset[d] # f
    BY <1>3, <2>2 DEF J!Inserted, J!Twins
  <2>14. AssetsKept'
    <3>1. J!Registered' \subseteq object' /\ J!Registered' = J!Registered \cup {k}
      BY <1>1, <2>4, <2>9 DEF JobsInv, AssetsKept
    <3>2. \A d, e \in J!Registered' : asset'[d] = asset'[e] => d = e
      BY <2>8, <2>9, <2>13 DEF JobsInv, AssetsKept, J!Registered
    <3>3. \A j \in Jobs : job'[j].status = "succeeded" => job'[j].output \in J!Named'
      BY <1>1, <2>9 DEF JobsInv, AssetsKept
    <3> QED
      BY <3>1, <3>2, <3>3 DEF AssetsKept
  <2>15. DeliveryKnown(r)'
    BY <1>1, <1>2, <2>7, <2>9 DEF DeliveryKnown, Holding, J!Named
  <2>16. worker' \in [Workers -> Deliveries] /\ WorkersKnow' /\ Apart'
    BY <1>1, <2>1, <2>7, <2>8, <2>9, <2>15, OneMoves DEF Holding
  <2>17. used' \in 0..Limit
    BY <2>3, JobAssumption DEF JobsInv, JobTypes
  <2>18. verifying' \in SUBSET J!Registered' /\ rejected' \in SUBSET (keyed' \ J!Registered')
    BY <1>1, <2>4, <2>9 DEF JobsInv, JobTypes
  <2>19. JobTypes'
    BY <1>1, <2>8, <2>16, <2>17, <2>18 DEF JobsInv, JobTypes
  <2> QED
    BY <1>1, <2>12, <2>14, <2>16, <2>19 DEF JobsInv, MessagesCount
<1>4. ASSUME NEW at \in {"dropDuplicate", "dropFailed"}, J!Goes(w, at), UNCHANGED <<asset, used>> PROVE JobsInv'
  <2>3. [worker[w] EXCEPT !.at = at] \in Deliveries
    BY <1>2 DEF Deliveries, Holding
  <2>4. PICK r \in Deliveries : Becomes(w, r) /\ r.at = at /\ Same(r, worker[w])
    BY <1>4, <2>3, DeliveryGoesOn DEF JobsInv
  <2>5. DeliveryKnown(r)
    BY <1>1, <1>2, <2>4 DEF DeliveryKnown, Same, Holding
  <2> QED
    BY <1>1, <1>4, <2>4, <2>5, OnlyWorker DEF Holding
<1> QED
  BY <1>3, <1>4, Zenon DEF J!Commit

LEMMA DropFailedKeeps == ASSUME JobsInv, NEW w \in Workers, J!DropFailed(w), UNCHANGED <<other, verifying, rejected>> PROVE JobsInv'
<1>1. worker[w].at \in {"dropDuplicate", "dropFailed"} /\ UNCHANGED <<job, msg, asset, keyed, used>>
  BY Zenon DEF J!DropFailed
<1>2. worker[w] \in Deliveries /\ DeliveryKnown(worker[w])
  BY DEF JobsInv, JobTypes, WorkersKnow
<1>3. ASSUME J!Throws(w, TRUE), UNCHANGED object PROVE JobsInv'
  BY <1>1, <1>3, ThrowKeeps
<1>4. ASSUME object' = object \ {worker[w].key}, J!Throws(w, TRUE) PROVE JobsInv'
  <2>1. PICK r \in Deliveries : Becomes(w, r) /\ r.at = "fail" /\ Same(r, worker[w])
    BY <1>4, Fails DEF JobsInv
  <2> QED
    BY <1>1, <1>4, <2>1, OwnObject DEF Holding
<1>5. ASSUME object' = object \ {worker[w].key}, J!Goes(w, "winner") PROVE JobsInv'
  <2>1. [worker[w] EXCEPT !.at = "winner"] \in Deliveries
    BY <1>2 DEF Deliveries
  <2>2. PICK r \in Deliveries : Becomes(w, r) /\ r.at = "winner" /\ Same(r, worker[w])
    BY <1>5, <2>1, DeliveryGoesOn DEF JobsInv
  <2> QED
    BY <1>1, <1>5, <2>2, OwnObject DEF Holding
<1> QED
  BY <1>3, <1>4, <1>5, Zenon DEF J!DropFailed

LEMMA WinnerKeeps == ASSUME JobsInv, NEW w \in Workers, J!Winner(w), UNCHANGED <<other, verifying, rejected>> PROVE JobsInv'
<1>1. worker[w].at = "winner" /\ UNCHANGED <<job, msg, asset, object, keyed, used>>
  BY Zenon DEF J!Winner
<1>2. ASSUME J!Throws(w, TRUE) PROVE JobsInv'
  BY <1>1, <1>2, ThrowKeeps
<1>3. ASSUME NEW d \in J!Twins(worker[w].file), worker' = [worker EXCEPT ![w].at = "succeed", ![w].found = d]
      PROVE  JobsInv'
  <2> DEFINE s == [worker[w] EXCEPT !.at = "succeed", !.found = d]
  <2>1. worker[w] \in Deliveries /\ DeliveryKnown(worker[w])
    BY DEF JobsInv, JobTypes, WorkersKnow
  <2>2. Becomes(w, s)
    BY <1>3 DEF Becomes, JobsInv, JobTypes
  <2>3. d \in J!Named /\ d \in Assets
    BY DEF J!Twins, J!Registered, J!Named
  <2>4. s \in Deliveries /\ s.at = "succeed" /\ s.found = d /\ Same(s, worker[w])
    BY <2>1, <2>3 DEF Deliveries, Same
  <2> HIDE DEF s
  <2>5. DeliveryKnown(s)
    BY <1>1, <2>1, <2>3, <2>4 DEF DeliveryKnown, Same, Holding
  <2> QED
    BY <1>1, <2>2, <2>4, <2>5, OnlyWorker DEF Holding
<1> QED
  BY <1>2, <1>3, Zenon DEF J!Winner

-----------------------------------------------------------------------------
\* How it went.

LEMMA SucceedKeeps == ASSUME JobsInv, NEW w \in Workers, J!Succeed(w), UNCHANGED <<other, verifying, rejected>> PROVE JobsInv'
<1>1. /\ worker[w].at = "succeed" /\ J!Goes(w, "ack") /\ UNCHANGED <<msg, asset, object, keyed, used>>
      /\ job' = [job EXCEPT ![worker[w].job] = [status |-> "succeeded", output |-> worker[w].found]]
  BY DEF J!Succeed
<1>2. worker[w] \in Deliveries /\ worker[w].found \in J!Named /\ worker[w].job \in Jobs
  BY <1>1 DEF JobsInv, JobTypes, WorkersKnow, DeliveryKnown
<1>3. [worker[w] EXCEPT !.at = "ack"] \in Deliveries
  BY <1>2 DEF Deliveries
<1>4. PICK r \in Deliveries : Becomes(w, r) /\ r.at = "ack" /\ Same(r, worker[w])
  BY <1>1, <1>3, DeliveryGoesOn DEF JobsInv
<1>5. [status |-> "succeeded", output |-> worker[w].found] \in JobRecords
  BY <1>2 DEF JobRecords, J!Registered, J!Named, JobsInv, JobTypes
<1>6. /\ job' \in [Jobs -> JobRecords]
      /\ \A j \in Jobs : job'[j].status = "succeeded" => job'[j].output \in J!Named
  BY <1>1, <1>2, <1>5 DEF JobsInv, JobTypes, AssetsKept
<1> QED
  BY <1>1, <1>4, <1>6, JobWritten

LEMMA FailKeeps == ASSUME JobsInv, NEW w \in Workers, J!Fail(w), UNCHANGED <<other, verifying, rejected>> PROVE JobsInv'
<1>1. /\ worker[w].at = "fail" /\ job' = [job EXCEPT ![worker[w].job].status = "failed"]
      /\ UNCHANGED <<msg, asset, object, keyed, used>>
  BY DEF J!Fail
<1>2. PICK at \in {"ack", "nack"} : J!Goes(w, at)
  BY DEF J!Fail, J!Goes
<1>3. [worker[w] EXCEPT !.at = at] \in Deliveries
  BY DEF JobsInv, JobTypes, Deliveries
<1>4. PICK r \in Deliveries : Becomes(w, r) /\ r.at = at /\ Same(r, worker[w])
  BY <1>2, <1>3, DeliveryGoesOn DEF JobsInv
<1>5. /\ job' \in [Jobs -> JobRecords]
      /\ \A j \in Jobs : job'[j].status = "succeeded" => job[j].status = "succeeded" /\ job'[j].output = job[j].output
  BY <1>1 DEF JobsInv, JobTypes, JobRecords
<1> QED
  BY <1>1, <1>4, <1>5, JobWritten DEF JobsInv, AssetsKept

\* The message goes, goes back on the queue, or is dead-lettered, and the worker is free.
LEMMA DeliveryEnds ==
  ASSUME JobsInv, NEW w \in Workers, worker[w].at # "idle", Becomes(w, J!Idle),
         NEW at \in {"gone", "queue", "dead"}, msg' = [msg EXCEPT ![worker[w].job].at = at],
         at = "queue" => msg[worker[w].job].received < MaxReceives,
         UNCHANGED <<job, asset, object, keyed, used, other, verifying, rejected>>
  PROVE  JobsInv'
<1>1. AssetsKept' /\ AssetsCharged' /\ J!Registered' = J!Registered /\ J!Named' = J!Named
  BY KeptSame DEF JobsInv, AssetsKept
<1>2. /\ msg' \in [Jobs -> Messages] /\ MessagesCount'
      /\ \A j \in Jobs : msg'[j] = msg[j] \/ j = worker[w].job
  BY DEF JobsInv, JobTypes, Messages, MessagesCount
<1>3. DeliveryKnown(J!Idle)'
  BY DEF DeliveryKnown, J!Idle, Holding
<1>4. None \notin keyed
  BY JobAssumption DEF JobsInv, JobTypes
<1>5. worker' \in [Workers -> Deliveries] /\ WorkersKnow' /\ Apart'
  BY <1>1, <1>2, <1>3, <1>4, JobIdle, OneMoves DEF Holding
<1> QED
  BY <1>1, <1>2, <1>5 DEF JobsInv, JobTypes

LEMMA ReportKeeps == ASSUME JobsInv, NEW w \in Workers, J!Report(w), UNCHANGED <<other, verifying, rejected>> PROVE JobsInv'
<1>1. CASE J!Ack(w)
  BY <1>1, DeliveryEnds DEF J!Ack, Becomes
<1>2. CASE J!Nack(w) \/ J!Crash(w)
  <2>1. /\ worker[w].at # "idle" /\ Becomes(w, J!Idle) /\ msg' = J!Returned(worker[w].job)
        /\ UNCHANGED <<job, asset, object, keyed, used>>
    BY <1>2 DEF J!Nack, J!Crash, Becomes
  <2>2. CASE msg[worker[w].job].received < MaxReceives
    BY <2>1, <2>2, DeliveryEnds DEF J!Returned
  <2>3. CASE ~(msg[worker[w].job].received < MaxReceives)
    BY <2>1, <2>3, DeliveryEnds DEF J!Returned
  <2> QED
    BY <2>2, <2>3
<1> QED
  BY <1>1, <1>2, SucceedKeeps, FailKeeps, Zenon DEF J!Report

-----------------------------------------------------------------------------
\* Uploads.

\* What happens under a key that is new, or an upload's, leaves the workers what they know.
LEMMA OthersKnow ==
  ASSUME JobsInv, UNCHANGED <<msg, worker>>, NEW k, k \notin keyed \/ k \in J!Registered,
         \A d \in Assets \ {k} : asset'[d] = asset[d] /\ (d \in object => d \in object'),
         J!Named \subseteq J!Named', rejected' \subseteq rejected \cup {k}, keyed \subseteq keyed'
  PROVE  WorkersKnow' /\ Apart'
<1>1. ASSUME NEW q \in Workers PROVE DeliveryKnown(worker[q])'
  <2>1. DeliveryKnown(worker[q]) /\ worker'[q] = worker[q] /\ worker[q] \in Deliveries
    BY DEF JobsInv, WorkersKnow, JobTypes
  <2>2. worker[q].at \in Holding => /\ worker[q].key \in keyed' /\ worker[q].key \notin rejected'
                                    /\ asset'[worker[q].key] = None /\ worker[q].file \in Files
                                    /\ (worker[q].key \in object => worker[q].key \in object')
    BY <2>1 DEF DeliveryKnown, JobsInv, JobTypes, J!Registered
  <2>3. worker[q].at \in {"twin", "commit"} => worker[q].key \in object'
    BY <2>1, <2>2 DEF DeliveryKnown, Holding
  <2> QED
    BY <2>1, <2>2, <2>3 DEF DeliveryKnown
<1>2. WorkersKnow'
  BY <1>1 DEF WorkersKnow
<1> QED
  BY <1>2 DEF JobsInv, Apart

LEMMA RegisteredFinite == IsFiniteSet(J!Registered) /\ Cardinality(J!Registered) \in Nat
<1>1. IsFiniteSet(J!Registered)
  BY JobAssumption, FS_Subset DEF J!Registered
<1> QED
  BY <1>1, FS_CardinalityType

LEMMA UploadKeeps ==
  ASSUME JobsInv, NEW k \in Assets, NEW f \in Files, J!Upload(k, f), UNCHANGED other PROVE JobsInv'
<1>1. /\ k \notin keyed /\ asset' = [asset EXCEPT ![k] = f] /\ used' = used + 1 /\ used < Limit
      /\ J!Twins(f) = {} /\ keyed' = keyed \cup {k} /\ object' = object \cup {k}
      /\ verifying' = verifying \cup {k} /\ UNCHANGED <<job, msg, worker, rejected>>
  BY DEF J!Upload, J!Inserted, J!Charged, J!Fits
<1>2. k \notin J!Registered
  BY <1>1 DEF JobsInv, AssetsKept, JobTypes
<1>3. /\ asset' \in [Assets -> Files \cup {None}] /\ asset'[k] = f
      /\ \A d \in Assets \ {k} : asset'[d] = asset[d]
  BY <1>1 DEF JobsInv, JobTypes
<1>4. J!Registered' = J!Registered \cup {k} /\ J!Named' = J!Named \cup {k}
  BY <1>1, <1>2, <1>3, JobAssumption DEF J!Registered, J!Named
<1>5. Cardinality(J!Registered') = Cardinality(J!Registered) + 1
  BY <1>2, <1>4, RegisteredFinite, FS_AddElement
<1>6. AssetsCharged' /\ used' \in 0..Limit
  <2>1. other \in Nat /\ used \in Nat
    BY JobAssumption DEF JobsInv, JobTypes
  <2> QED
    BY <1>1, <1>5, <2>1, RegisteredFinite, JobAssumption DEF AssetsCharged, JobsInv
<1>7. AssetsKept'
  <2>1. J!Registered' \subseteq object'
    BY <1>1, <1>4 DEF JobsInv, AssetsKept
  <2>2. \A d \in J!Registered : asset[d] # f
    BY <1>1 DEF J!Twins
  <2>3. \A d, e \in J!Registered' : asset'[d] = asset'[e] => d = e
    BY <1>3, <1>4, <2>2 DEF JobsInv, AssetsKept, J!Registered
  <2>4. \A j \in Jobs : job'[j].status = "succeeded" => job'[j].output \in J!Named'
    BY <1>1, <1>4 DEF JobsInv, AssetsKept
  <2> QED
    BY <2>1, <2>3, <2>4 DEF AssetsKept
<1>8. WorkersKnow' /\ Apart'
  BY <1>1, <1>3, <1>4, OthersKnow
<1>9. verifying' \in SUBSET J!Registered' /\ rejected' \in SUBSET (keyed' \ J!Registered')
  BY <1>1, <1>4 DEF JobsInv, JobTypes
<1>10. object' \in SUBSET keyed' /\ keyed' \in SUBSET Assets
  BY <1>1 DEF JobsInv, JobTypes
<1>11. JobTypes'
  BY <1>1, <1>3, <1>6, <1>9, <1>10 DEF JobsInv, JobTypes
<1> QED
  BY <1>1, <1>6, <1>7, <1>8, <1>11 DEF JobsInv, MessagesCount

LEMMA VerifyKeeps ==
  ASSUME JobsInv, NEW k \in Assets, J!Verify(k), UNCHANGED other PROVE JobsInv'
<1>1. verifying' = verifying \ {k} /\ UNCHANGED <<job, msg, asset, rejected, object, keyed, used, worker>>
  BY DEF J!Verify
<1>2. J!Registered' = J!Registered /\ J!Named' = J!Named
  BY <1>1 DEF J!Registered, J!Named
<1>3. AssetsKept' /\ AssetsCharged'
  BY <1>1, <1>2 DEF JobsInv, AssetsKept, AssetsCharged
<1>4. WorkersKnow' /\ Apart' /\ MessagesCount'
  BY <1>1, <1>2 DEF JobsInv, WorkersKnow, DeliveryKnown, Apart, MessagesCount
<1>5. JobTypes'
  BY <1>1, <1>2 DEF JobsInv, JobTypes
<1> QED
  BY <1>3, <1>4, <1>5 DEF JobsInv

LEMMA RejectKeeps ==
  ASSUME JobsInv, NEW k \in Assets, J!Reject(k), UNCHANGED other PROVE JobsInv'
<1>1. /\ k \in verifying /\ verifying' = verifying \ {k} /\ asset' = [asset EXCEPT ![k] = None]
      /\ rejected' = rejected \cup {k} /\ object' = object \ {k} /\ used' = used - 1
      /\ UNCHANGED <<job, msg, keyed, worker>>
  BY DEF J!Reject
<1>2. k \in J!Registered /\ k \in keyed
  BY <1>1 DEF JobsInv, JobTypes, AssetsKept
<1>3. /\ asset' \in [Assets -> Files \cup {None}] /\ asset'[k] = None
      /\ \A d \in Assets \ {k} : asset'[d] = asset[d]
  BY <1>1 DEF JobsInv, JobTypes
<1>4. J!Registered' = J!Registered \ {k} /\ J!Named' = J!Named
  BY <1>1, <1>2, <1>3 DEF J!Registered, J!Named
<1>5. Cardinality(J!Registered') = Cardinality(J!Registered) - 1
  BY <1>2, <1>4, RegisteredFinite, FS_RemoveElement
<1>6. AssetsCharged' /\ used' \in 0..Limit
  <2>1. other \in Nat /\ used \in 0..Limit
    BY JobAssumption DEF JobsInv, JobTypes
  <2>2. Cardinality(J!Registered') \in Nat
    BY RegisteredFinite, <1>4, FS_Subset, FS_CardinalityType
  <2> QED
    BY <1>1, <1>5, <2>1, <2>2, RegisteredFinite, JobAssumption DEF AssetsCharged, JobsInv
<1>7. AssetsKept'
  <2>1. J!Registered' \subseteq object'
    BY <1>1, <1>4 DEF JobsInv, AssetsKept
  <2>2. \A d, e \in J!Registered' : asset'[d] = asset'[e] => d = e
    BY <1>3, <1>4 DEF JobsInv, AssetsKept, J!Registered
  <2>3. \A j \in Jobs : job'[j].status = "succeeded" => job'[j].output \in J!Named'
    BY <1>1, <1>4 DEF JobsInv, AssetsKept
  <2> QED
    BY <2>1, <2>2, <2>3 DEF AssetsKept
<1>8. WorkersKnow' /\ Apart'
  BY <1>1, <1>2, <1>3, <1>4, OthersKnow
<1>9. verifying' \in SUBSET J!Registered' /\ rejected' \in SUBSET (keyed' \ J!Registered')
  BY <1>1, <1>2, <1>4 DEF JobsInv, JobTypes
<1>10. object' \in SUBSET keyed'
  BY <1>1 DEF JobsInv, JobTypes
<1>11. JobTypes'
  BY <1>1, <1>3, <1>6, <1>9, <1>10 DEF JobsInv, JobTypes
<1> QED
  BY <1>1, <1>6, <1>7, <1>8, <1>11 DEF JobsInv, MessagesCount

LEMMA JobStep == JobsInv /\ J!Next => JobsInv'
<1> SUFFICES ASSUME JobsInv, J!Next PROVE JobsInv'
  OBVIOUS
<1>4. ASSUME J!Checked, UNCHANGED other PROVE JobsInv'
  BY <1>4, UploadKeeps, VerifyKeeps, RejectKeeps, Zenon DEF J!Checked
<1>5. SUFFICES ASSUME J!Step, UNCHANGED <<other, verifying, rejected>> PROVE JobsInv'
  BY <1>4 DEF J!Next, J!uploads
<1>1. ASSUME NEW j \in Jobs, J!Record(j) \/ J!Send(j) PROVE JobsInv'
  BY <1>1, <1>5, RecordKeeps, SendKeeps
<1>2. ASSUME NEW w \in Workers, J!Deliver(w) PROVE JobsInv'
  BY <1>2, <1>5, ReceiveKeeps, StartKeeps, FetchKeeps, PutKeeps, Zenon DEF J!Deliver
<1>3. ASSUME NEW w \in Workers, J!Register(w) PROVE JobsInv'
  BY <1>3, <1>5, TwinKeeps, DropKeeps, CommitKeeps, DropFailedKeeps, WinnerKeeps, Zenon DEF J!Register
<1> QED
  BY <1>1, <1>2, <1>3, <1>5, ReportKeeps, Zenon DEF J!Step

LEMMA JobPart == ASSUME [MCNext]_allVars PROVE part' = part /\ (UNCHANGED jobVars \/ J!Next)
  BY DEF MCNext, allVars, jobVars

LEMMA JobsInit == MCInit => JobsInv
<1>1. ASSUME J!Init PROVE JobsInv
  <2>1. J!NoJob \in JobRecords /\ J!NoJob.status = "none" /\ J!NoMsg.at = "none" /\ J!NoMsg.received = 0
    BY DEF J!NoJob, JobRecords, J!NoMsg
  <2>2. J!NoMsg \in Messages
    BY JobAssumption DEF J!NoMsg, Messages
  <2>3. JobTypes
    BY <1>1, <2>1, <2>2, JobIdle DEF J!Init, JobTypes
  <2>4. MessagesCount
    BY <1>1, <2>1 DEF J!Init, MessagesCount
  <2>5. WorkersKnow /\ Apart
    BY <1>1, JobIdle DEF J!Init, WorkersKnow, DeliveryKnown, Apart, Holding
  <2>6. J!Registered = {}
    BY <1>1 DEF J!Init, J!Registered
  <2>7. Cardinality(J!Registered) = 0
    BY <2>6, FS_EmptySet
  <2>8. AssetsKept
    BY <1>1, <2>1, <2>6 DEF J!Init, AssetsKept
  <2>9. AssetsCharged
    BY <1>1, <2>7, JobAssumption DEF J!Init, AssetsCharged
  <2> QED
    BY <2>3, <2>4, <2>5, <2>8, <2>9 DEF JobsInv
<1> QED
  BY <1>1 DEF MCInit

LEMMA JobsAlways == MCSpec => []JobsInv
<1>1. JobsInv /\ [MCNext]_allVars => JobsInv'
  <2> SUFFICES ASSUME JobsInv, [MCNext]_allVars PROVE JobsInv'
    OBVIOUS
  <2>1. CASE UNCHANGED jobVars
    BY <2>1 DEF jobVars, JobsInv, JobTypes, MessagesCount, WorkersKnow, DeliveryKnown, Apart, AssetsKept,
                AssetsCharged, J!Registered, J!Named
  <2> QED
    BY <2>1, JobPart, JobStep
<1> QED
  BY <1>1, JobsInit, PTL DEF MCSpec

-----------------------------------------------------------------------------
\* The download of a file.

PullPlaces == {"open", "peek", "put", "flush", "last", "single", "complete", "abort", "abort-large",
               "stored", "refused", "failed", "dead"}
Pulls == [at : PullPlaces, host : Hosts, hops : 0..MaxRedirects]
HostAnswers == [kind : Y!Kinds \cup {None}, length : Lengths \cup {0}, declared : Lengths \cup {None}]

\* n bytes of a file, from the one after m.
Span(m, n) == [i \in 1..n |-> m + i]

\* No more is held than was read, and taken.
PullTypes == /\ pull \in Pulls /\ answer \in HostAnswers
             /\ read \in Nat /\ taken \in Nat /\ read <= answer.length
             /\ first \in Seq(Nat) /\ buffer \in Seq(Nat) /\ joined \in Seq(Nat) /\ parts \in Seq(Nat)
             /\ Len(first) <= read /\ Len(buffer) <= taken
             /\ session \in {"none", "open", "over", "left"}

\* Until putStream is called, nothing is taken and nothing is in S3.
NothingTaken == pull.at \in {"open", "peek"} =>
                  /\ taken = 0 /\ buffer = <<>> /\ joined = <<>> /\ parts = <<>>
                  /\ session = "none" /\ blob = None
                  /\ pull.at = "open" => read = 0
                  /\ first = Span(0, read)

\* While it takes, what is joined and what is held are together what was taken, in order; what was read
\* is taken, or was peeked at and comes next.
Taking == {"put", "flush", "last", "single", "complete"}
TakenInOrder == pull.at \in Taking =>
                  /\ answer.kind \in Y!Kinds /\ taken <= MaxBytes[answer.kind] /\ blob = None
                  /\ joined = Span(0, Len(joined)) /\ buffer = Span(Len(joined), Len(buffer))
                  /\ Len(joined) + Len(buffer) = taken
                  /\ \/ first = <<>> /\ taken = read
                     \/ pull.at = "put" /\ taken = 0 /\ first = Span(0, read)
                  /\ session \in {"none", "open"}
                  /\ session = "none" => joined = <<>> /\ parts = <<>>

\* Only the last part may be short, and after it nothing is held.
PartsAreFull == pull.at \in Taking =>
                  /\ pull.at \in {"put", "flush", "last"} => \A i \in 1..Len(parts) : parts[i] >= PartBytes
                  /\ \A i \in 1..(Len(parts) - 1) : parts[i] >= PartBytes
                  /\ pull.at = "flush" => Len(buffer) >= PartBytes
                  /\ pull.at \in {"last", "single", "complete"} => read = answer.length
                  /\ pull.at = "single" => session = "none"
                  /\ pull.at = "complete" => session = "open" /\ buffer = <<>>

LargeIsGone == pull.at = "abort-large" => blob = None

\* The inductive invariant behind StoredWhole.
PullInv == /\ PullTypes /\ NothingTaken /\ TakenInOrder /\ PartsAreFull /\ LargeIsGone /\ Y!StoredWhole

LEMMA PullTypesFit == ASSUME PullTypes PROVE Y!TypeOK
  BY PullAssumption DEF PullTypes, Pulls, HostAnswers, Y!TypeOK, Y!Kinds

-----------------------------------------------------------------------------
\* Sequences of bytes.

LEMMA SpanIsSeq == ASSUME NEW m \in Nat, NEW n \in Nat
                   PROVE /\ Span(m, n) \in Seq(Nat) /\ Len(Span(m, n)) = n
                         /\ Span(m, 0) = <<>>
  BY DEF Span

LEMMA SpansJoin == ASSUME NEW m \in Nat, NEW n \in Nat, NEW k \in Nat
                   PROVE Span(m, n) \o Span(m + n, k) = Span(m, n + k)
<1> DEFINE s == Span(m, n)  t == Span(m + n, k)
<1>1. s \in Seq(Nat) /\ t \in Seq(Nat) /\ Len(s) = n /\ Len(t) = k
  <2>1. s \in Seq(Nat) /\ Len(s) = n
    BY SpanIsSeq
  <2>2. m + n \in Nat
    OBVIOUS
  <2>3. t \in Seq(Nat) /\ Len(t) = k
    BY <2>2, SpanIsSeq
  <2> QED
    BY <2>1, <2>3
<1> HIDE DEF s, t
<1>2. /\ s \o t \in Seq(Nat) /\ Len(s \o t) = n + k
      /\ \A i \in 1..(n + k) : (s \o t)[i] = IF i <= n THEN s[i] ELSE t[i - n]
  BY <1>1, ConcatProperties
<1>3. \A i \in 1..n : s[i] = m + i
  BY DEF s, Span
<1>4. \A i \in 1..k : t[i] = m + n + i
  BY DEF t, Span
<1>5. ASSUME NEW i \in 1..(n + k) PROVE (s \o t)[i] = Span(m, n + k)[i]
  <2>1. Span(m, n + k)[i] = m + i
    BY DEF Span
  <2>2. CASE i <= n
    BY <1>2, <1>3, <2>1, <2>2
  <2>3. CASE i > n
    <3>1. i - n \in 1..k /\ (s \o t)[i] = t[i - n]
      BY <1>2, <2>3
    <3>2. t[i - n] = m + n + (i - n)
      BY <1>4, <3>1
    <3> QED
      BY <2>1, <3>1, <3>2
  <2>4. i <= n \/ i > n
    OBVIOUS
  <2> QED
    BY <2>2, <2>3, <2>4, Zenon
<1>6. Span(m, n + k) \in Seq(Nat) /\ Len(Span(m, n + k)) = n + k
  BY SpanIsSeq
<1>7. s \o t = Span(m, n + k)
  BY <1>2, <1>5, <1>6, SeqEqual
<1> QED
  BY <1>7 DEF s, t

LEMMA ChunkIsSpan == ASSUME NEW n PROVE Y!Chunk(n) = Span(read, n)
  BY DEF Y!Chunk, Span

-----------------------------------------------------------------------------
\* The start, and the steps.

LEMMA PullStarts == ASSUME Y!Init PROVE PullInv
<1> USE DEF Y!Init
<1>1. pull.at = "open" /\ pull \in Pulls /\ answer = Y!NoAnswer /\ answer \in HostAnswers
  BY PullAssumption DEF Pulls, PullPlaces, HostAnswers, Y!NoAnswer
<1>2. answer.length = 0
  BY <1>1 DEF Y!NoAnswer
<1>3. Span(0, 0) = <<>> /\ <<>> \in Seq(Nat) /\ Len(<<>>) = 0
  BY SpanIsSeq
<1> QED
  BY <1>1, <1>2, <1>3 DEF PullInv, PullTypes, NothingTaken, TakenInOrder, Taking, PartsAreFull, LargeIsGone,
     Y!StoredWhole

LEMMA PullGoes == ASSUME pull \in Pulls, NEW at \in PullPlaces, Y!Goes(at)
                  PROVE pull' \in Pulls /\ pull'.at = at
  BY DEF Pulls, Y!Goes

\* Where nothing is asked of the state but its types.
LEMMA PullEnds == ASSUME PullTypes, Y!body' = Y!body, Y!store' = Y!store,
                         NEW at \in {"failed", "dead", "abort"}, Y!Goes(at)
                  PROVE PullInv'
<1>1. pull' \in Pulls /\ pull'.at = at
  BY PullGoes DEF PullTypes, PullPlaces
<1> QED
  BY <1>1 DEF PullInv, PullTypes, NothingTaken, TakenInOrder, Taking, PartsAreFull, LargeIsGone,
     Y!StoredWhole, Y!body, Y!store

LEMMA PullRefused == ASSUME PullInv, pull.at \in {"open", "peek"}, Y!body' = Y!body, Y!store' = Y!store,
                            Y!Goes("refused")
                     PROVE PullInv'
<1>1. pull' \in Pulls /\ pull'.at = "refused"
  BY PullGoes DEF PullInv, PullTypes, PullPlaces
<1> QED
  BY <1>1 DEF PullInv, PullTypes, NothingTaken, TakenInOrder, Taking, PartsAreFull, LargeIsGone,
     Y!StoredWhole, Y!body, Y!store

LEMMA PullRedirected == ASSUME PullInv, Y!Redirect PROVE PullInv'
<1>1. CASE pull.hops >= MaxRedirects
  BY <1>1, PullRefused DEF Y!Redirect
<1>2. CASE ~(pull.hops >= MaxRedirects)
  <2>1. PICK h \in Hosts : pull' = [at |-> "open", host |-> h, hops |-> pull.hops + 1]
    BY <1>2 DEF Y!Redirect
  <2>2. pull.hops \in 0..MaxRedirects /\ pull.hops + 1 \in 0..MaxRedirects
    BY <1>2, PullAssumption DEF PullInv, PullTypes, Pulls
  <2>3. pull' \in Pulls /\ pull'.at = "open"
    BY <2>1, <2>2 DEF Pulls, PullPlaces
  <2> QED
    BY <2>3 DEF PullInv, PullTypes, NothingTaken, TakenInOrder, Taking, PartsAreFull, LargeIsGone,
       Y!StoredWhole, Y!body, Y!store, Y!Redirect
<1> QED
  BY <1>1, <1>2

LEMMA PullAnswered == ASSUME PullInv, Y!Answers PROVE PullInv'
<1>1. pull' \in Pulls /\ pull'.at = "peek"
  BY PullGoes DEF PullInv, PullTypes, PullPlaces, Y!Answers
<1>2. PICK n \in Lengths, k \in Y!Kinds \cup {None}, declared \in {None} \cup Lengths :
        answer' = [kind |-> IF n = 0 THEN None ELSE k, length |-> n, declared |-> declared]
  BY DEF Y!Answers
<1>3. answer' \in HostAnswers /\ answer'.length = n /\ n \in Nat
  BY <1>2, PullAssumption DEF HostAnswers
<1>4. UNCHANGED <<read, first, buffer, taken, parts, joined, session, blob>> /\ pull.at = "open"
  BY DEF Y!Answers, Y!store
<1>5. read = 0
  BY <1>4 DEF PullInv, NothingTaken
<1> QED
  BY <1>1, <1>3, <1>4, <1>5 DEF PullInv, PullTypes, NothingTaken, TakenInOrder, Taking, PartsAreFull,
     LargeIsGone, Y!StoredWhole

LEMMA PullPeeks == ASSUME PullInv, Y!Peek PROVE PullInv'
<1>1. PICK n \in Y!Chunks : first' = first \o Y!Chunk(n) /\ read' = read + n
  BY DEF Y!Peek
<1>2. n \in Nat /\ read + n <= answer.length
  BY <1>1, PullAssumption DEF Y!Chunks
<1>3. first = Span(0, read) /\ read \in Nat
  BY DEF PullInv, PullTypes, NothingTaken, Y!Peek
<1>4. first' = Span(0, read')
  <2>1. Y!Chunk(n) = Span(0 + read, n)
    BY <1>3, ChunkIsSpan
  <2>2. Span(0, read) \o Span(0 + read, n) = Span(0, read + n)
    BY <1>2, <1>3, SpansJoin
  <2> QED
    BY <1>1, <1>3, <2>1, <2>2
<1>5. first' \in Seq(Nat) /\ Len(first') = read' /\ read' \in Nat
  <2>1. read' \in Nat
    BY <1>1, <1>2, <1>3
  <2> QED
    BY <1>4, <2>1, SpanIsSeq
<1>6. UNCHANGED <<pull, answer, buffer, taken, parts, joined, session, blob>> /\ pull.at = "peek"
  BY DEF Y!Peek, Y!store
<1> QED
  BY <1>1, <1>2, <1>4, <1>5, <1>6 DEF PullInv, PullTypes, NothingTaken, TakenInOrder, Taking, PartsAreFull,
     LargeIsGone, Y!StoredWhole

LEMMA PullSniffs == ASSUME PullInv, Y!Sniff PROVE PullInv'
<1>1. CASE answer.kind = None \/ (answer.declared # None /\ answer.declared > MaxBytes[answer.kind])
  BY <1>1, PullRefused, Zenon DEF Y!Sniff
<1>2. CASE ~(answer.kind = None \/ (answer.declared # None /\ answer.declared > MaxBytes[answer.kind]))
  <2>1. Y!Goes("put")
    BY <1>2, Zenon DEF Y!Sniff
  <2>2. pull' \in Pulls /\ pull'.at = "put"
    BY <2>1, PullGoes DEF PullInv, PullTypes, PullPlaces
  <2>3. answer.kind \in Y!Kinds /\ MaxBytes[answer.kind] \in Nat
    BY <1>2, PullAssumption DEF PullInv, PullTypes, HostAnswers, Y!Kinds
  <2>4. UNCHANGED <<answer, read, first, buffer, taken, parts, joined, session, blob>> /\ pull.at = "peek"
    BY DEF Y!Sniff, Y!store, Y!body
  <2>5. joined = Span(0, 0) /\ buffer = Span(0, 0) /\ Len(joined) = 0 /\ Len(buffer) = 0
    BY <2>4, SpanIsSeq DEF PullInv, NothingTaken
  <2> QED
    BY <2>2, <2>3, <2>4, <2>5 DEF PullInv, PullTypes, NothingTaken, TakenInOrder, Taking, PartsAreFull,
       LargeIsGone, Y!StoredWhole
<1> QED
  BY <1>1, <1>2

-----------------------------------------------------------------------------
\* putStream.

\* n bytes are taken: those peeked at, or those that came just now.
LEMMA PullTakes == ASSUME PullInv, NEW n \in Nat, pull.at = "put", Y!Takes(Span(taken, n)),
                          first' = <<>>, taken + n = read', read' <= answer.length,
                          UNCHANGED <<answer, parts, joined, session, blob>>
                   PROVE PullInv'
<1>1. Len(Span(taken, n)) = n /\ taken \in Nat
  BY SpanIsSeq DEF PullInv, PullTypes
<1>2. taken' = taken + n /\ taken' \in Nat /\ read' = taken' /\ first' \in Seq(Nat) /\ Len(first') = 0
  BY <1>1 DEF Y!Takes
<1>3. CASE Y!TooLarge(n)
  <2>1. Y!Goes("abort-large") /\ buffer' = buffer
    BY <1>1, <1>3, Zenon DEF Y!Takes
  <2>2. pull' \in Pulls /\ pull'.at = "abort-large"
    BY <2>1, PullGoes DEF PullInv, PullTypes, PullPlaces
  <2> QED
    BY <1>2, <2>1, <2>2 DEF PullInv, PullTypes, NothingTaken, TakenInOrder, Taking, PartsAreFull,
       LargeIsGone, Y!StoredWhole
<1>4. CASE ~Y!TooLarge(n)
  <2>1. /\ buffer' = buffer \o Span(taken, n)
        /\ Y!Goes(IF Len(buffer') >= PartBytes THEN "flush" ELSE "put")
    BY <1>1, <1>4, Zenon DEF Y!Takes
  <2>2. /\ buffer = Span(Len(joined), Len(buffer)) /\ Len(joined) + Len(buffer) = taken
        /\ Len(joined) \in Nat /\ Len(buffer) \in Nat
    <3>1. Len(joined) \in Nat /\ Len(buffer) \in Nat
      BY DEF PullInv, PullTypes
    <3> QED
      BY <3>1 DEF PullInv, TakenInOrder, Taking
  <2>3. buffer' = Span(Len(joined), Len(buffer) + n)
    <3>1. Span(Len(joined), Len(buffer)) \o Span(Len(joined) + Len(buffer), n) = Span(Len(joined), Len(buffer) + n)
      BY <2>2, SpansJoin
    <3> QED
      BY <2>1, <2>2, <3>1
  <2>4. buffer' \in Seq(Nat) /\ Len(buffer') = Len(buffer) + n
    BY <2>2, <2>3, SpanIsSeq
  <2>5. pull' \in Pulls /\ pull'.at = IF Len(buffer') >= PartBytes THEN "flush" ELSE "put"
    BY <2>1, PullGoes DEF PullInv, PullTypes, PullPlaces
  <2>6. taken' <= MaxBytes[answer.kind]
    <3>1. MaxBytes[answer.kind] \in Nat
      BY PullAssumption DEF PullInv, TakenInOrder, Taking, Y!Kinds
    <3> QED
      BY <1>2, <1>4, <3>1 DEF Y!TooLarge
  <2>7. buffer' = Span(Len(joined'), Len(buffer')) /\ Len(joined') + Len(buffer') = taken'
    BY <1>2, <2>2, <2>3, <2>4
  <2>8. Len(buffer') <= taken' /\ (pull'.at = "flush" => Len(buffer') >= PartBytes) /\ pull'.at \in {"put", "flush"}
    BY <1>2, <2>2, <2>4, <2>5
  <2>9. PullTypes' /\ NothingTaken' /\ LargeIsGone' /\ Y!StoredWhole'
    BY <1>2, <2>4, <2>5, <2>8 DEF PullInv, PullTypes, NothingTaken, LargeIsGone, Y!StoredWhole
  <2>10. TakenInOrder'
    BY <1>2, <2>6, <2>7, <2>8 DEF PullInv, TakenInOrder, Taking
  <2>11. PartsAreFull'
    BY <2>8 DEF PullInv, PartsAreFull, Taking
  <2> QED
    BY <2>9, <2>10, <2>11 DEF PullInv
<1> QED
  BY <1>3, <1>4

LEMMA PullTakesPeeked == ASSUME PullInv, Y!TakePeeked PROVE PullInv'
<1>1. /\ pull.at = "put" /\ first # <<>> /\ Y!Takes(first) /\ first' = <<>>
      /\ UNCHANGED <<answer, read, parts, joined, session, blob>>
  BY DEF Y!TakePeeked, Y!Replay
<1>2. taken = 0 /\ first = Span(taken, read) /\ read \in Nat /\ read <= answer.length
  BY <1>1 DEF PullInv, PullTypes, TakenInOrder, Taking
<1>3. Y!Takes(Span(taken, read)) /\ taken + read = read'
  BY <1>1, <1>2
<1> QED
  BY <1>1, <1>2, <1>3, PullTakes

LEMMA PullTakesChunk == ASSUME PullInv, Y!TakeChunk PROVE PullInv'
<1>1. PICK n \in Y!Chunks : Y!Takes(Y!Chunk(n)) /\ read' = read + n
  BY DEF Y!TakeChunk
<1>2. /\ pull.at = "put" /\ first = <<>> /\ first' = <<>>
      /\ UNCHANGED <<answer, parts, joined, session, blob>>
  BY DEF Y!TakeChunk
<1>3. n \in Nat /\ read + n <= answer.length
  BY <1>1, PullAssumption DEF Y!Chunks
<1>4. taken = read
  <2>1. CASE first = Span(0, read) /\ taken = 0
    <3>1. Len(first) = read /\ Len(first) = 0
      BY <1>2, <2>1, SpanIsSeq DEF PullInv, PullTypes
    <3> QED
      BY <2>1, <3>1
  <2> QED
    BY <1>2, <2>1 DEF PullInv, TakenInOrder, Taking
<1>5. Y!Takes(Span(taken, n))
  BY <1>1, <1>4, ChunkIsSpan
<1> QED
  BY <1>1, <1>2, <1>3, <1>4, <1>5, PullTakes

\* A step that only moves on, or opens the session.
LEMMA PullSessionStarts == ASSUME PullInv, Y!StartSession PROVE PullInv'
<1>1. UNCHANGED <<answer, read, first, buffer, taken, parts, joined, blob>> /\ pull.at \in {"flush", "last"}
  BY DEF Y!StartSession, Y!body
<1>2. CASE session' = "open" /\ pull' = pull
  BY <1>1, <1>2 DEF PullInv, PullTypes, NothingTaken, TakenInOrder, Taking, PartsAreFull, LargeIsGone, Y!StoredWhole
<1>3. CASE Y!Goes("abort") /\ session' \in {"none", "left"}
  <2>1. pull' \in Pulls /\ pull'.at = "abort"
    BY <1>3, PullGoes DEF PullInv, PullTypes, PullPlaces
  <2> QED
    BY <1>1, <1>3, <2>1 DEF PullInv, PullTypes, NothingTaken, TakenInOrder, Taking, PartsAreFull, LargeIsGone,
       Y!StoredWhole
<1> QED
  BY <1>2, <1>3 DEF Y!StartSession

LEMMA PullPartSent == ASSUME PullInv, Y!SendPart PROVE PullInv'
<1>1. UNCHANGED <<answer, read, first, taken, session, blob>> /\ pull.at \in {"flush", "last"} /\ session = "open"
  BY DEF Y!SendPart, Y!body
<1>2. CASE Y!Goes("abort") /\ UNCHANGED <<parts, joined, buffer>>
  BY <1>1, <1>2, PullEnds DEF PullInv, Y!body, Y!store
<1>3. CASE /\ parts' = Append(parts, Len(buffer)) /\ joined' = joined \o buffer /\ buffer' = <<>>
           /\ Y!Goes(IF pull.at = "last" THEN "complete" ELSE "put")
  <2>1. /\ joined = Span(0, Len(joined)) /\ buffer = Span(Len(joined), Len(buffer))
        /\ Len(joined) + Len(buffer) = taken /\ first = <<>> /\ taken = read
        /\ Len(joined) \in Nat /\ Len(buffer) \in Nat
    BY <1>1 DEF PullInv, PullTypes, TakenInOrder, Taking
  <2>2. joined' = Span(0, taken)
    <3>1. joined \o buffer = Span(0, Len(joined)) \o Span(0 + Len(joined), Len(buffer))
      BY <2>1
    <3>2. @ = Span(0, Len(joined) + Len(buffer))
      BY <2>1, SpansJoin
    <3> QED
      BY <1>3, <2>1, <3>1, <3>2
  <2>3. joined' \in Seq(Nat) /\ Len(joined') = taken /\ buffer' = Span(taken, 0) /\ Len(buffer') = 0 /\ buffer' \in Seq(Nat)
    BY <1>3, <2>2, SpanIsSeq DEF PullInv, PullTypes
  <2>4. pull' \in Pulls /\ pull'.at = IF pull.at = "last" THEN "complete" ELSE "put"
    BY <1>3, PullGoes DEF PullInv, PullTypes, PullPlaces
  <2>5. /\ parts' \in Seq(Nat) /\ Len(parts') = Len(parts) + 1 /\ parts'[Len(parts')] = Len(buffer)
        /\ \A i \in 1..Len(parts) : parts'[i] = parts[i]
    BY <1>3, <2>1 DEF PullInv, PullTypes
  <2>6. /\ \A i \in 1..(Len(parts') - 1) : parts'[i] >= PartBytes
        /\ pull'.at = "put" => \A i \in 1..Len(parts') : parts'[i] >= PartBytes
    <3>1. \A i \in 1..Len(parts) : parts[i] >= PartBytes
      BY <1>1 DEF PullInv, PartsAreFull, Taking
    <3>2. pull'.at = "put" => Len(buffer) >= PartBytes
      BY <1>1, <2>4 DEF PullInv, PartsAreFull, Taking
    <3>3. Len(parts) \in Nat
      BY DEF PullInv, PullTypes
    <3>4. \A i \in 1..(Len(parts') - 1) : parts'[i] >= PartBytes
      BY <2>5, <3>1, <3>3
    <3>5. ASSUME pull'.at = "put", NEW i \in 1..Len(parts') PROVE parts'[i] >= PartBytes
      <4>1. CASE i = Len(parts')
        BY <2>5, <3>2, <3>5, <4>1
      <4>2. CASE i # Len(parts')
        <5>1. i \in 1..(Len(parts') - 1)
          BY <2>5, <3>3, <4>2
        <5> QED
          BY <3>4, <5>1
      <4> QED
        BY <4>1, <4>2
    <3> QED
      BY <3>4, <3>5
  <2>7. PullTypes' /\ NothingTaken' /\ LargeIsGone' /\ Y!StoredWhole'
    BY <1>1, <2>3, <2>4, <2>5 DEF PullInv, PullTypes, NothingTaken, LargeIsGone, Y!StoredWhole
  <2>8. TakenInOrder'
    <3>1. taken \in Nat
      BY DEF PullInv, PullTypes
    <3> QED
      BY <1>1, <2>1, <2>2, <2>3, <3>1 DEF PullInv, TakenInOrder, Taking
  <2>9. PartsAreFull'
    BY <1>1, <1>3, <2>4, <2>6 DEF PullInv, PartsAreFull, Taking
  <2> QED
    BY <2>7, <2>8, <2>9 DEF PullInv
<1> QED
  BY <1>2, <1>3 DEF Y!SendPart

LEMMA PullBodyEnds == ASSUME PullInv, Y!EndOfBody PROVE PullInv'
<1>1. /\ UNCHANGED <<answer, read, first, buffer, taken, parts, joined, session, blob>>
      /\ pull.at = "put" /\ first = <<>> /\ read = answer.length
  BY DEF Y!EndOfBody, Y!body, Y!store
<1>2. PICK at \in {"single", "last", "complete"} :
        /\ Y!Goes(at)
        /\ at = "single" => session = "none"
        /\ at = "last" => session # "none"
        /\ at = "complete" => session # "none" /\ buffer = <<>>
  BY Zenon DEF Y!EndOfBody
<1>3. pull' \in Pulls /\ pull'.at = at
  BY <1>2, PullGoes DEF PullInv, PullTypes, PullPlaces
<1>4. taken = read
  <2>1. CASE first = Span(0, read) /\ taken = 0
    <3>1. Len(first) = read /\ Len(first) = 0
      BY <1>1, <2>1, SpanIsSeq DEF PullInv, PullTypes
    <3> QED
      BY <2>1, <3>1
  <2> QED
    BY <1>1, <2>1 DEF PullInv, TakenInOrder, Taking
<1> QED
  BY <1>1, <1>2, <1>3, <1>4 DEF PullInv, PullTypes, NothingTaken, TakenInOrder, Taking, PartsAreFull,
     LargeIsGone, Y!StoredWhole

LEMMA PullSinglePut == ASSUME PullInv, Y!PutSingle PROVE PullInv'
<1>1. UNCHANGED <<answer, read, first, buffer, taken, parts, joined, session>> /\ pull.at = "single"
  BY DEF Y!PutSingle, Y!body
<1>2. CASE blob' = buffer /\ Y!Goes("stored")
  <2>1. pull' \in Pulls /\ pull'.at = "stored"
    BY <1>2, PullGoes DEF PullInv, PullTypes, PullPlaces
  <2>2. session = "none" /\ joined = <<>> /\ Len(joined) = 0 /\ parts = <<>> /\ Len(parts) = 0
    BY <1>1 DEF PullInv, TakenInOrder, PartsAreFull, Taking
  <2>3. taken = answer.length /\ buffer = Span(0, taken) /\ taken <= MaxBytes[answer.kind]
    BY <1>1, <2>2 DEF PullInv, PullTypes, TakenInOrder, PartsAreFull, Taking
  <2>4. buffer = [i \in 1..answer.length |-> i]
    BY <2>3 DEF Span, PullInv, PullTypes
  <2> QED
    BY <1>1, <1>2, <2>1, <2>2, <2>3, <2>4 DEF PullInv, PullTypes, NothingTaken, TakenInOrder, Taking, PartsAreFull,
       LargeIsGone, Y!StoredWhole
<1>3. CASE Y!Goes("failed")
  <2>1. pull' \in Pulls /\ pull'.at = "failed"
    BY <1>3, PullGoes DEF PullInv, PullTypes, PullPlaces
  <2> QED
    BY <1>1, <2>1 DEF PullInv, PullTypes, NothingTaken, TakenInOrder, Taking, PartsAreFull, LargeIsGone,
       Y!StoredWhole
<1> QED
  BY <1>2, <1>3 DEF Y!PutSingle

LEMMA PullCompletes == ASSUME PullInv, Y!Complete PROVE PullInv'
<1>1. UNCHANGED <<answer, read, first, buffer, taken, parts, joined>> /\ pull.at = "complete"
  BY DEF Y!Complete, Y!body
<1>2. CASE blob' = joined /\ session' = "over" /\ Y!Goes("stored")
  <2>1. pull' \in Pulls /\ pull'.at = "stored"
    BY <1>2, PullGoes DEF PullInv, PullTypes, PullPlaces
  <2>2. buffer = <<>> /\ Len(buffer) = 0
    BY <1>1 DEF PullInv, PartsAreFull, Taking
  <2>3. taken = answer.length /\ joined = Span(0, taken) /\ taken <= MaxBytes[answer.kind]
    BY <1>1, <2>2 DEF PullInv, PullTypes, TakenInOrder, PartsAreFull, Taking
  <2>4. joined = [i \in 1..answer.length |-> i]
    BY <2>3 DEF Span, PullInv, PullTypes
  <2> QED
    BY <1>1, <1>2, <2>1, <2>3, <2>4 DEF PullInv, PullTypes, NothingTaken, TakenInOrder, Taking, PartsAreFull,
       LargeIsGone, Y!StoredWhole
<1>3. CASE Y!Goes("abort") /\ session' \in {"over", session}
  <2>1. pull' \in Pulls /\ pull'.at = "abort"
    BY <1>3, PullGoes DEF PullInv, PullTypes, PullPlaces
  <2> QED
    BY <1>1, <1>3, <2>1 DEF PullInv, PullTypes, NothingTaken, TakenInOrder, Taking, PartsAreFull, LargeIsGone,
       Y!StoredWhole
<1> QED
  BY <1>2, <1>3 DEF Y!Complete

LEMMA PullAborts == ASSUME PullInv, Y!Abort PROVE PullInv'
<1>1. UNCHANGED <<answer, read, first, buffer, taken, parts, joined, blob>> /\ pull.at \in {"abort", "abort-large"}
  BY DEF Y!Abort, Y!body
<1>2. session' \in {"none", "over", "left"}
  BY DEF Y!Abort, PullInv, PullTypes
<1>3. PICK at \in {"refused", "failed"} : Y!Goes(at) /\ (at = "refused" => pull.at = "abort-large")
  BY Zenon DEF Y!Abort
<1>4. pull' \in Pulls /\ pull'.at = at
  BY <1>3, PullGoes DEF PullInv, PullTypes, PullPlaces
<1> QED
  BY <1>1, <1>2, <1>3, <1>4 DEF PullInv, PullTypes, NothingTaken, TakenInOrder, Taking, PartsAreFull,
     LargeIsGone, Y!StoredWhole

LEMMA PullStep == ASSUME PullInv, [Y!Next]_pullVars PROVE PullInv'
<1>1. CASE UNCHANGED pullVars
  BY <1>1 DEF pullVars, PullInv, PullTypes, NothingTaken, TakenInOrder, Taking, PartsAreFull, LargeIsGone,
     Y!StoredWhole
<1>2. CASE Y!Refuse
  BY <1>2, PullRefused DEF Y!Refuse
<1>3. CASE Y!Redirect
  BY <1>3, PullRedirected
<1>4. CASE Y!StatusRefused
  BY <1>4, PullRefused DEF Y!StatusRefused
<1>5. CASE Y!Answers
  BY <1>5, PullAnswered
<1>6. CASE Y!Breaks
  BY <1>6, PullEnds DEF Y!Breaks, PullInv
<1>7. CASE Y!Peek
  BY <1>7, PullPeeks
<1>8. CASE Y!Sniff
  BY <1>8, PullSniffs
<1>9. CASE Y!TakePeeked
  BY <1>9, PullTakesPeeked
<1>10. CASE Y!TakeChunk
  BY <1>10, PullTakesChunk
<1>11. CASE Y!StartSession
  BY <1>11, PullSessionStarts
<1>12. CASE Y!SendPart
  BY <1>12, PullPartSent
<1>13. CASE Y!EndOfBody
  BY <1>13, PullBodyEnds
<1>14. CASE Y!PutSingle
  BY <1>14, PullSinglePut
<1>15. CASE Y!Complete
  BY <1>15, PullCompletes
<1>16. CASE Y!Abort
  BY <1>16, PullAborts
<1>17. CASE Y!Crash
  BY <1>17, PullEnds DEF Y!Crash, PullInv
<1> QED
  BY <1>1, <1>2, <1>3, <1>4, <1>5, <1>6, <1>7, <1>8, <1>9, <1>10, <1>11, <1>12, <1>13, <1>14, <1>15, <1>16, <1>17
     DEF Y!Next

LEMMA PullFollows == ASSUME [MCNext]_allVars PROVE [Y!Next]_pullVars
  BY DEF MCNext, allVars, pullVars

LEMMA PullAlways == MCSpec => []PullInv
<1>1. MCInit => PullInv
  BY PullStarts DEF MCInit
<1>2. PullInv /\ [MCNext]_allVars => PullInv'
  BY PullStep, PullFollows
<1> QED
  BY <1>1, <1>2, PTL DEF MCSpec

-----------------------------------------------------------------------------
\* However often a job is delivered, its worker dies, or the same file is imported beside it, the file has
\* one asset, its object is there, and its bytes are charged once; and what a delivery stores is the
\* whole body, in order, or nothing (imports.ts, fetch-url.ts, client.ts putStream).
THEOREM ImportsAreKept == MCSpec => []ImportedIsKept
<1>1. JobsInv /\ PullInv => ImportedIsKept
  BY ImportedFromInv DEF ImportedIsKept, PullInv
<1> QED
  BY <1>1, JobsAlways, PullAlways, PTL

-----------------------------------------------------------------------------
\* New documents of files.

Uploading == [at : {"none", "active", "verifying", "done", "failed", "cancelled"}, asset : Assets \cup {None}]
Fetching == [at : {"none", "queued", "succeeded", "failed"}, asset : Assets \cup {None}]
EntryRecords == [by : {"upload", "fetch", None}, file : Files \cup {None}]
AssetRecords == [file : Files \cup {None}, status : N!Statuses]
NewRequests == [at : {"none", "read", "insert", "refused", "done"}, kind : {"import", "notebook", None},
             items : Seq(Assets), shown : Seq(Files)]
NewDocuments == [sources : Seq(Assets), cover : Seq(Assets),
                 pages : UNION {{N!Only(s, X) : X \in SUBSET Assets} : s \in Seq(Assets)},
                 pdf : BOOLEAN, bytes : Nat, shown : Seq(Files)]

NewTypes ==
  /\ dialog \in {"closed", "open", "busy", "left"}
  /\ list \in Seq(Entries) /\ cover \in Entries \cup {None}
  /\ entry \in [Entries -> EntryRecords]
  /\ upload \in [Entries -> Uploading] /\ fetched \in [Entries -> Fetching] /\ seen \in [Entries -> Fetching]
  /\ stored \in [Assets -> AssetRecords]
  /\ request \in NewRequests /\ (request.at = "none") = (dialog # "busy")
  /\ documents \in Seq(NewDocuments)

\* An asset has a file, and a file one live asset.
Held(x) == stored[x].status # "none"
Alive(x) == stored[x].status \in {"verifying", "ready"}
AssetsRight ==
  /\ \A x \in Assets : Held(x) => stored[x].file \in Files
  /\ \A x, y \in Assets : Alive(x) /\ Alive(y) /\ stored[x].file = stored[y].file => x = y

\* What the dialog knows of its entries is true of the assets that they became.
EntryRight(e) ==
  /\ entry[e].by = "upload" => entry[e].file \in Files
  /\ upload[e].at # "none" => entry[e].by = "upload"
  /\ upload[e].at \in {"verifying", "done"} =>
       upload[e].asset \in Assets /\ Held(upload[e].asset) /\ stored[upload[e].asset].file = entry[e].file
  /\ fetched[e].at = "succeeded" => fetched[e].asset \in Assets /\ Held(fetched[e].asset)
  /\ seen[e].at = "succeeded" => seen[e].asset \in Assets /\ Held(seen[e].asset)
CoverRight == cover # None => entry[cover].by = "upload" /\ entry[cover].file \notin Pdfs
EntriesRight == (\A e \in Entries : EntryRight(e)) /\ CoverRight

\* Assets are of the files shown; once they were read, they are different files, verified.
Matches(items, files) ==
  /\ items \in Seq(Assets) /\ files \in Seq(Files) /\ Len(items) = Len(files)
  /\ \A i \in 1..Len(items) : Held(items[i]) /\ stored[items[i]].file = files[i]
Verified(items) == \A i \in 1..Len(items) : stored[items[i]].status \in {"ready", "gone"}
Asked(r) ==
  r.at # "none" =>
    /\ r.kind # None /\ Matches(r.items, r.shown)
    /\ r.kind = "notebook" => \A i \in 1..Len(r.items) : N!Image(r.items[i])
    /\ r.at = "insert" =>
         /\ Verified(r.items)
         /\ \A i, j \in 1..Len(r.items) : r.shown[i] = r.shown[j] => r.items[i] = r.items[j]
RequestRight == \A r \in {request} : Asked(r)

DocumentRight(d) ==
  /\ d \in NewDocuments
  /\ Matches(d.sources \o d.cover, d.shown) /\ Verified(d.sources \o d.cover)
  /\ d.pages = N!PagesOf(d.sources)
  /\ d.bytes = N!Cardinality(N!Range(d.shown))
  /\ d.pdf <=> \E x \in N!Range(d.sources) : stored[x].file \in Pdfs
  /\ \A x \in N!Range(d.cover) : N!Image(x)
DocumentsRight == \A d \in N!Range(documents) : DocumentRight(d)

\* The inductive invariant behind CreatedAsListed.
NewInv == NewTypes /\ AssetsRight /\ EntriesRight /\ RequestRight /\ DocumentsRight

LEMMA NewTypesFit == ASSUME NewTypes PROVE N!TypeOK
<1>1. \A e \in Entries :
       /\ upload[e].at \in {"none", "active", "verifying", "done", "failed", "cancelled"}
       /\ upload[e].asset \in Assets \cup {None}
  BY DEF NewTypes, Uploading
<1>2. \A e \in Entries :
       /\ fetched[e].at \in {"none", "queued", "succeeded", "failed"}
       /\ seen[e].at \in {"none", "queued", "succeeded", "failed"}
       /\ fetched[e].asset \in Assets \cup {None} /\ seen[e].asset \in Assets \cup {None}
  BY DEF NewTypes, Fetching
<1>3. request.items \in Seq(Assets)
  BY DEF NewTypes, NewRequests
<1> QED
  BY <1>1, <1>2, <1>3 DEF NewTypes, N!TypeOK, EntryRecords, AssetRecords

LEMMA SliceOfSeq ==
  ASSUME NEW X, NEW s \in Seq(X), NEW m \in Nat \ {0}, NEW n \in Int, n <= Len(s)
  PROVE SubSeq(s, m, n) \in Seq(X)
<1>1. \A i \in m..n : s[i] \in X
  BY LenProperties, ElementOfSeq
<1> QED
  BY <1>1, SubSeqProperties

LEMMA InRange == ASSUME NEW X, NEW s \in Seq(X)
                 PROVE /\ \A x \in N!Range(s) : x \in X /\ \E i \in 1..Len(s) : x = s[i]
                       /\ \A i \in 1..Len(s) : s[i] \in N!Range(s) /\ s[i] \in X
<1>1. DOMAIN s = 1..Len(s)
  BY LenProperties
<1>2. \A i \in 1..Len(s) : s[i] \in X
  BY ElementOfSeq
<1> QED
  BY <1>1, <1>2 DEF N!Range

LEMMA InBoth == ASSUME NEW X, NEW s \in Seq(X), NEW q \in Seq(X)
                PROVE /\ \A j \in 1..Len(s) : j \in 1..Len(s \o q) /\ (s \o q)[j] = s[j]
                      /\ \A j \in 1..Len(q) : Len(s) + j \in 1..Len(s \o q) /\ (s \o q)[Len(s) + j] = q[j]
<1>1. Len(s) \in Nat /\ Len(q) \in Nat
  BY LenProperties
<1>2. /\ Len(s \o q) = Len(s) + Len(q)
      /\ \A i \in 1..Len(s) + Len(q) : (s \o q)[i] = IF i <= Len(s) THEN s[i] ELSE q[i - Len(s)]
  BY ConcatProperties
<1>3. ASSUME NEW j \in 1..Len(s) PROVE j \in 1..Len(s \o q) /\ (s \o q)[j] = s[j]
  BY <1>1, <1>2
<1>4. ASSUME NEW j \in 1..Len(q) PROVE Len(s) + j \in 1..Len(s \o q) /\ (s \o q)[Len(s) + j] = q[j]
  <2>1. Len(s) + j \in 1..Len(s) + Len(q) /\ ~ (Len(s) + j <= Len(s)) /\ (Len(s) + j) - Len(s) = j
    BY <1>1
  <2> QED
    BY <1>2, <2>1
<1> QED
  BY <1>3, <1>4

LEMMA ListedFromDocuments == ASSUME NewInv PROVE N!CreatedAsListed
<1> SUFFICES ASSUME NEW d \in N!Range(documents)
             PROVE /\ Len(d.sources \o d.cover) = Len(d.shown)
                   /\ \A i \in DOMAIN (d.sources \o d.cover) : stored[(d.sources \o d.cover)[i]].file = d.shown[i]
                   /\ \A x \in N!Range(d.sources \o d.cover) : stored[x].status \in {"ready", "gone"}
                   /\ d.pages = N!PagesOf(d.sources)
                   /\ d.bytes = N!Cardinality(N!Range(d.shown))
                   /\ d.pdf <=> \E x \in N!Range(d.sources) : stored[x].file \in Pdfs
                   /\ \A x \in N!Range(d.cover) : N!Image(x)
  BY DEF N!CreatedAsListed
<1>2. DocumentRight(d)
  BY DEF NewInv, DocumentsRight
<1> DEFINE both == d.sources \o d.cover
<1>3. both \in Seq(Assets) /\ DOMAIN both = 1..Len(both)
  BY <1>2, LenProperties DEF DocumentRight, Matches
<1>4. \A x \in N!Range(both) : stored[x].status \in {"ready", "gone"}
  <2>1. \A x \in N!Range(both) : \E k \in 1..Len(both) : x = both[k]
    BY <1>3, InRange
  <2>2. \A k \in 1..Len(both) : stored[both[k]].status \in {"ready", "gone"}
    BY <1>2 DEF DocumentRight, Verified
  <2> HIDE DEF both
  <2> QED
    BY <2>1, <2>2
<1> QED
  BY <1>2, <1>3, <1>4 DEF DocumentRight, Matches

-----------------------------------------------------------------------------
\* What stays when assets are added, verified and purged.

\* Assets keep their files, and verified ones stay verified.
Ageing == /\ \A x \in Assets : Held(x) => stored'[x].status # "none" /\ stored'[x].file = stored[x].file
          /\ \A x \in Assets : stored[x].status \in {"ready", "gone"} => stored'[x].status \in {"ready", "gone"}

LEMMA MatchesAges == ASSUME Ageing, NEW items, NEW files, Matches(items, files)
                     PROVE Matches(items, files)'
<1>1. \A i \in 1..Len(items) : items[i] \in Assets
  BY ElementOfSeq DEF Matches
<1> QED
  BY <1>1 DEF Matches, Held, Ageing

LEMMA VerifiedAges == ASSUME Ageing, NEW items \in Seq(Assets), Verified(items) PROVE Verified(items)'
<1>1. \A i \in 1..Len(items) : items[i] \in Assets
  BY ElementOfSeq
<1> QED
  BY <1>1 DEF Verified, Ageing

LEMMA PagesAge == ASSUME Ageing, NEW items \in Seq(Assets), \A x \in N!Range(items) : Held(x)
                  PROVE /\ N!PagesOf(items)' = N!PagesOf(items)
                        /\ \A x \in N!Range(items) : stored'[x].file = stored[x].file
<1>0. \A x \in N!Range(items) : x \in Assets
  BY InRange
<1>1. \A x \in N!Range(items) : stored'[x].file = stored[x].file
  BY <1>0 DEF Ageing
<1>2. {x \in N!Range(items) : stored'[x].file \notin Pdfs} = {x \in N!Range(items) : stored[x].file \notin Pdfs}
  BY <1>1
<1> QED
  BY <1>1, <1>2 DEF N!PagesOf, N!Image

LEMMA DocumentAges == ASSUME Ageing, NEW d, DocumentRight(d) PROVE DocumentRight(d)'
<1> DEFINE both == d.sources \o d.cover
<1>2. d.sources \in Seq(Assets) /\ d.cover \in Seq(Assets)
  BY DEF DocumentRight, NewDocuments
<1>3. Matches(both, d.shown) /\ Verified(both)
  BY DEF DocumentRight
<1>4. (\A x \in N!Range(d.sources) : Held(x)) /\ (\A x \in N!Range(d.cover) : Held(x))
  <2>1. ASSUME NEW k \in 1..Len(d.sources) PROVE Held(d.sources[k])
    <3>1. k \in 1..Len(both) /\ both[k] = d.sources[k]
      BY <1>2, InBoth
    <3> QED
      BY <1>3, <3>1 DEF Matches
  <2>2. ASSUME NEW k \in 1..Len(d.cover) PROVE Held(d.cover[k])
    <3>0. \A s, q \in Seq(Assets) : \A j \in 1..Len(q) : Len(s) + j \in 1..Len(s \o q) /\ (s \o q)[Len(s) + j] = q[j]
      BY InBoth
    <3>1. Len(d.sources) + k \in 1..Len(both) /\ both[Len(d.sources) + k] = d.cover[k]
      BY Zenon, <1>2, <3>0
    <3> QED
      BY <1>3, <3>1 DEF Matches
  <2>3. /\ \A x \in N!Range(d.sources) : \E k \in 1..Len(d.sources) : x = d.sources[k]
        /\ \A x \in N!Range(d.cover) : \E k \in 1..Len(d.cover) : x = d.cover[k]
    BY <1>2, InRange
  <2> QED
    BY <2>1, <2>2, <2>3
<1>5. /\ N!PagesOf(d.sources)' = N!PagesOf(d.sources)
      /\ \A x \in N!Range(d.sources) : stored'[x].file = stored[x].file
      /\ \A x \in N!Range(d.cover) : stored'[x].file = stored[x].file
  BY <1>2, <1>4, PagesAge
<1>6. Matches(both, d.shown)' /\ Verified(both)'
  <2>1. both \in Seq(Assets)
    BY <1>3 DEF Matches
  <2>2. Matches(both, d.shown)'
    <3> HIDE DEF both
    <3> QED
      BY <1>3, MatchesAges
  <2>3. Verified(both)'
    <3> HIDE DEF both
    <3> QED
      BY <1>3, <2>1, VerifiedAges
  <2> QED
    BY <2>2, <2>3
<1> QED
  BY <1>5, <1>6 DEF DocumentRight, N!Image

LEMMA DocumentsAge == ASSUME DocumentsRight, Ageing, UNCHANGED documents PROVE DocumentsRight'
  BY DocumentAges DEF DocumentsRight

LEMMA AskedAges == ASSUME Ageing, NEW r \in NewRequests, Asked(r) PROVE Asked(r)'
<1> SUFFICES ASSUME r.at # "none" PROVE Asked(r)'
  BY DEF Asked
<1> DEFINE items == r.items
<1>1. items \in Seq(Assets) /\ \A i \in 1..Len(items) : items[i] \in Assets /\ Held(items[i])
  BY ElementOfSeq DEF NewRequests, Asked, Matches
<1>2. Matches(items, r.shown)' /\ (r.at = "insert" => Verified(items)')
  BY <1>1, MatchesAges, VerifiedAges DEF Asked
<1>3. \A i \in 1..Len(items) : stored'[items[i]].file = stored[items[i]].file
  BY <1>1 DEF Ageing
<1> QED
  BY <1>2, <1>3 DEF Asked, N!Image

LEMMA RequestAges == ASSUME request \in NewRequests, RequestRight, Ageing, UNCHANGED request PROVE RequestRight'
  BY AskedAges DEF RequestRight

\* An entry that a step does not touch.
SameEntry(e) == entry'[e] = entry[e] /\ upload'[e] = upload[e] /\ fetched'[e] = fetched[e] /\ seen'[e] = seen[e]

LEMMA EntryAges == ASSUME Ageing, NEW e \in Entries, EntryRight(e), SameEntry(e) PROVE EntryRight(e)'
  BY DEF Ageing, EntryRight, SameEntry, Held

LEMMA CoverKept ==
  ASSUME NewInv, cover' = cover \/ cover' = None, \A e \in Entries : entry[e].by = "upload" => entry'[e] = entry[e]
  PROVE CoverRight'
  BY DEF NewInv, NewTypes, EntriesRight, CoverRight

\* A step of the entries and the assets.
LEMMA NewKept ==
  ASSUME NewInv, NewTypes', AssetsRight', Ageing, UNCHANGED <<request, documents>>,
         \A e \in Entries : SameEntry(e) \/ EntryRight(e)', CoverRight'
  PROVE NewInv'
<1>1. EntriesRight'
  BY EntryAges DEF NewInv, EntriesRight
<1>2. RequestRight'
  BY RequestAges DEF NewInv, NewTypes
<1>3. DocumentsRight'
  BY DocumentsAge DEF NewInv
<1> QED
  BY <1>1, <1>2, <1>3 DEF NewInv

\* ... of the entries alone.
LEMMA EntriesKept ==
  ASSUME NewInv, NewTypes', UNCHANGED <<stored, request, documents>>,
         \A e \in Entries : SameEntry(e) \/ EntryRight(e)', CoverRight'
  PROVE NewInv'
<1>1. Ageing
  BY DEF Ageing, Held
<1>2. AssetsRight'
  BY DEF NewInv, AssetsRight, Held, Alive
<1> QED
  BY <1>1, <1>2, NewKept

LEMMA NewStarts == ASSUME N!Init PROVE NewInv
<1>1. /\ dialog = "closed" /\ list = <<>> /\ cover = None
      /\ entry = [e \in Entries |-> [by |-> None, file |-> None]]
      /\ upload = [e \in Entries |-> [at |-> "none", asset |-> None]]
      /\ fetched = [e \in Entries |-> [at |-> "none", asset |-> None]] /\ seen = fetched
      /\ stored = [x \in Assets |-> [file |-> None, status |-> "none"]]
      /\ request = [at |-> "none", kind |-> None, items |-> <<>>, shown |-> <<>>] /\ documents = <<>>
  BY DEF N!Init, N!NoEntry, N!Waiting, N!NoRequest
<1>2. <<>> \in Seq(Entries) /\ <<>> \in Seq(Assets) /\ <<>> \in Seq(Files) /\ <<>> \in Seq(NewDocuments) /\ Len(<<>>) = 0
  BY EmptySeq
<1>3. entry \in [Entries -> EntryRecords]
  BY <1>1 DEF EntryRecords
<1>4. upload \in [Entries -> Uploading]
  BY <1>1 DEF Uploading
<1>5. fetched \in [Entries -> Fetching] /\ seen \in [Entries -> Fetching]
  BY <1>1 DEF Fetching
<1>6. stored \in [Assets -> AssetRecords]
  BY <1>1 DEF AssetRecords, N!Statuses
<1>7. request \in NewRequests /\ request.at = "none"
  BY <1>1, <1>2 DEF NewRequests
<1>8. NewTypes
  BY <1>1, <1>2, <1>3, <1>4, <1>5, <1>6, <1>7 DEF NewTypes
<1>9. AssetsRight
  BY <1>1 DEF AssetsRight, Held, Alive
<1>10. EntriesRight
  BY <1>1, NewAssumption DEF EntriesRight, EntryRight, CoverRight
<1>11. RequestRight
  BY <1>7 DEF RequestRight, Asked
<1>12. DocumentsRight
  <2>1. \A x \in N!Range(documents) : \E i \in 1..0 : TRUE
    BY <1>1, <1>2, InRange
  <2> QED
    BY <2>1 DEF DocumentsRight
<1> QED
  BY <1>8, <1>9, <1>10, <1>11, <1>12 DEF NewInv

-----------------------------------------------------------------------------
\* The dialog's steps.

LEMMA WithAt == ASSUME NEW X, NEW Z, NEW r, r \in [at : X, asset : Z], NEW x \in X, NEW v, v = [r EXCEPT !.at = x]
                PROVE v = [at |-> x, asset |-> r.asset]
OBVIOUS

LEMMA UploadAt == ASSUME NewInv, NEW e \in Entries,
                         NEW x \in {"none", "active", "verifying", "done", "failed", "cancelled"},
                         upload' = [upload EXCEPT ![e].at = x]
                  PROVE /\ upload' \in [Entries -> Uploading]
                        /\ \A y \in Entries : y # e => upload'[y] = upload[y]
                        /\ upload'[e].at = x /\ upload'[e].asset = upload[e].asset
<1>1. upload \in [Entries -> Uploading] /\ upload[e] \in Uploading
  BY DEF NewInv, NewTypes
<1>2. PICK v : v = [upload[e] EXCEPT !.at = x]
  OBVIOUS
<1>3. v = [at |-> x, asset |-> upload[e].asset]
  BY <1>1, <1>2, WithAt DEF Uploading
<1>4. v \in Uploading /\ v.at = x /\ v.asset = upload[e].asset
  BY <1>1, <1>3 DEF Uploading
<1>5. upload' = [upload EXCEPT ![e] = v]
  BY <1>2
<1> QED
  BY <1>1, <1>4, <1>5

LEMMA OpenKeeps == ASSUME NewInv, N!Open PROVE NewInv'
<1>1. dialog = "closed" /\ dialog' = "open"
      /\ UNCHANGED <<list, cover, entry, upload, fetched, seen, stored, request, documents>>
  BY DEF N!Open
<1>2. NewTypes'
  BY <1>1 DEF NewInv, NewTypes
<1> QED
  BY <1>1, <1>2, EntriesKept, CoverKept DEF SameEntry

LEMMA CloseKeeps == ASSUME NewInv, N!Close PROVE NewInv'
<1>1. dialog = "open" /\ dialog' = "closed" /\ list' = <<>> /\ cover' = None
      /\ UNCHANGED <<entry, upload, fetched, seen, stored, request, documents>>
  BY DEF N!Close
<1>2. NewTypes'
  BY <1>1, EmptySeq DEF NewInv, NewTypes
<1> QED
  BY <1>1, <1>2, EntriesKept, CoverKept DEF SameEntry

LEMMA DialogStartKeeps ==
  ASSUME NewInv, NEW e \in Entries, NEW f \in Files, N!Starts(e, f)
  PROVE /\ entry' \in [Entries -> EntryRecords] /\ upload' \in [Entries -> Uploading]
        /\ \A y \in Entries : y # e => entry'[y] = entry[y] /\ upload'[y] = upload[y]
        /\ entry[e].by # "upload" /\ entry'[e].by = "upload" /\ entry'[e].file = f /\ upload'[e].at = "active"
<1>1. entry[e] = [by |-> None, file |-> None] /\ entry' = [entry EXCEPT ![e] = [by |-> "upload", file |-> f]]
      /\ upload' = [upload EXCEPT ![e].at = "active"]
  BY DEF N!Starts, N!NoEntry
<1>2. upload[e].at = "none" \/ entry[e].by = "upload"
  BY DEF NewInv, EntriesRight, EntryRight
<1>3. [by |-> "upload", file |-> f] \in EntryRecords
  BY DEF EntryRecords
<1>4. entry \in [Entries -> EntryRecords]
  BY DEF NewInv, NewTypes
<1>5. entry[e].by # "upload"
  BY <1>1, NewAssumption
<1> QED
  BY <1>1, <1>3, <1>4, <1>5, UploadAt

LEMMA FileAdded == ASSUME NewInv, NEW e \in Entries, NEW f \in Files, N!AddFile(e, f) PROVE NewInv'
<1>1. N!Starts(e, f) /\ list' = Append(list, e) /\ dialog' = (IF dialog = "closed" THEN "open" ELSE dialog)
      /\ UNCHANGED <<cover, fetched, seen, stored, request, documents>>
  BY DEF N!AddFile
<1>2. /\ entry' \in [Entries -> EntryRecords] /\ upload' \in [Entries -> Uploading]
      /\ \A y \in Entries : y # e => entry'[y] = entry[y] /\ upload'[y] = upload[y]
      /\ entry[e].by # "upload" /\ entry'[e].by = "upload" /\ entry'[e].file = f /\ upload'[e].at = "active"
  BY <1>1, DialogStartKeeps
<1>3. list' \in Seq(Entries)
  BY <1>1, AppendProperties DEF NewInv, NewTypes
<1>4. NewTypes'
  BY <1>1, <1>2, <1>3 DEF NewInv, NewTypes
<1>5. EntryRight(e)'
  BY <1>1, <1>2 DEF NewInv, EntriesRight, EntryRight, Held
<1>6. CoverRight'
  BY <1>1, <1>2, CoverKept
<1> QED
  BY <1>1, <1>2, <1>4, <1>5, <1>6, EntriesKept DEF SameEntry

LEMMA CoverChosen == ASSUME NewInv, NEW e \in Entries, NEW f \in Files, N!ChooseCover(e, f) PROVE NewInv'
<1>1. f \notin Pdfs /\ N!Starts(e, f) /\ cover' = e /\ UNCHANGED <<dialog, list, fetched, seen, stored, request, documents>>
  BY DEF N!ChooseCover
<1>2. /\ entry' \in [Entries -> EntryRecords] /\ upload' \in [Entries -> Uploading]
      /\ \A y \in Entries : y # e => entry'[y] = entry[y] /\ upload'[y] = upload[y]
      /\ entry[e].by # "upload" /\ entry'[e].by = "upload" /\ entry'[e].file = f /\ upload'[e].at = "active"
  BY <1>1, DialogStartKeeps
<1>4. NewTypes'
  BY <1>1, <1>2 DEF NewInv, NewTypes
<1>5. EntryRight(e)'
  BY <1>1, <1>2 DEF NewInv, EntriesRight, EntryRight, Held
<1>6. CoverRight'
  BY <1>1, <1>2 DEF CoverRight
<1> QED
  BY <1>1, <1>2, <1>4, <1>5, <1>6, EntriesKept DEF SameEntry

LEMMA CoverDropped == ASSUME NewInv, N!DropCover PROVE NewInv'
<1>1. cover' = None /\ UNCHANGED <<dialog, list, entry, upload, fetched, seen, stored, request, documents>>
  BY DEF N!DropCover
<1>2. NewTypes'
  BY <1>1 DEF NewInv, NewTypes
<1> QED
  BY <1>1, <1>2, EntriesKept, CoverKept DEF SameEntry

LEMMA UrlAdded == ASSUME NewInv, NEW e \in Entries, N!AddUrl(e) PROVE NewInv'
<1>1. /\ entry[e] = [by |-> None, file |-> None] /\ entry' = [entry EXCEPT ![e].by = "fetch"]
      /\ fetched' = [fetched EXCEPT ![e].at = "queued"] /\ list' = Append(list, e)
      /\ UNCHANGED <<dialog, cover, upload, seen, stored, request, documents>>
  BY DEF N!AddUrl, N!NoEntry
<1>2. PICK v, w : v = [entry[e] EXCEPT !.by = "fetch"] /\ w = [fetched[e] EXCEPT !.at = "queued"]
  OBVIOUS
<1>3. v = [by |-> "fetch", file |-> None]
  BY <1>1, <1>2
<1>4. fetched[e] \in Fetching
  BY DEF NewInv, NewTypes
<1>5. w = [at |-> "queued", asset |-> fetched[e].asset]
  BY <1>2, <1>4, WithAt DEF Fetching
<1>6. v \in EntryRecords /\ v.by = "fetch" /\ w \in Fetching /\ w.at = "queued"
  BY <1>3, <1>4, <1>5 DEF EntryRecords, Fetching
<1>7. entry' = [entry EXCEPT ![e] = v] /\ fetched' = [fetched EXCEPT ![e] = w]
  BY <1>1, <1>2
<1>8. list' \in Seq(Entries)
  BY <1>1, AppendProperties DEF NewInv, NewTypes
<1>9. NewTypes'
  BY <1>1, <1>6, <1>7, <1>8 DEF NewInv, NewTypes
<1>10. entry'[e].by = "fetch" /\ fetched'[e].at = "queued" /\ entry[e].by # "upload"
       /\ \A y \in Entries : y # e => entry'[y] = entry[y] /\ fetched'[y] = fetched[y]
  BY <1>1, <1>6, <1>7, NewAssumption DEF NewInv, NewTypes
<1>11. EntryRight(e)'
  BY <1>1, <1>10 DEF NewInv, EntriesRight, EntryRight, Held
<1>12. CoverRight'
  BY <1>1, <1>10, CoverKept
<1> QED
  BY <1>1, <1>9, <1>10, <1>11, <1>12, EntriesKept DEF SameEntry

LEMMA MovedUp == ASSUME NewInv, NEW i \in DOMAIN list, N!MoveUp(i) PROVE NewInv'
<1>1. i \in 2..Len(list) /\ list' = [list EXCEPT ![i] = list[i - 1], ![i - 1] = list[i]]
      /\ UNCHANGED <<dialog, cover, entry, upload, fetched, seen, stored, request, documents>>
  BY DEF N!MoveUp
<1>2. list \in Seq(Entries) /\ Len(list) \in Nat
  BY LenProperties DEF NewInv, NewTypes
<1>3. i \in 1..Len(list) /\ i - 1 \in 1..Len(list)
  BY <1>1, <1>2
<1>4. list[i] \in Entries /\ list[i - 1] \in Entries
  BY <1>2, <1>3, ElementOfSeq
<1>5. PICK s : s = [list EXCEPT ![i] = list[i - 1]]
  OBVIOUS
<1>6. s \in Seq(Entries) /\ Len(s) = Len(list)
  BY <1>2, <1>3, <1>4, <1>5, ExceptSeq
<1>7. list' = [s EXCEPT ![i - 1] = list[i]]
  BY <1>1, <1>5
<1>8. list' \in Seq(Entries)
  BY <1>3, <1>4, <1>6, <1>7, ExceptSeq
<1>9. NewTypes'
  BY <1>1, <1>8 DEF NewInv, NewTypes
<1> QED
  BY <1>1, <1>9, EntriesKept, CoverKept DEF SameEntry

LEMMA EntryRemoved == ASSUME NewInv, NEW i \in DOMAIN list, N!RemoveEntry(i) PROVE NewInv'
<1>2. list \in Seq(Entries) /\ Len(list) \in Nat /\ i \in 1..Len(list)
  BY LenProperties DEF NewInv, NewTypes
<1>3. PICK e \in Entries : e = list[i]
  BY <1>2, ElementOfSeq
<1>1. /\ list' = SubSeq(list, 1, i - 1) \o SubSeq(list, i + 1, Len(list))
      /\ upload' = IF upload[e].at \in {"active", "verifying", "failed"} THEN [upload EXCEPT ![e].at = "cancelled"] ELSE upload
      /\ UNCHANGED <<dialog, cover, entry, fetched, seen, stored, request, documents>>
  BY <1>3 DEF N!RemoveEntry, N!RemoveAt
<1>4. list' \in Seq(Entries)
  <2>1. i + 1 \in Nat \ {0} /\ i - 1 \in Int /\ Len(list) \in Int /\ i - 1 <= Len(list)
    BY <1>2
  <2>2. SubSeq(list, 1, i - 1) \in Seq(Entries) /\ SubSeq(list, i + 1, Len(list)) \in Seq(Entries)
    BY <1>2, <2>1, SliceOfSeq
  <2> QED
    BY <1>1, <2>2, ConcatProperties
<1>5. CASE upload[e].at \in {"active", "verifying", "failed"}
  <2>1. /\ upload' \in [Entries -> Uploading] /\ \A y \in Entries : y # e => upload'[y] = upload[y]
        /\ upload'[e].at = "cancelled"
    <3>1. upload' = [upload EXCEPT ![e].at = "cancelled"]
      BY <1>1, <1>5
    <3> QED
      BY <1>3, <3>1, UploadAt
  <2>2. NewTypes'
    BY <1>1, <1>4, <2>1 DEF NewInv, NewTypes
  <2>3. EntryRight(e)'
    BY <1>1, <1>3, <1>5, <2>1 DEF NewInv, EntriesRight, EntryRight, Held
  <2> QED
    BY <1>1, <1>3, <2>1, <2>2, <2>3, EntriesKept, CoverKept DEF SameEntry
<1>6. CASE ~ (upload[e].at \in {"active", "verifying", "failed"})
  <2>1. upload' = upload
    BY <1>1, <1>6
  <2>2. NewTypes'
    BY <1>1, <1>4, <2>1 DEF NewInv, NewTypes
  <2> QED
    BY <1>1, <2>1, <2>2, EntriesKept, CoverKept DEF SameEntry
<1> QED
  BY <1>5, <1>6

LEMMA Polled == ASSUME NewInv, NEW e \in Entries, N!Poll(e) PROVE NewInv'
<1>1. seen' = [seen EXCEPT ![e] = fetched[e]]
      /\ UNCHANGED <<dialog, list, cover, entry, upload, fetched, stored, request, documents>>
  BY DEF N!Poll
<1>2. NewTypes' /\ seen'[e] = fetched[e] /\ \A y \in Entries : y # e => seen'[y] = seen[y]
  BY <1>1 DEF NewInv, NewTypes
<1>3. EntryRight(e)'
  BY <1>1, <1>2 DEF NewInv, EntriesRight, EntryRight, Held
<1> QED
  BY <1>1, <1>2, <1>3, EntriesKept, CoverKept DEF SameEntry

-----------------------------------------------------------------------------
\* Uploads, fetches and verification.

LEMMA UploadStops ==
  ASSUME NewInv, NEW e \in Entries, NEW x \in {"done", "failed"}, upload[e].at \in {"active", "verifying"},
         x = "done" => upload[e].at = "verifying",
         upload' = [upload EXCEPT ![e].at = x],
         UNCHANGED <<dialog, list, cover, entry, fetched, seen, stored, request, documents>>
  PROVE NewInv'
<1>1. /\ upload' \in [Entries -> Uploading] /\ \A y \in Entries : y # e => upload'[y] = upload[y]
      /\ upload'[e].at = x /\ upload'[e].asset = upload[e].asset
  BY UploadAt
<1>2. NewTypes'
  BY <1>1 DEF NewInv, NewTypes
<1>3. EntryRight(e)'
  BY <1>1 DEF NewInv, EntriesRight, EntryRight, Held
<1> QED
  BY <1>1, <1>2, <1>3, EntriesKept, CoverKept DEF SameEntry

\* One asset changes.
LEMMA AssetChanges ==
  ASSUME NewInv, NEW x \in Assets, NEW f \in Files, NEW s \in {"verifying", "ready", "rejected", "gone"},
         stored' = [stored EXCEPT ![x] = [file |-> f, status |-> s]],
         Held(x) => stored[x].file = f,
         stored[x].status \in {"ready", "gone"} => s \in {"ready", "gone"},
         s \in {"verifying", "ready"} => \A y \in Assets : Alive(y) /\ stored[y].file = f => y = x
  PROVE /\ Ageing /\ AssetsRight' /\ stored' \in [Assets -> AssetRecords]
        /\ stored'[x].status = s /\ stored'[x].file = f
<1>1. stored \in [Assets -> AssetRecords]
  BY DEF NewInv, NewTypes
<1>2. [file |-> f, status |-> s] \in AssetRecords
  BY DEF AssetRecords, N!Statuses
<1>3. /\ stored' \in [Assets -> AssetRecords] /\ stored'[x].status = s /\ stored'[x].file = f
      /\ \A y \in Assets : y # x => stored'[y] = stored[y]
  BY <1>1, <1>2
<1>4. Ageing
  BY <1>3 DEF Ageing, Held
<1>5. AssetsRight'
  <2>1. \A y \in Assets : stored'[y].status # "none" => stored'[y].file \in Files
    BY <1>3 DEF NewInv, AssetsRight, Held
  <2>2. ASSUME NEW y \in Assets, NEW z \in Assets, stored'[y].file = stored'[z].file,
               stored'[y].status \in {"verifying", "ready"}, stored'[z].status \in {"verifying", "ready"}
        PROVE y = z
    <3>1. CASE y # x /\ z # x
      BY <1>3, <2>2, <3>1 DEF NewInv, AssetsRight, Alive
    <3>2. CASE y = x /\ z # x
      BY <1>3, <2>2, <3>2 DEF Alive
    <3>3. CASE y # x /\ z = x
      BY <1>3, <2>2, <3>3 DEF Alive
    <3> QED
      BY <3>1, <3>2, <3>3
  <2> QED
    BY <2>1, <2>2 DEF AssetsRight, Held, Alive
<1> QED
  BY <1>3, <1>4, <1>5

LEMMA UploadRegistered == ASSUME NewInv, NEW e \in Entries, N!Registers(e) PROVE NewInv'
<1>1. upload[e].at = "active" /\ UNCHANGED <<dialog, list, cover, entry, fetched, seen, request, documents>>
  BY DEF N!Registers
<1>2. PICK f \in Files : f = entry[e].file
  BY <1>1 DEF NewInv, EntriesRight, EntryRight
<1>3. ASSUME NEW x \in Assets, upload' = [upload EXCEPT ![e] = [at |-> "verifying", asset |-> x]],
             Ageing, AssetsRight', stored' \in [Assets -> AssetRecords],
             stored'[x].status # "none", stored'[x].file = f
      PROVE NewInv'
  <2>1. [at |-> "verifying", asset |-> x] \in Uploading
    BY DEF Uploading
  <2>2. /\ upload' \in [Entries -> Uploading] /\ \A y \in Entries : y # e => upload'[y] = upload[y]
        /\ upload'[e].at = "verifying" /\ upload'[e].asset = x
    BY <1>3, <2>1 DEF NewInv, NewTypes
  <2>3. NewTypes'
    BY <1>1, <1>3, <2>2 DEF NewInv, NewTypes
  <2>4. EntryRight(e)'
    BY <1>1, <1>2, <1>3, <2>2 DEF NewInv, EntriesRight, EntryRight, Held, Ageing
  <2> QED
    BY <1>1, <1>3, <2>2, <2>3, <2>4, NewKept, CoverKept DEF SameEntry
<1>4. CASE \E x \in N!Live(f) : upload' = [upload EXCEPT ![e] = [at |-> "verifying", asset |-> x]] /\ UNCHANGED stored
  <2>1. PICK x \in N!Live(f) : upload' = [upload EXCEPT ![e] = [at |-> "verifying", asset |-> x]] /\ UNCHANGED stored
    BY <1>4
  <2>2. x \in Assets /\ stored'[x].status # "none" /\ stored'[x].file = f
    BY <2>1 DEF N!Live
  <2>3. Ageing /\ AssetsRight' /\ stored' \in [Assets -> AssetRecords]
    BY <2>1 DEF NewInv, NewTypes, Ageing, AssetsRight, Held, Alive
  <2> QED
    BY <1>3, <2>1, <2>2, <2>3
<1>5. CASE \E x \in N!Unused : /\ N!Live(f) = {}
                               /\ upload' = [upload EXCEPT ![e] = [at |-> "verifying", asset |-> x]]
                               /\ stored' = [stored EXCEPT ![x] = [file |-> f, status |-> "verifying"]]
  <2>1. PICK x \in N!Unused : /\ N!Live(f) = {}
                              /\ upload' = [upload EXCEPT ![e] = [at |-> "verifying", asset |-> x]]
                              /\ stored' = [stored EXCEPT ![x] = [file |-> f, status |-> "verifying"]]
    BY <1>5
  <2>2. x \in Assets /\ stored[x].status = "none" /\ \A y \in Assets : ~ (Alive(y) /\ stored[y].file = f)
    BY <2>1 DEF N!Unused, N!Live, Alive
  <2>3. /\ Ageing /\ AssetsRight' /\ stored' \in [Assets -> AssetRecords]
        /\ stored'[x].status = "verifying" /\ stored'[x].file = f
    BY <2>1, <2>2, AssetChanges DEF Held
  <2> QED
    BY <1>3, <2>1, <2>2, <2>3
<1> QED
  BY <1>2, <1>4, <1>5 DEF N!Registers

LEMMA FetchDelivered == ASSUME NewInv, NEW e \in Entries, N!Deliver(e) PROVE NewInv'
<1>1. fetched[e].at \in {"queued", "failed"} /\ UNCHANGED <<dialog, list, cover, entry, upload, seen, request, documents>>
  BY DEF N!Deliver
<1>2. ASSUME NEW w \in Fetching, fetched' = [fetched EXCEPT ![e] = w],
             w.at = "succeeded" => w.asset \in Assets /\ stored'[w.asset].status # "none",
             Ageing, AssetsRight', stored' \in [Assets -> AssetRecords]
      PROVE NewInv'
  <2>1. /\ fetched' \in [Entries -> Fetching] /\ \A y \in Entries : y # e => fetched'[y] = fetched[y]
        /\ fetched'[e] = w
    BY <1>2 DEF NewInv, NewTypes
  <2>2. NewTypes'
    BY <1>1, <1>2, <2>1 DEF NewInv, NewTypes
  <2>3. EntryRight(e)'
    BY <1>1, <1>2, <2>1 DEF NewInv, EntriesRight, EntryRight, Held, Ageing
  <2> QED
    BY <1>1, <1>2, <2>1, <2>2, <2>3, NewKept, CoverKept DEF SameEntry
<1>3. stored' = stored => Ageing /\ AssetsRight' /\ stored' \in [Assets -> AssetRecords]
  BY DEF NewInv, NewTypes, Ageing, AssetsRight, Held, Alive
<1>4. ASSUME NEW f \in Files, NEW x \in N!Live(f),
             fetched' = [fetched EXCEPT ![e] = [at |-> "succeeded", asset |-> x]], UNCHANGED stored
      PROVE NewInv'
  <2>1. x \in Assets /\ stored'[x].status # "none"
    BY <1>4 DEF N!Live
  <2>2. PICK w \in Fetching : w = [at |-> "succeeded", asset |-> x]
    BY <2>1 DEF Fetching
  <2>3. w.at = "succeeded" /\ w.asset = x
    BY <2>2
  <2> QED
    BY <1>2, <1>3, <1>4, <2>1, <2>2, <2>3
<1>5. ASSUME NEW f \in Files, NEW x \in N!Unused, N!Live(f) = {},
             fetched' = [fetched EXCEPT ![e] = [at |-> "succeeded", asset |-> x]],
             stored' = [stored EXCEPT ![x] = [file |-> f, status |-> "ready"]]
      PROVE NewInv'
  <2>1. x \in Assets /\ stored[x].status = "none" /\ \A y \in Assets : ~ (Alive(y) /\ stored[y].file = f)
    BY <1>5 DEF N!Unused, N!Live, Alive
  <2>2. PICK w \in Fetching : w = [at |-> "succeeded", asset |-> x]
    BY <2>1 DEF Fetching
  <2>3. w.at = "succeeded" /\ w.asset = x
    BY <2>2
  <2>4. /\ Ageing /\ AssetsRight' /\ stored' \in [Assets -> AssetRecords]
        /\ stored'[x].status = "ready" /\ stored'[x].file = f
    BY <1>5, <2>1, AssetChanges DEF Held
  <2> QED
    BY <1>2, <1>5, <2>1, <2>2, <2>3, <2>4
<1>6. CASE fetched' = [fetched EXCEPT ![e].at = "failed"] /\ UNCHANGED stored
  <2>1. PICK w : w = [fetched[e] EXCEPT !.at = "failed"]
    OBVIOUS
  <2>2. fetched[e] \in Fetching
    BY DEF NewInv, NewTypes
  <2>3. w = [at |-> "failed", asset |-> fetched[e].asset]
    BY <2>1, <2>2, WithAt DEF Fetching
  <2>4. w \in Fetching /\ w.at = "failed"
    BY <2>2, <2>3 DEF Fetching
  <2>5. fetched' = [fetched EXCEPT ![e] = w]
    BY <1>6, <2>1
  <2> QED
    BY <1>2, <1>3, <1>6, <2>4, <2>5
<1> QED
  BY <1>4, <1>5, <1>6 DEF N!Deliver

LEMMA AssetAges == ASSUME NewInv, NEW x \in Assets, NEW s \in {"ready", "rejected", "gone"}, stored' = [stored EXCEPT ![x].status = s],
                          (stored[x].status = "verifying" /\ s # "gone") \/ (stored[x].status = "ready" /\ s = "gone"),
                          UNCHANGED <<dialog, list, cover, entry, upload, fetched, seen, request, documents>>
                   PROVE NewInv'
<1>1. stored[x] \in AssetRecords /\ stored[x].file \in Files
  BY DEF NewInv, NewTypes, AssetsRight, Held
<1>2. PICK v : v = [stored[x] EXCEPT !.status = s]
  OBVIOUS
<1>3. v = [file |-> stored[x].file, status |-> s]
  BY <1>1, <1>2 DEF AssetRecords
<1>4. stored' = [stored EXCEPT ![x] = [file |-> stored[x].file, status |-> s]]
  BY <1>2, <1>3
<1>5. s \in {"verifying", "ready"} => \A y \in Assets : Alive(y) /\ stored[y].file = stored[x].file => y = x
  BY DEF NewInv, AssetsRight, Alive
<1>6. Ageing /\ AssetsRight' /\ stored' \in [Assets -> AssetRecords]
  BY <1>1, <1>4, <1>5, AssetChanges
<1>7. NewTypes'
  BY <1>6 DEF NewInv, NewTypes
<1> QED
  BY <1>6, <1>7, NewKept, CoverKept DEF SameEntry

-----------------------------------------------------------------------------
\* The request.

\* What the dialog takes as ready has an asset, of the file that it shows.
LEMMA ReadyEntry == ASSUME NewInv, NEW e \in Entries, N!StateOf(e) = "ready"
                    PROVE /\ N!AssetOf(e) \in Assets /\ Held(N!AssetOf(e))
                          /\ N!FileOf(e) \in Files /\ stored[N!AssetOf(e)].file = N!FileOf(e)
<1>1. CASE entry[e].by = "upload"
  <2>1. upload[e].at \in {"done", "succeeded"}
    BY <1>1 DEF N!StateOf
  <2>2. upload[e] \in Uploading
    BY DEF NewInv, NewTypes
  <2>3. upload[e].at = "done"
    BY <2>1, <2>2 DEF Uploading
  <2> QED
    BY <1>1, <2>3 DEF NewInv, EntriesRight, EntryRight, N!AssetOf, N!FileOf
<1>2. CASE entry[e].by # "upload"
  <2>1. seen[e].at \in {"done", "succeeded"}
    BY <1>2 DEF N!StateOf
  <2>2. seen[e] \in Fetching
    BY DEF NewInv, NewTypes
  <2>3. seen[e].at = "succeeded"
    BY <2>1, <2>2 DEF Fetching
  <2> QED
    BY <1>2, <2>3 DEF NewInv, EntriesRight, EntryRight, AssetsRight, N!AssetOf, N!FileOf
<1> QED
  BY <1>1, <1>2

\* A step of the dialog's request.
LEMMA RequestChanges ==
  ASSUME NewInv, UNCHANGED <<entry, upload, fetched, seen, stored>>, dialog' \in {"closed", "open", "busy", "left"},
         list' \in Seq(Entries), cover' = cover \/ cover' = None,
         request' \in NewRequests, (request'.at = "none") = (dialog' # "busy"), documents' \in Seq(NewDocuments),
         RequestRight', DocumentsRight'
  PROVE NewInv'
<1>1. NewTypes'
  BY DEF NewInv, NewTypes
<1>2. AssetsRight' /\ \A e \in Entries : EntryRight(e)'
  BY DEF NewInv, AssetsRight, EntriesRight, EntryRight, Held, Alive
<1>3. CoverRight'
  BY CoverKept
<1> QED
  BY <1>1, <1>2, <1>3 DEF NewInv, EntriesRight

LEMMA RequestSent ==
  ASSUME NewInv, NEW kind \in {"import", "notebook"}, NEW entries \in Seq(Entries),
         \A i \in 1..Len(entries) : N!StateOf(entries[i]) = "ready",
         kind = "notebook" => \A i \in 1..Len(entries) : N!Image(N!AssetOf(entries[i])),
         N!Sends(kind, entries)
  PROVE NewInv'
<1>1. PICK items, files : /\ items = [i \in DOMAIN entries |-> N!AssetOf(entries[i])]
                          /\ files = [i \in DOMAIN entries |-> N!FileOf(entries[i])]
  OBVIOUS
<1>2. dialog' = "busy" /\ request' = [at |-> "read", kind |-> kind, items |-> items, shown |-> files]
      /\ UNCHANGED <<list, cover, entry, upload, fetched, seen, stored, documents>>
  BY <1>1 DEF N!Sends
<1>3. DOMAIN entries = 1..Len(entries) /\ Len(entries) \in Nat /\ \A i \in 1..Len(entries) : entries[i] \in Entries
  BY LenProperties, ElementOfSeq
<1>4. \A i \in 1..Len(entries) : /\ items[i] = N!AssetOf(entries[i]) /\ files[i] = N!FileOf(entries[i])
                                 /\ items[i] \in Assets /\ Held(items[i])
                                 /\ files[i] \in Files /\ stored[items[i]].file = files[i]
  BY <1>1, <1>3, ReadyEntry
<1>5. items \in Seq(Assets) /\ files \in Seq(Files) /\ Len(items) = Len(entries) /\ Len(files) = Len(entries)
  <2>1. items \in [1..Len(entries) -> Assets] /\ files \in [1..Len(entries) -> Files]
    BY <1>1, <1>3, <1>4
  <2> QED
    BY <1>3, <2>1
<1>6. Matches(items, files)
  BY <1>4, <1>5 DEF Matches
<1>7. PICK r \in NewRequests : r = [at |-> "read", kind |-> kind, items |-> items, shown |-> files]
  BY <1>5 DEF NewRequests
<1>8. Asked(r)'
  <2>1. kind # None /\ r.at = "read" /\ r.kind = kind /\ r.items = items /\ r.shown = files
    BY <1>7, NewAssumption
  <2>2. kind = "notebook" => \A i \in 1..Len(items) : N!Image(items[i])
    BY <1>4, <1>5
  <2>3. Matches(items, files)'
    BY <1>2, <1>6 DEF Matches, Held
  <2>4. kind = "notebook" => \A i \in 1..Len(items) : N!Image(items[i])'
    BY <1>2, <2>2 DEF N!Image
  <2> QED
    BY <2>1, <2>3, <2>4 DEF Asked
<1>9. request' = r /\ RequestRight'
  BY <1>2, <1>7, <1>8 DEF RequestRight
<1>10. DocumentsRight'
  <2>1. Ageing
    BY <1>2 DEF Ageing, Held
  <2> QED
    BY <1>2, <2>1, DocumentsAge DEF NewInv
<1>11. request'.at = "read"
  BY <1>2
<1> QED
  BY <1>2, <1>7, <1>9, <1>10, <1>11, RequestChanges DEF NewInv, NewTypes

LEMMA ImportAsked == ASSUME NewInv, N!Import PROVE NewInv'
<1>1. N!Sends("import", list) /\ \A e \in N!Range(list) : N!StateOf(e) = "ready"
  BY DEF N!Import
<1>2. list \in Seq(Entries)
  BY DEF NewInv, NewTypes
<1>3. \A i \in 1..Len(list) : N!StateOf(list[i]) = "ready"
  BY <1>1, <1>2, InRange
<1> QED
  BY <1>1, <1>2, <1>3, RequestSent

LEMMA NotebookAsked == ASSUME NewInv, N!CreateNotebook PROVE NewInv'
<1>1. CASE cover # None /\ N!StateOf(cover) = "ready"
  <2>1. N!Sends("notebook", <<cover>>)
    BY <1>1 DEF N!CreateNotebook
  <2>2. cover \in Entries /\ entry[cover].by = "upload" /\ entry[cover].file \notin Pdfs
    BY <1>1 DEF NewInv, NewTypes, EntriesRight, CoverRight
  <2>3. N!Image(N!AssetOf(cover))
    BY <1>1, <2>2, ReadyEntry DEF N!Image, N!FileOf
  <2>4. <<cover>> \in Seq(Entries) /\ Len(<<cover>>) = 1 /\ <<cover>>[1] = cover
    BY <2>2
  <2>5. \A i \in 1..Len(<<cover>>) : <<cover>>[i] = cover
    BY <2>4
  <2> QED
    BY <1>1, <2>1, <2>3, <2>4, <2>5, RequestSent
<1>2. CASE ~ (cover # None /\ N!StateOf(cover) = "ready")
  <2>1. N!Sends("notebook", <<>>)
    BY <1>2 DEF N!CreateNotebook
  <2>2. <<>> \in Seq(Entries) /\ Len(<<>>) = 0
    BY EmptySeq
  <2>3. \A i \in 1..Len(<<>>) : FALSE
    BY <2>2
  <2> QED
    BY <2>1, <2>2, <2>3, RequestSent
<1> QED
  BY <1>1, <1>2

LEMMA RequestAnswered == ASSUME NewInv, N!Answer PROVE NewInv'
<1>1. /\ request.at \in {"refused", "done"} /\ request' = [at |-> "none", kind |-> None, items |-> <<>>, shown |-> <<>>]
      /\ \/ dialog' = "left" /\ list' = <<>> /\ cover' = None
         \/ dialog' = "open" /\ list' = list /\ cover' = cover
      /\ UNCHANGED <<entry, upload, fetched, seen, stored, documents>>
  BY DEF N!Answer, N!NoRequest
<1>2. <<>> \in Seq(Assets) /\ <<>> \in Seq(Files) /\ <<>> \in Seq(Entries)
  BY EmptySeq
<1>3. PICK r \in NewRequests : r = [at |-> "none", kind |-> None, items |-> <<>>, shown |-> <<>>]
  BY <1>2 DEF NewRequests
<1>4. request' = r /\ r.at = "none"
  BY <1>1, <1>3
<1>5. RequestRight'
  BY <1>4 DEF RequestRight, Asked
<1>6. DocumentsRight'
  <2>1. Ageing
    BY <1>1 DEF Ageing, Held
  <2> QED
    BY <1>1, <2>1, DocumentsAge DEF NewInv
<1> QED
  BY <1>1, <1>2, <1>4, <1>5, <1>6, RequestChanges DEF NewInv, NewTypes

\* A request that is answered, or goes on.
LEMMA RequestAt == ASSUME NewInv, NEW x \in {"insert", "refused", "done"}, request' = [request EXCEPT !.at = x]
                   PROVE /\ request' \in NewRequests /\ request'.at = x
                         /\ request' = [at |-> x, kind |-> request.kind, items |-> request.items, shown |-> request.shown]
<1>1. request \in [at : {"none", "read", "insert", "refused", "done"}, kind : {"import", "notebook", None},
                   items : Seq(Assets), shown : Seq(Files)]
  BY DEF NewInv, NewTypes, NewRequests
<1>2. request' = [at |-> x, kind |-> request.kind, items |-> request.items, shown |-> request.shown]
  BY <1>1
<1> QED
  BY <1>1, <1>2 DEF NewRequests

LEMMA AssetsRead == ASSUME NewInv, N!ReadAssets PROVE NewInv'
<1>1. /\ request.at = "read"
      /\ UNCHANGED <<dialog, list, cover, entry, upload, fetched, seen, stored, documents>>
      /\ \E x \in {"insert", "refused"} : request' = [request EXCEPT !.at = x]
           /\ (x = "insert" => \A y \in N!Range(request.items) : N!Usable(y))
  BY DEF N!ReadAssets
<1>2. PICK x \in {"insert", "refused"} : request' = [request EXCEPT !.at = x]
           /\ (x = "insert" => \A y \in N!Range(request.items) : N!Usable(y))
  BY <1>1
<1>3. PICK r \in NewRequests : r = request
  BY DEF NewInv, NewTypes
<1>4. PICK q \in NewRequests : q = [at |-> x, kind |-> r.kind, items |-> r.items, shown |-> r.shown] /\ q.at = x /\ request' = q
  BY <1>2, <1>3, RequestAt
<1>5. q.kind = r.kind /\ q.items = r.items /\ q.shown = r.shown
  BY <1>4
<1>6. Asked(r) /\ r.at = "read"
  BY <1>1, <1>3 DEF NewInv, RequestRight
<1>7. r.items \in Seq(Assets) /\ r.shown \in Seq(Files) /\ \A i \in 1..Len(r.items) : r.items[i] \in Assets
  BY ElementOfSeq DEF NewRequests
<1>8. ASSUME x = "insert" PROVE Verified(q.items) /\ \A i, j \in 1..Len(q.items) : q.shown[i] = q.shown[j] => q.items[i] = q.items[j]
  <2>1. \A i \in 1..Len(r.items) : stored[r.items[i]].status = "ready" /\ stored[r.items[i]].file = r.shown[i]
    BY <1>2, <1>3, <1>6, <1>7, <1>8, InRange DEF N!Usable, Asked, Matches
  <2>2. \A i, j \in 1..Len(r.items) : r.shown[i] = r.shown[j] => r.items[i] = r.items[j]
    BY <1>7, <2>1 DEF NewInv, AssetsRight, Alive
  <2> QED
    BY <1>5, <2>1, <2>2 DEF Verified
<1>9. Asked(q)
  BY <1>4, <1>5, <1>6, <1>8 DEF Asked
<1>10. Ageing
  BY <1>1 DEF Ageing, Held
<1>11. RequestRight'
  BY <1>4, <1>9, <1>10, AskedAges DEF RequestRight
<1>12. DocumentsRight'
  BY <1>1, <1>10, DocumentsAge DEF NewInv
<1>13. dialog = "busy" /\ request'.at # "none"
  BY <1>1, <1>4 DEF NewInv, NewTypes
<1> QED
  BY <1>1, <1>4, <1>11, <1>12, <1>13, RequestChanges DEF NewInv, NewTypes

\* Different files have different assets, so that the assets' bytes are the files'.
LEMMA DifferentFiles ==
  ASSUME NEW items \in Seq(Assets), NEW files \in Seq(Files), Len(items) = Len(files),
         NEW h, \A i \in 1..Len(items) : h[items[i]] = files[i],
         \A i, j \in 1..Len(items) : files[i] = files[j] => items[i] = items[j]
  PROVE N!Cardinality(N!Range(items)) = N!Cardinality(N!Range(files)) /\ N!Cardinality(N!Range(items)) \in Nat
<1> DEFINE g == [x \in N!Range(items) |-> h[x]]
<1>1. Len(items) \in Nat /\ DOMAIN items = 1..Len(items) /\ DOMAIN files = 1..Len(items)
  BY LenProperties
<1>2. /\ \A x \in N!Range(items) : \E i \in 1..Len(items) : x = items[i]
      /\ \A x \in N!Range(files) : \E i \in 1..Len(items) : x = files[i]
      /\ \A i \in 1..Len(items) : items[i] \in N!Range(items) /\ files[i] \in N!Range(files)
  BY InRange
<1>3. g \in [N!Range(items) -> N!Range(files)]
  BY <1>2
<1>4. \A x, y \in N!Range(items) : g[x] = g[y] => x = y
  BY <1>2
<1>5. \A z \in N!Range(files) : \E x \in N!Range(items) : g[x] = z
  BY <1>2
<1>6. g \in Bijection(N!Range(items), N!Range(files))
  <2> HIDE DEF g
  <2> QED
    BY <1>3, <1>4, <1>5 DEF Bijection, Injection, Surjection, IsInjective
<1>7. IsFiniteSet(N!Range(items))
  <2>1. IsFiniteSet(1..Len(items))
    BY <1>1, FS_Interval
  <2>2. items \in [1..Len(items) -> N!Range(items)]
    BY <1>1, <1>2
  <2>3. items \in Surjection(1..Len(items), N!Range(items))
    BY <1>2, <2>2 DEF Surjection
  <2> QED
    BY <2>1, <2>3, FS_Surjection
<1>8. Cardinality(N!Range(items)) = Cardinality(N!Range(files)) /\ Cardinality(N!Range(items)) \in Nat
  <2> HIDE DEF g
  <2> QED
    BY <1>6, <1>7, FS_Bijection, FS_CardinalityType DEF ExistsBijection
<1>9. \A X : N!Cardinality(X) = Cardinality(X)
  BY DEF N!Cardinality, Cardinality
<1> QED
  BY <1>8, <1>9

\* What is made of a request that was read is what it showed.
LEMMA DocumentMade == ASSUME NewInv, NEW r \in NewRequests, Asked(r), r.at = "insert", NEW d, d = N!Document(r)
                      PROVE DocumentRight(d)
<1>1. /\ r.items \in Seq(Assets) /\ r.shown \in Seq(Files) /\ Len(r.items) = Len(r.shown) /\ r.kind \in {"import", "notebook"}
      /\ Matches(r.items, r.shown) /\ Verified(r.items) /\ (r.kind = "notebook" => \A i \in 1..Len(r.items) : N!Image(r.items[i]))
      /\ \A i, j \in 1..Len(r.items) : r.shown[i] = r.shown[j] => r.items[i] = r.items[j]
  BY DEF Asked, NewRequests, Matches
<1>2. PICK sources, covers : /\ sources = IF r.kind = "import" THEN r.items ELSE <<>>
                             /\ covers = IF r.kind = "import" THEN <<>> ELSE r.items
  OBVIOUS
<1>3. <<>> \in Seq(Assets)
  BY EmptySeq
<1>4. sources \in Seq(Assets) /\ covers \in Seq(Assets) /\ sources \o covers = r.items
  <2>1. r.items \o <<>> = r.items /\ <<>> \o r.items = r.items
    BY <1>1, ConcatEmptySeq
  <2> QED
    BY <1>1, <1>2, <1>3, <2>1
<1>5. N!Cardinality(N!Range(r.items)) = N!Cardinality(N!Range(r.shown)) /\ N!Cardinality(N!Range(r.items)) \in Nat
  <2>1. PICK g : g = [x \in Assets |-> stored[x].file]
    OBVIOUS
  <2>2. \A i \in 1..Len(r.items) : g[r.items[i]] = r.shown[i]
    <3>1. \A i \in 1..Len(r.items) : r.items[i] \in Assets
      BY <1>1, ElementOfSeq
    <3> QED
      BY <1>1, <2>1, <3>1 DEF Matches
  <2> QED
    BY <1>1, <2>2, DifferentFiles
<1>6. PICK flag \in BOOLEAN : flag <=> \E x \in N!Range(sources) : ~ N!Image(x)
  OBVIOUS
<1>7. d = [sources |-> sources, cover |-> covers, pages |-> N!PagesOf(sources), pdf |-> flag,
           bytes |-> N!Cardinality(N!Range(r.items)), shown |-> r.shown]
  BY <1>2, <1>6 DEF N!Document
<1>8. d.sources = sources /\ d.cover = covers /\ d.pages = N!PagesOf(sources) /\ d.pdf = flag
      /\ d.bytes = N!Cardinality(N!Range(r.items)) /\ d.shown = r.shown
  BY <1>7
<1>9. N!PagesOf(sources) \in UNION {{N!Only(s, X) : X \in SUBSET Assets} : s \in Seq(Assets)}
  <2>1. {x \in N!Range(sources) : N!Image(x)} \in SUBSET Assets
    BY <1>4, InRange
  <2>2. N!PagesOf(sources) \in {N!Only(sources, X) : X \in SUBSET Assets}
    BY <2>1 DEF N!PagesOf
  <2> QED
    BY <1>4, <2>2
<1>10. d \in NewDocuments
  BY <1>1, <1>4, <1>5, <1>7, <1>9 DEF NewDocuments
<1>11. \A x \in N!Range(covers) : N!Image(x)
  <2>1. CASE r.kind = "import"
    <3>1. \A x \in N!Range(covers) : \E i \in 1..Len(covers) : x = covers[i]
      BY <1>4, InRange
    <3>2. Len(covers) = 0
      BY <1>2, <2>1, EmptySeq
    <3> QED
      BY <3>1, <3>2
  <2>2. CASE r.kind = "notebook"
    <3>1. covers = r.items
      BY <1>2, <2>2
    <3>2. \A x \in N!Range(covers) : \E i \in 1..Len(covers) : x = covers[i]
      BY <1>4, InRange
    <3>3. \A i \in 1..Len(r.items) : N!Image(r.items[i])
      BY <1>1, <2>2
    <3> QED
      BY <3>1, <3>2, <3>3
  <2> QED
    BY <1>1, <2>1, <2>2
<1> QED
  BY <1>1, <1>4, <1>5, <1>6, <1>8, <1>10, <1>11 DEF DocumentRight, N!Image

LEMMA Inserted == ASSUME NewInv, N!Insert PROVE NewInv'
<1>1. PICK x \in {"done", "refused"} :
        /\ request' = [request EXCEPT !.at = x] /\ request.at = "insert"
        /\ documents' = Append(documents, N!Document(request)) \/ documents' = documents
        /\ UNCHANGED <<dialog, list, cover, entry, upload, fetched, seen, stored>>
  BY DEF N!Insert
<1>2. PICK r \in NewRequests : r = request
  BY DEF NewInv, NewTypes
<1>3. PICK q \in NewRequests : q = [at |-> x, kind |-> r.kind, items |-> r.items, shown |-> r.shown] /\ q.at = x /\ request' = q
  BY <1>1, <1>2, RequestAt
<1>4. q.kind = r.kind /\ q.items = r.items /\ q.shown = r.shown
  BY <1>3
<1>5. Asked(r) /\ r.at = "insert"
  BY <1>1, <1>2 DEF NewInv, RequestRight
<1>6. Ageing
  BY <1>1 DEF Ageing, Held
<1>7. Asked(q)
  BY <1>3, <1>4, <1>5 DEF Asked
<1>8. RequestRight'
  BY <1>3, <1>6, <1>7, AskedAges DEF RequestRight
<1>9. dialog = "busy" /\ request'.at # "none"
  BY <1>1, <1>3 DEF NewInv, NewTypes
<1>10. documents' \in Seq(NewDocuments) /\ DocumentsRight'
  <2>1. CASE documents' = documents
    BY <1>6, <2>1, DocumentsAge DEF NewInv, NewTypes
  <2>2. CASE documents' = Append(documents, N!Document(request))
    <3>1. PICK d : d = N!Document(r)
      OBVIOUS
    <3>2. DocumentRight(d) /\ d \in NewDocuments
      BY <1>2, <1>5, <3>1, DocumentMade DEF DocumentRight
    <3>3. documents \in Seq(NewDocuments) /\ Len(documents) \in Nat
      BY LenProperties DEF NewInv, NewTypes
    <3>4. documents' = Append(documents, d)
      BY <1>2, <2>2, <3>1
    <3>5. /\ documents' \in Seq(NewDocuments) /\ Len(documents') = Len(documents) + 1
          /\ documents'[Len(documents) + 1] = d /\ \A i \in 1..Len(documents) : documents'[i] = documents[i]
      BY <3>2, <3>3, <3>4, AppendProperties
    <3>6. \A y \in N!Range(documents') : y = d \/ y \in N!Range(documents)
      BY <3>3, <3>5, InRange
    <3>7. \A y \in N!Range(documents') : DocumentRight(y)
      BY <3>2, <3>6 DEF NewInv, DocumentsRight
    <3> QED
      BY <1>6, <3>5, <3>7, DocumentAges DEF DocumentsRight
  <2> QED
    BY <1>1, <2>1, <2>2
<1> QED
  BY <1>1, <1>3, <1>8, <1>9, <1>10, RequestChanges DEF NewInv, NewTypes

LEMMA NewStep == ASSUME NewInv, [MCNext]_allVars PROVE NewInv'
<1>1. CASE N!Next
  <2>1. CASE \E e \in Entries, f \in Files : N!AddFile(e, f) \/ N!ChooseCover(e, f)
    BY <2>1, FileAdded, CoverChosen
  <2>2. ASSUME NEW e \in Entries, N!UploadEnds(e) PROVE NewInv'
    BY <2>2, UploadStops DEF N!UploadEnds
  <2>3. ASSUME NEW e \in Entries, N!UploadFails(e) PROVE NewInv'
    BY <2>3, UploadStops DEF N!UploadFails
  <2>4. CASE \E e \in Entries : \/ N!AddUrl(e) \/ N!Poll(e) \/ N!Deliver(e)
                                \/ N!Registers(e) \/ N!UploadEnds(e) \/ N!UploadFails(e)
    BY <2>2, <2>3, <2>4, UrlAdded, Polled, FetchDelivered, UploadRegistered
  <2>5. CASE \E i \in DOMAIN list : N!MoveUp(i) \/ N!RemoveEntry(i)
    BY <2>5, MovedUp, EntryRemoved
  <2>6. ASSUME NEW x \in Assets, N!Verify(x) \/ N!Purged(x) PROVE NewInv'
    BY <2>6, AssetAges DEF N!Verify, N!Purged
  <2> QED
    BY <1>1, <2>1, <2>4, <2>5, <2>6, OpenKeeps, CloseKeeps, CoverDropped, ImportAsked, NotebookAsked, RequestAnswered,
       AssetsRead, Inserted DEF N!Next
<1>2. CASE UNCHANGED newVars
  <2>1. UNCHANGED <<dialog, list, cover, entry, upload, fetched, seen, stored, request, documents>>
    BY <1>2 DEF newVars
  <2>2. NewTypes'
    BY <2>1 DEF NewInv, NewTypes
  <2> QED
    BY <2>1, <2>2, EntriesKept, CoverKept DEF SameEntry
<1>3. N!Next \/ UNCHANGED newVars
  BY Zenon DEF MCNext, allVars
<1> QED
  BY <1>1, <1>2, <1>3

LEMMA NewAlways == MCSpec => []NewInv
<1>1. MCInit => NewInv
  BY NewStarts DEF MCInit
<1> QED
  BY <1>1, NewStep, PTL DEF MCSpec

-----------------------------------------------------------------------------
\* Templates.

\* A template of the dialog's user, or of the system, and its pages.
Owned(id) == id \in Saved /\ template[id].owner = Me
PagesOf(id) == IF id \in System THEN SystemPages ELSE template[id].pages

TemplateRecords == [owner : Users \cup {None}, pages : Seq(Papers), live : BOOLEAN]

TemplateTypes ==
  /\ leaves \in Seq(Papers \cup {"image"})
  /\ template \in [Saved -> TemplateRecords]
  /\ DOMAIN keeping = Users /\ \A u \in Users : keeping[u] # None => keeping[u] \in Seq(Papers)
  /\ picked \in Saved \cup System \cup {None}

\* However old the gallery is, it shows the pages that a template has.
Honest(v) == (v.id \in System \/ Owned(v.id)) /\ v = K!View(v.id, PagesOf(v.id))

\* The inductive invariant behind MadeAsShown.
TemplatesInv ==
  /\ TemplateTypes
  /\ \A v \in gallery : Honest(v)
  /\ wish # None => Honest(wish)
  /\ copy # None => wish # None /\ (copy.ok => copy.pages = PagesOf(wish.id))

LEMMA TemplateTypesFit == ASSUME TemplatesInv PROVE K!TypeOK
<1>1. \A id \in Saved : template[id].owner \in Users \cup {None} /\ template[id].pages \in Seq(Papers)
  BY DEF TemplatesInv, TemplateTypes, TemplateRecords
<1> QED
  BY <1>1 DEF TemplatesInv, TemplateTypes, Honest, Owned, K!TypeOK

LEMMA MadeFromInv == ASSUME TemplatesInv PROVE K!MadeAsShown
<1> SUFFICES ASSUME copy # None, copy.ok
             PROVE /\ Len(copy.pages) = wish.count /\ K!FirstPaper(copy.pages) = wish.first
                   /\ K!AllPaper(copy.pages)
                   /\ wish.id \in System \/ template[wish.id].owner = Me
  BY DEF K!MadeAsShown
<1>1. Honest(wish) /\ copy.pages = PagesOf(wish.id)
  BY DEF TemplatesInv
<1>2. wish = K!View(wish.id, copy.pages)
  BY <1>1 DEF Honest
<1>3. wish.count = Len(copy.pages) /\ wish.first = K!FirstPaper(copy.pages)
  BY <1>2 DEF K!View
<1>4. copy.pages \in Seq(Papers)
  BY <1>1, TemplateAssumption DEF TemplatesInv, TemplateTypes, TemplateRecords, Honest, Owned, PagesOf
<1>5. K!AllPaper(copy.pages)
  BY <1>4, TemplateAssumption DEF K!AllPaper, K!IsPaper
<1> QED
  BY <1>1, <1>3, <1>5 DEF Honest, Owned

LEMMA MinOfTwo == ASSUME NEW m \in Nat, NEW n \in Nat PROVE K!Min({m, n}) = IF m <= n THEN m ELSE n
<1>1. \A x \in {m, n} : (\A y \in {m, n} : x <= y) => x = IF m <= n THEN m ELSE n
  OBVIOUS
<1>2. \E x \in {m, n} : \A y \in {m, n} : x <= y
  <2>1. CASE m <= n
    BY <2>1
  <2>2. CASE ~ (m <= n)
    BY <2>2
  <2> QED
    BY <2>1, <2>2
<1> QED
  BY <1>1, <1>2 DEF K!Min

\* A template that is there keeps its owner and its pages, so that what was shown of it stays true.
LEMMA HonestStays ==
  ASSUME NEW v, Honest(v),
         \A id \in Saved : template[id].owner # None =>
           template'[id].owner = template[id].owner /\ template'[id].pages = template[id].pages
  PROVE Honest(v)' /\ PagesOf(v.id)' = PagesOf(v.id)
<1>1. CASE v.id \in System
  BY <1>1, TemplateAssumption DEF Honest, Owned, PagesOf, K!View, K!FirstPaper
<1>2. CASE Owned(v.id)
  <2>1. template'[v.id].owner = Me /\ template'[v.id].pages = template[v.id].pages
    BY <1>2, TemplateAssumption DEF Owned
  <2> QED
    BY <1>2, <2>1, TemplateAssumption DEF Honest, Owned, PagesOf, K!View, K!FirstPaper
<1> QED
  BY <1>1, <1>2 DEF Honest

LEMMA TemplatesStart == ASSUME K!Init PROVE TemplatesInv
<1>1. leaves \in Seq(Papers \cup {"image"})
  <2>1. CASE leaves = <<>>
    BY <2>1, EmptySeq
  <2>2. CASE leaves # <<>>
    <3>1. PICK p \in Papers \cup {"image"} : leaves = <<p>>
      BY <2>2 DEF K!Init
    <3> QED
      BY <3>1
  <2> QED
    BY <2>1, <2>2
<1>2. template = [id \in Saved |-> [owner |-> None, pages |-> <<>>, live |-> FALSE]]
  BY DEF K!Init, K!NoTemplate
<1>3. template \in [Saved -> TemplateRecords]
  <2>1. <<>> \in Seq(Papers)
    BY EmptySeq
  <2>2. [owner |-> None, pages |-> <<>>, live |-> FALSE] \in TemplateRecords
    BY <2>1 DEF TemplateRecords
  <2> QED
    BY <1>2, <2>2
<1>4. keeping = [u \in Users |-> None] /\ picked = None /\ wish = None /\ copy = None /\ gallery = K!SystemViews
  BY DEF K!Init
<1>5. TemplateTypes
  BY <1>1, <1>2, <1>3, <1>4 DEF TemplateTypes
<1>6. \A v \in gallery : Honest(v)
  BY <1>4 DEF K!SystemViews, K!View, Honest, PagesOf
<1> QED
  BY <1>4, <1>5, <1>6 DEF TemplatesInv

\* A step that may add and delete templates, but changes none, keeps what was shown, asked for and made.
LEMMA TemplatesKept ==
  ASSUME TemplatesInv, TemplateTypes', \A v \in gallery' : v \in gallery, UNCHANGED <<wish, copy>>,
         \A id \in Saved : template[id].owner # None =>
           template'[id].owner = template[id].owner /\ template'[id].pages = template[id].pages
  PROVE TemplatesInv'
<1>2. \A v : Honest(v) => Honest(v)' /\ PagesOf(v.id)' = PagesOf(v.id)
  BY HonestStays
<1>3. \A v \in gallery' : Honest(v)'
  BY <1>2 DEF TemplatesInv
<1>4. wish # None => Honest(wish)' /\ PagesOf(wish.id)' = PagesOf(wish.id)
  BY <1>2 DEF TemplatesInv
<1>6. wish' # None => Honest(wish)'
  BY <1>4 DEF Honest, Owned, PagesOf, K!View, K!FirstPaper
<1>7. copy' # None => wish' # None /\ (copy'.ok => copy'.pages = PagesOf(wish.id)')
  BY <1>4 DEF TemplatesInv, PagesOf
<1> QED
  BY <1>3, <1>6, <1>7 DEF TemplatesInv

LEMMA PageInserted ==
  ASSUME TemplatesInv, NEW p \in Papers \cup {"image"}, NEW i \in 1..Len(leaves) + 1, K!InsertPage(i, p)
  PROVE TemplatesInv'
<1>1. leaves \in Seq(Papers \cup {"image"}) /\ Len(leaves) \in Nat
  BY LenProperties DEF TemplatesInv, TemplateTypes
<1>2. /\ SubSeq(leaves, 1, i - 1) \in Seq(Papers \cup {"image"})
      /\ SubSeq(leaves, i, Len(leaves)) \in Seq(Papers \cup {"image"})
      /\ <<p>> \in Seq(Papers \cup {"image"})
  <2>1. i \in Nat \ {0} /\ i - 1 \in Int /\ Len(leaves) \in Int /\ i - 1 <= Len(leaves)
    BY <1>1
  <2> QED
    BY <1>1, <2>1, SliceOfSeq
<1>3. leaves' = (SubSeq(leaves, 1, i - 1) \o <<p>>) \o SubSeq(leaves, i, Len(leaves))
  BY DEF K!InsertPage, K!InsertAt
<1>4. leaves' \in Seq(Papers \cup {"image"})
  BY <1>2, <1>3, ConcatProperties
<1>5. UNCHANGED <<template, keeping, gallery, picked, wish, copy>>
  BY DEF K!InsertPage
<1>6. TemplateTypes'
  BY <1>4, <1>5 DEF TemplatesInv, TemplateTypes
<1> QED
  BY <1>5, <1>6, TemplatesKept

LEMMA PageRemoved ==
  ASSUME TemplatesInv, NEW i \in DOMAIN leaves, K!RemovePage(i)
  PROVE TemplatesInv'
<1>1. leaves \in Seq(Papers \cup {"image"}) /\ Len(leaves) \in Nat /\ i \in 1..Len(leaves)
  BY LenProperties DEF TemplatesInv, TemplateTypes
<1>2. /\ SubSeq(leaves, 1, i - 1) \in Seq(Papers \cup {"image"})
      /\ SubSeq(leaves, i + 1, Len(leaves)) \in Seq(Papers \cup {"image"})
  <2>1. i + 1 \in Nat \ {0} /\ i - 1 \in Int /\ Len(leaves) \in Int /\ i - 1 <= Len(leaves)
    BY <1>1
  <2> QED
    BY <1>1, <2>1, SliceOfSeq
<1>3. leaves' = SubSeq(leaves, 1, i - 1) \o SubSeq(leaves, i + 1, Len(leaves))
  BY DEF K!RemovePage, K!RemoveAt
<1>4. leaves' \in Seq(Papers \cup {"image"})
  BY <1>2, <1>3, ConcatProperties
<1>5. UNCHANGED <<template, keeping, gallery, picked, wish, copy>>
  BY DEF K!RemovePage
<1>6. TemplateTypes'
  BY <1>4, <1>5 DEF TemplatesInv, TemplateTypes
<1> QED
  BY <1>5, <1>6, TemplatesKept

\* What is kept of the pages, all of which are paper, is paper, although the document changes afterwards.
LEMMA SaveReads ==
  ASSUME TemplatesInv, NEW u \in Users, K!SaveRead(u)
  PROVE TemplatesInv'
<1>1. leaves \in Seq(Papers \cup {"image"}) /\ Len(leaves) \in Nat
  BY LenProperties DEF TemplatesInv, TemplateTypes
<1>2. \A k \in 1..Len(leaves) : leaves[k] \in Papers
  <2>1. \A k \in 1..Len(leaves) : leaves[k] \in Papers \cup {"image"}
    BY <1>1, ElementOfSeq
  <2>2. \A k \in DOMAIN leaves : leaves[k] # "image"
    BY DEF K!SaveRead, K!AllPaper, K!IsPaper
  <2> QED
    BY <1>1, <2>1, <2>2
<1> DEFINE n == K!Min({Len(leaves), TemplatePages})
<1>3. n \in Int /\ n <= Len(leaves)
  BY <1>1, MinOfTwo, TemplateAssumption
<1>4. SubSeq(leaves, 1, n) \in Seq(Papers)
  <2>1. \A k \in 1..n : leaves[k] \in Papers
    BY <1>1, <1>2, <1>3
  <2> HIDE DEF n
  <2> QED
    BY <1>3, <2>1, SubSeqProperties
<1>5. keeping' = [keeping EXCEPT ![u] = SubSeq(leaves, 1, n)]
      /\ UNCHANGED <<leaves, template, gallery, picked, wish, copy>>
  BY DEF K!SaveRead
<1>6. TemplateTypes'
  <2> HIDE DEF n
  <2> QED
    BY <1>4, <1>5 DEF TemplatesInv, TemplateTypes
<1> QED
  BY <1>5, <1>6, TemplatesKept

LEMMA SaveInserts ==
  ASSUME TemplatesInv, NEW u \in Users, K!SaveInsert(u)
  PROVE TemplatesInv'
<1>1. keeping[u] \in Seq(Papers) /\ keeping' = [keeping EXCEPT ![u] = None]
      /\ UNCHANGED <<leaves, gallery, picked, wish, copy>>
  BY DEF K!SaveInsert, TemplatesInv, TemplateTypes
<1>2. CASE UNCHANGED template
  <2>1. TemplateTypes'
    BY <1>1, <1>2 DEF TemplatesInv, TemplateTypes
  <2> QED
    BY <1>1, <1>2, <2>1, TemplatesKept
<1>3. CASE \E id \in Saved : template[id].owner = None
                             /\ template' = [template EXCEPT ![id] = [owner |-> u, pages |-> keeping[u], live |-> TRUE]]
  <2>1. PICK id \in Saved : template[id].owner = None
                            /\ template' = [template EXCEPT ![id] = [owner |-> u, pages |-> keeping[u], live |-> TRUE]]
    BY <1>3
  <2>2. template' \in [Saved -> TemplateRecords]
    <3>1. [owner |-> u, pages |-> keeping[u], live |-> TRUE] \in TemplateRecords
      BY <1>1 DEF TemplateRecords
    <3> QED
      BY <2>1, <3>1 DEF TemplatesInv, TemplateTypes
  <2>3. TemplateTypes'
    BY <1>1, <2>2 DEF TemplatesInv, TemplateTypes
  <2>4. \A x \in Saved : template[x].owner # None =>
          template'[x].owner = template[x].owner /\ template'[x].pages = template[x].pages
    BY <2>1, <2>2
  <2> QED
    BY <1>1, <2>3, <2>4, TemplatesKept
<1> QED
  BY <1>2, <1>3 DEF K!SaveInsert

LEMMA NotLive ==
  ASSUME NEW r, r \in [owner : Users \cup {None}, pages : Seq(Papers), live : BOOLEAN],
         NEW v, v = [r EXCEPT !.live = FALSE]
  PROVE v = [owner |-> r.owner, pages |-> r.pages, live |-> FALSE]
OBVIOUS

\* Deleted, a template keeps its owner and its pages.
LEMMA TemplateDeleted ==
  ASSUME TemplatesInv, NEW id \in Saved, template' = [template EXCEPT ![id].live = FALSE],
         \A v \in gallery' : v \in gallery, picked' \in {picked, None}, UNCHANGED <<leaves, keeping, wish, copy>>
  PROVE TemplatesInv'
<1>1. template' \in [Saved -> TemplateRecords]
      /\ \A x \in Saved : template'[x].owner = template[x].owner /\ template'[x].pages = template[x].pages
  <2>1. template \in [Saved -> TemplateRecords] /\ template[id] \in TemplateRecords
    BY DEF TemplatesInv, TemplateTypes
  <2>2. PICK r : r = [template[id] EXCEPT !.live = FALSE]
    OBVIOUS
  <2>3. r = [owner |-> template[id].owner, pages |-> template[id].pages, live |-> FALSE]
    BY <2>1, <2>2, NotLive DEF TemplateRecords
  <2>4. r \in TemplateRecords /\ r.owner = template[id].owner /\ r.pages = template[id].pages
    BY <2>1, <2>3 DEF TemplateRecords
  <2>5. template' = [template EXCEPT ![id] = r]
    BY <2>2
  <2> QED
    BY <2>1, <2>4, <2>5
<1>3. TemplateTypes'
  BY <1>1 DEF TemplatesInv, TemplateTypes
<1> QED
  BY <1>1, <1>3, TemplatesKept

LEMMA TemplateOfMine == ASSUME TemplatesInv, NEW id \in K!Mine(Me) PROVE id \in Saved /\ Owned(id)
  BY DEF K!Mine, Owned

LEMMA GalleryLoads == ASSUME TemplatesInv, K!Load PROVE TemplatesInv'
<1>1. UNCHANGED <<leaves, template, keeping, picked, wish, copy>>
  BY DEF K!Load
<1>2. TemplateTypes'
  BY <1>1 DEF TemplatesInv, TemplateTypes
<1>3. \A v \in gallery' : Honest(v)
  <2>1. gallery' = K!SystemViews \cup {K!View(id, template[id].pages) : id \in K!Mine(Me)}
    BY DEF K!Load
  <2>2. \A v \in K!SystemViews : Honest(v)
    BY DEF K!SystemViews, K!View, Honest, PagesOf
  <2>3. ASSUME NEW id \in K!Mine(Me) PROVE Honest(K!View(id, template[id].pages))
    BY <2>3, TemplateOfMine, TemplateAssumption DEF K!View, Honest, PagesOf
  <2> QED
    BY <2>1, <2>2, <2>3
<1>4. \A v : Honest(v) => Honest(v)'
  BY <1>1 DEF Honest, Owned, PagesOf, K!View, K!FirstPaper
<1>5. \A v \in gallery' : Honest(v)'
  BY <1>3, <1>4
<1>6. wish' # None => Honest(wish)'
  BY <1>1 DEF TemplatesInv, Honest, Owned, PagesOf, K!View, K!FirstPaper
<1>7. copy' # None => wish' # None /\ (copy'.ok => copy'.pages = PagesOf(wish.id)')
  BY <1>1 DEF TemplatesInv, PagesOf
<1> QED
  BY <1>2, <1>5, <1>6, <1>7 DEF TemplatesInv

LEMMA TemplateChosen == ASSUME TemplatesInv, NEW v \in gallery, K!Choose(v) PROVE TemplatesInv'
<1>1. UNCHANGED <<leaves, template, keeping, gallery, wish, copy>> /\ picked' = v.id
  BY DEF K!Choose
<1>2. v.id \in Saved \cup System
  BY DEF TemplatesInv, Honest, Owned
<1>3. TemplateTypes'
  BY <1>1, <1>2 DEF TemplatesInv, TemplateTypes
<1> QED
  BY <1>1, <1>3, TemplatesKept

LEMMA TemplateAskedFor == ASSUME TemplatesInv, K!UseTemplate PROVE TemplatesInv'
<1>1. PICK v \in gallery : wish' = v
  BY DEF K!UseTemplate
<1>2. UNCHANGED <<leaves, template, keeping, gallery, picked, copy>> /\ copy = None
  BY DEF K!UseTemplate, TemplatesInv
<1>3. TemplateTypes'
  BY <1>2 DEF TemplatesInv, TemplateTypes
<1>4. \A w : Honest(w) => Honest(w)'
  BY <1>2 DEF Honest, Owned, PagesOf, K!View, K!FirstPaper
<1>5. \A w \in gallery' : Honest(w)'
  BY <1>2, <1>4 DEF TemplatesInv
<1>6. Honest(wish)'
  <2>1. Honest(v)'
    BY <1>4 DEF TemplatesInv
  <2> QED
    BY <1>1, <2>1 DEF Honest, Owned, PagesOf, K!View, K!FirstPaper
<1> QED
  BY <1>2, <1>3, <1>5, <1>6 DEF TemplatesInv

LEMMA CopyMade == ASSUME TemplatesInv, K!Create PROVE TemplatesInv'
<1>1. UNCHANGED <<leaves, template, keeping, gallery, picked, wish>> /\ wish # None
  BY DEF K!Create
<1>2. copy'.pages = PagesOf(wish.id)
  BY DEF K!Create, PagesOf
<1>3. TemplateTypes'
  BY <1>1 DEF TemplatesInv, TemplateTypes
<1>4. \A w : Honest(w) => Honest(w)'
  BY <1>1 DEF Honest, Owned, PagesOf, K!View, K!FirstPaper
<1>5. \A w \in gallery' : Honest(w)'
  BY <1>1, <1>4 DEF TemplatesInv
<1>6. wish' # None => Honest(wish)'
  BY <1>1 DEF TemplatesInv, Honest, Owned, PagesOf, K!View, K!FirstPaper
<1>7. PagesOf(wish.id)' = PagesOf(wish.id)
  BY <1>1 DEF PagesOf
<1> QED
  BY <1>1, <1>2, <1>3, <1>5, <1>6, <1>7 DEF TemplatesInv

LEMMA CopyAnswered == ASSUME TemplatesInv, K!Answer PROVE TemplatesInv'
<1>1. UNCHANGED <<leaves, template, keeping, gallery>> /\ wish' = None /\ copy' = None /\ picked' = None
  BY DEF K!Answer
<1>2. TemplateTypes'
  BY <1>1 DEF TemplatesInv, TemplateTypes
<1>4. \A w : Honest(w) => Honest(w)'
  BY <1>1 DEF Honest, Owned, PagesOf, K!View, K!FirstPaper
<1>5. \A w \in gallery' : Honest(w)'
  BY <1>1, <1>4 DEF TemplatesInv
<1> QED
  BY <1>1, <1>2, <1>5 DEF TemplatesInv

LEMMA TemplatesStep == ASSUME TemplatesInv, [MCNext]_allVars PROVE TemplatesInv'
<1>1. CASE K!Next
  <2>1. ASSUME NEW u \in Users, NEW id \in Saved, K!Delete(u, id) PROVE TemplatesInv'
    <3>1. /\ template' = [template EXCEPT ![id].live = FALSE] /\ gallery' = gallery /\ picked' = picked
          /\ UNCHANGED <<leaves, keeping, wish, copy>>
      BY <2>1 DEF K!Delete
    <3> QED
      BY <3>1, TemplateDeleted
  <2>2. ASSUME NEW v \in gallery, K!RemoveTemplate(v) PROVE TemplatesInv'
    <3>1. /\ v.id \in Saved /\ template' = [template EXCEPT ![v.id].live = FALSE] /\ picked' \in {picked, None}
          /\ UNCHANGED <<leaves, keeping, wish, copy>> /\ \A w \in gallery' : w \in gallery
      BY <2>2 DEF K!RemoveTemplate, K!Mine
    <3> QED
      BY <3>1, TemplateDeleted
  <2>3. CASE \E p \in Papers \cup {"image"}, i \in 1..Len(leaves) + 1 : K!InsertPage(i, p)
    BY <2>3, PageInserted
  <2>4. CASE \E i \in DOMAIN leaves : K!RemovePage(i)
    BY <2>4, PageRemoved
  <2>5. CASE \E u \in Users : K!SaveRead(u) \/ K!SaveInsert(u) \/ \E id \in Saved : K!Delete(u, id)
    BY <2>1, <2>5, SaveReads, SaveInserts
  <2>6. CASE \E v \in gallery : K!RemoveTemplate(v) \/ K!Choose(v)
    BY <2>2, <2>6, TemplateChosen
  <2> QED
    BY <1>1, <2>3, <2>4, <2>5, <2>6, GalleryLoads, TemplateAskedFor, CopyMade, CopyAnswered DEF K!Next
<1>2. CASE UNCHANGED copyVars
  <2>1. UNCHANGED <<leaves, template, keeping, gallery, picked, wish, copy>>
    BY <1>2 DEF copyVars
  <2>2. TemplateTypes'
    BY <2>1 DEF TemplatesInv, TemplateTypes
  <2> QED
    BY <2>1, <2>2, TemplatesKept
<1>3. K!Next \/ UNCHANGED copyVars
  BY Zenon DEF MCNext, allVars
<1> QED
  BY <1>1, <1>2, <1>3

LEMMA TemplatesAlways == MCSpec => []TemplatesInv
<1>1. MCInit => TemplatesInv
  BY TemplatesStart DEF MCInit
<1> QED
  BY <1>1, TemplatesStep, PTL DEF MCSpec

-----------------------------------------------------------------------------
\* What the forms of the New dialog send.

\* A page size that the form takes, in the form's unit.
Fits(x) == x \in Nat /\ 7200 <= x /\ x <= 1440000
FitsExactly(x) == x \in Nat /\ 1828800 <= x /\ x <= 365760000
FormSizes == {s \in Nat \X Nat : FitsExactly(s[1]) /\ FitsExactly(s[2])}
Number == Int \cup {None}

FormRecords == [size : DOMAIN G!Presets \cup {"custom", "saved"}, pick : FormSizes \cup {<<>>},
                width : Number, height : Number, unit : DOMAIN G!Unit, orientation : {"portrait", "landscape"},
                template : DOMAIN G!Defaults, spacing : Number, margin : Number, count : Number]

PresetNames == {"a0", "a1", "a2", "a3", "a4", "a5", "a6", "b0", "b1", "b2", "b3", "b4", "b5", "b6", "c4", "c5", "c6",
                "letter", "legal", "tabloid", "executive", "indexCard", "slide16x9", "slide4x3", "phone"}

LEMMA MinOfPair == ASSUME NEW m \in Int, NEW n \in Int PROVE G!Min({m, n}) = IF m <= n THEN m ELSE n
<1>1. \A x \in {m, n} : (\A y \in {m, n} : x <= y) => x = IF m <= n THEN m ELSE n
  OBVIOUS
<1>2. \E x \in {m, n} : \A y \in {m, n} : x <= y
  <2>1. CASE m <= n
    BY <2>1
  <2>2. CASE ~ (m <= n)
    BY <2>2
  <2> QED
    BY <2>1, <2>2
<1> QED
  BY <1>1, <1>2 DEF G!Min

LEMMA MaxOfPair == ASSUME NEW m \in Int, NEW n \in Int PROVE G!Max({m, n}) = IF m <= n THEN n ELSE m
<1>1. \A x \in {m, n} : (\A y \in {m, n} : x >= y) => x = IF m <= n THEN n ELSE m
  OBVIOUS
<1>2. \E x \in {m, n} : \A y \in {m, n} : x >= y
  <2>1. CASE m <= n
    BY <2>1
  <2>2. CASE ~ (m <= n)
    BY <2>2
  <2> QED
    BY <2>1, <2>2
<1> QED
  BY <1>1, <1>2 DEF G!Max

LEMMA MmFits == ASSUME NEW w \in Nat, NEW h \in Nat, 100 <= w, w <= 1500, 100 <= h, h <= 1500
                PROVE Fits(G!Mm(w, h)[1]) /\ Fits(G!Mm(w, h)[2])
<1>1. PICK m, n : m = (36000 * w + 63) \div 127 /\ n = (36000 * h + 63) \div 127
  OBVIOUS
<1>2. Fits(m) /\ Fits(n)
  BY <1>1 DEF Fits
<1>3. G!Mm(w, h) = <<m, n>>
  BY <1>1 DEF G!Mm
<1> QED
  BY <1>2, <1>3

LEMMA InchFits == ASSUME NEW w \in Nat, NEW h \in Nat, 100 <= w, w <= 2000, 100 <= h, h <= 2000
                  PROVE Fits(G!Inch(w, h)[1]) /\ Fits(G!Inch(w, h)[2])
<1>1. G!Inch(w, h) = <<72 * w, 72 * h>>
  BY DEF G!Inch
<1> QED
  BY <1>1 DEF Fits

\* A preset, in hundredths of a point, is a page that a form could ask for.
LEMMA PresetFits == /\ DOMAIN G!Presets = PresetNames
                    /\ \A id \in PresetNames : Fits(G!Presets[id][1]) /\ Fits(G!Presets[id][2])
<1> DEFINE Good(id) == Fits(G!Presets[id][1]) /\ Fits(G!Presets[id][2])
<1>1. DOMAIN G!Presets = PresetNames
  BY DEF G!Presets, PresetNames
<1>10. Good("a0")
  <2>1. G!Presets["a0"] = G!Mm(841, 1189)
    BY DEF G!Presets
  <2>2. Fits(G!Mm(841, 1189)[1]) /\ Fits(G!Mm(841, 1189)[2])
    BY MmFits
  <2> QED
    BY <2>1, <2>2
<1>11. Good("a1")
  <2>1. G!Presets["a1"] = G!Mm(594, 841)
    BY DEF G!Presets
  <2>2. Fits(G!Mm(594, 841)[1]) /\ Fits(G!Mm(594, 841)[2])
    BY MmFits
  <2> QED
    BY <2>1, <2>2
<1>12. Good("a2")
  <2>1. G!Presets["a2"] = G!Mm(420, 594)
    BY DEF G!Presets
  <2>2. Fits(G!Mm(420, 594)[1]) /\ Fits(G!Mm(420, 594)[2])
    BY MmFits
  <2> QED
    BY <2>1, <2>2
<1>13. Good("a3")
  <2>1. G!Presets["a3"] = G!Mm(297, 420)
    BY DEF G!Presets
  <2>2. Fits(G!Mm(297, 420)[1]) /\ Fits(G!Mm(297, 420)[2])
    BY MmFits
  <2> QED
    BY <2>1, <2>2
<1>14. Good("a4")
  <2>1. G!Presets["a4"] = G!Mm(210, 297)
    BY DEF G!Presets
  <2>2. Fits(G!Mm(210, 297)[1]) /\ Fits(G!Mm(210, 297)[2])
    BY MmFits
  <2> QED
    BY <2>1, <2>2
<1>15. Good("a5")
  <2>1. G!Presets["a5"] = G!Mm(148, 210)
    BY DEF G!Presets
  <2>2. Fits(G!Mm(148, 210)[1]) /\ Fits(G!Mm(148, 210)[2])
    BY MmFits
  <2> QED
    BY <2>1, <2>2
<1>16. Good("a6")
  <2>1. G!Presets["a6"] = G!Mm(105, 148)
    BY DEF G!Presets
  <2>2. Fits(G!Mm(105, 148)[1]) /\ Fits(G!Mm(105, 148)[2])
    BY MmFits
  <2> QED
    BY <2>1, <2>2
<1>17. Good("b0")
  <2>1. G!Presets["b0"] = G!Mm(1000, 1414)
    BY DEF G!Presets
  <2>2. Fits(G!Mm(1000, 1414)[1]) /\ Fits(G!Mm(1000, 1414)[2])
    BY MmFits
  <2> QED
    BY <2>1, <2>2
<1>18. Good("b1")
  <2>1. G!Presets["b1"] = G!Mm(707, 1000)
    BY DEF G!Presets
  <2>2. Fits(G!Mm(707, 1000)[1]) /\ Fits(G!Mm(707, 1000)[2])
    BY MmFits
  <2> QED
    BY <2>1, <2>2
<1>19. Good("b2")
  <2>1. G!Presets["b2"] = G!Mm(500, 707)
    BY DEF G!Presets
  <2>2. Fits(G!Mm(500, 707)[1]) /\ Fits(G!Mm(500, 707)[2])
    BY MmFits
  <2> QED
    BY <2>1, <2>2
<1>20. Good("b3")
  <2>1. G!Presets["b3"] = G!Mm(353, 500)
    BY DEF G!Presets
  <2>2. Fits(G!Mm(353, 500)[1]) /\ Fits(G!Mm(353, 500)[2])
    BY MmFits
  <2> QED
    BY <2>1, <2>2
<1>21. Good("b4")
  <2>1. G!Presets["b4"] = G!Mm(250, 353)
    BY DEF G!Presets
  <2>2. Fits(G!Mm(250, 353)[1]) /\ Fits(G!Mm(250, 353)[2])
    BY MmFits
  <2> QED
    BY <2>1, <2>2
<1>22. Good("b5")
  <2>1. G!Presets["b5"] = G!Mm(176, 250)
    BY DEF G!Presets
  <2>2. Fits(G!Mm(176, 250)[1]) /\ Fits(G!Mm(176, 250)[2])
    BY MmFits
  <2> QED
    BY <2>1, <2>2
<1>23. Good("b6")
  <2>1. G!Presets["b6"] = G!Mm(125, 176)
    BY DEF G!Presets
  <2>2. Fits(G!Mm(125, 176)[1]) /\ Fits(G!Mm(125, 176)[2])
    BY MmFits
  <2> QED
    BY <2>1, <2>2
<1>24. Good("c4")
  <2>1. G!Presets["c4"] = G!Mm(229, 324)
    BY DEF G!Presets
  <2>2. Fits(G!Mm(229, 324)[1]) /\ Fits(G!Mm(229, 324)[2])
    BY MmFits
  <2> QED
    BY <2>1, <2>2
<1>25. Good("c5")
  <2>1. G!Presets["c5"] = G!Mm(162, 229)
    BY DEF G!Presets
  <2>2. Fits(G!Mm(162, 229)[1]) /\ Fits(G!Mm(162, 229)[2])
    BY MmFits
  <2> QED
    BY <2>1, <2>2
<1>26. Good("c6")
  <2>1. G!Presets["c6"] = G!Mm(114, 162)
    BY DEF G!Presets
  <2>2. Fits(G!Mm(114, 162)[1]) /\ Fits(G!Mm(114, 162)[2])
    BY MmFits
  <2> QED
    BY <2>1, <2>2
<1>27. Good("letter")
  <2>1. G!Presets["letter"] = G!Inch(850, 1100)
    BY DEF G!Presets
  <2>2. Fits(G!Inch(850, 1100)[1]) /\ Fits(G!Inch(850, 1100)[2])
    BY InchFits
  <2> QED
    BY <2>1, <2>2
<1>28. Good("legal")
  <2>1. G!Presets["legal"] = G!Inch(850, 1400)
    BY DEF G!Presets
  <2>2. Fits(G!Inch(850, 1400)[1]) /\ Fits(G!Inch(850, 1400)[2])
    BY InchFits
  <2> QED
    BY <2>1, <2>2
<1>29. Good("tabloid")
  <2>1. G!Presets["tabloid"] = G!Inch(1100, 1700)
    BY DEF G!Presets
  <2>2. Fits(G!Inch(1100, 1700)[1]) /\ Fits(G!Inch(1100, 1700)[2])
    BY InchFits
  <2> QED
    BY <2>1, <2>2
<1>30. Good("executive")
  <2>1. G!Presets["executive"] = G!Inch(725, 1050)
    BY DEF G!Presets
  <2>2. Fits(G!Inch(725, 1050)[1]) /\ Fits(G!Inch(725, 1050)[2])
    BY InchFits
  <2> QED
    BY <2>1, <2>2
<1>31. Good("indexCard")
  <2>1. G!Presets["indexCard"] = G!Inch(300, 500)
    BY DEF G!Presets
  <2>2. Fits(G!Inch(300, 500)[1]) /\ Fits(G!Inch(300, 500)[2])
    BY InchFits
  <2> QED
    BY <2>1, <2>2
<1>32. Good("slide16x9")
  <2>1. G!Presets["slide16x9"] = <<96000, 54000>>
    BY DEF G!Presets
  <2> QED
    BY <2>1 DEF Fits
<1>33. Good("slide4x3")
  <2>1. G!Presets["slide4x3"] = <<72000, 54000>>
    BY DEF G!Presets
  <2> QED
    BY <2>1 DEF Fits
<1>34. Good("phone")
  <2>1. G!Presets["phone"] = <<39000, 84400>>
    BY DEF G!Presets
  <2> QED
    BY <2>1 DEF Fits
<1> HIDE DEF Good
<1>6. \A id \in PresetNames : Good(id)
  BY <1>10, <1>11, <1>12, <1>13, <1>14, <1>15, <1>16, <1>17, <1>18, <1>19, <1>20, <1>21, <1>22, <1>23, <1>24, <1>25,
     <1>26, <1>27, <1>28, <1>29, <1>30, <1>31, <1>32, <1>33, <1>34 DEF PresetNames
<1> QED
  BY <1>1, <1>6 DEF Good

TemplateNames == {"blank", "ruledCollege", "ruledWide", "ruledNarrow", "grid", "dotGrid", "isometric", "hex",
                  "graphWithAxes", "musicStaff", "cornell", "plannerDaily", "plannerWeekly", "plannerMonthly", "storyboard", "handwritingPractice", "engineering", "calligraphySlants"}

LEMMA DefaultFits == /\ DOMAIN G!Defaults = TemplateNames
                     /\ \A id \in TemplateNames : G!Defaults[id][1] \in Nat \ {0} /\ G!Defaults[id][2] \in Nat
<1> DEFINE Good(id) == G!Defaults[id][1] \in Nat \ {0} /\ G!Defaults[id][2] \in Nat
<1>1. DOMAIN G!Defaults = TemplateNames
  BY DEF G!Defaults, TemplateNames
<1>2. Good("blank") /\ Good("ruledCollege") /\ Good("ruledWide") /\ Good("ruledNarrow") /\ Good("grid")
      /\ Good("dotGrid") /\ Good("isometric") /\ Good("hex") /\ Good("graphWithAxes") /\ Good("musicStaff")
  BY DEF G!Defaults
<1>3. Good("cornell") /\ Good("plannerDaily") /\ Good("plannerWeekly") /\ Good("plannerMonthly") /\ Good("storyboard")
      /\ Good("handwritingPractice") /\ Good("engineering") /\ Good("calligraphySlants")
  BY DEF G!Defaults
<1> HIDE DEF Good
<1>6. \A id \in TemplateNames : Good(id)
  BY <1>2, <1>3 DEF TemplateNames
<1> QED
  BY <1>1, <1>6 DEF Good

LEMMA UnitFits == ASSUME NEW u \in DOMAIN G!Unit PROVE G!Unit[u] \in Nat
<1>1. DOMAIN G!Unit = {"mm", "cm", "in", "px"}
  BY DEF G!Unit
<1>2. G!Unit["mm"] \in Nat /\ G!Unit["cm"] \in Nat /\ G!Unit["in"] \in Nat /\ G!Unit["px"] \in Nat
  BY DEF G!Unit
<1> QED
  BY <1>1, <1>2

LEMMA OrientFits == ASSUME NEW X \in SUBSET Int, NEW s, s[1] \in X, s[2] \in X, NEW o, NEW v, v = G!Orient(s, o)
                    PROVE /\ v[1] \in X /\ v[2] \in X
                          /\ o = "portrait" => v[1] <= v[2]
                          /\ o # "portrait" => v[2] <= v[1]
<1>1. PICK w, h : w = s[1] /\ h = s[2]
  OBVIOUS
<1>2. w \in X /\ h \in X /\ w \in Int /\ h \in Int
  BY <1>1
<1>3. G!Min({w, h}) = (IF w <= h THEN w ELSE h) /\ G!Max({w, h}) = IF w <= h THEN h ELSE w
  BY <1>2, MinOfPair, MaxOfPair
<1>4. CASE o = "portrait"
  <2>1. v = <<G!Min({w, h}), G!Max({w, h})>>
    BY <1>1, <1>4 DEF G!Orient
  <2> QED
    BY <1>2, <1>3, <1>4, <2>1
<1>5. CASE o # "portrait"
  <2>1. v = <<G!Max({w, h}), G!Min({w, h})>>
    BY <1>1, <1>5 DEF G!Orient
  <2> QED
    BY <1>2, <1>3, <1>5, <2>1
<1> QED
  BY <1>4, <1>5

LEMMA RoundFits == ASSUME NEW x, FitsExactly(x) PROVE Fits(G!Round2(x))
<1>1. x \in Nat /\ 1828800 <= x /\ x <= 365760000
  BY DEF FitsExactly
<1>2. G!Round2(x) = (x + 127) \div 254
  BY DEF G!Round2, G!Exact
<1> QED
  BY <1>1, <1>2 DEF Fits

\* The size of a form that is right is one that the server takes.
LEMMA SizeFits ==
  ASSUME NEW f \in FormRecords, NEW X \in SUBSET FormSizes, NEW v, v = G!FormSize(f, X), v.ok
  PROVE /\ v.preset \in DOMAIN G!Presets \cup {"custom"}
        /\ FitsExactly(v.width) /\ FitsExactly(v.height)
        /\ f.size = "custom" => v.width = G!ToPoints(f.width, f.unit) /\ v.height = G!ToPoints(f.height, f.unit)
<1>4. "custom" \notin DOMAIN G!Presets
  BY PresetFits DEF PresetNames
<1>1. CASE f.size \in DOMAIN G!Presets
  <2>1. v = [ok |-> TRUE, preset |-> f.size, width |-> G!Presets[f.size][1] * 254, height |-> G!Presets[f.size][2] * 254]
    BY <1>1 DEF G!FormSize, G!Exact
  <2>2. Fits(G!Presets[f.size][1]) /\ Fits(G!Presets[f.size][2])
    BY <1>1, PresetFits
  <2> QED
    BY <1>1, <1>4, <2>1, <2>2 DEF Fits, FitsExactly
<1>2. CASE f.size = "custom" /\ f.size \notin DOMAIN G!Presets
  <2>1. PICK w, h : w = G!ToPoints(f.width, f.unit) /\ h = G!ToPoints(f.height, f.unit)
    OBVIOUS
  <2>2. v = IF None \in {f.width, f.height} \/ G!Min({w, h}) < 7200 * G!Exact \/ G!Max({w, h}) > G!MaxPage * G!Exact
            THEN G!Error ELSE [ok |-> TRUE, preset |-> "custom", width |-> w, height |-> h]
    BY <1>2, <2>1 DEF G!FormSize
  <2>3. ~ G!Error.ok
    BY DEF G!Error
  <2>4. /\ f.width # None /\ f.height # None /\ ~ G!Min({w, h}) < 7200 * G!Exact /\ ~ G!Max({w, h}) > G!MaxPage * G!Exact
        /\ v = [ok |-> TRUE, preset |-> "custom", width |-> w, height |-> h]
    BY <2>2, <2>3
  <2>5. f.width \in Int /\ f.height \in Int /\ G!Unit[f.unit] \in Nat
    BY <2>4, UnitFits DEF FormRecords, Number
  <2>6. w \in Int /\ h \in Int
    BY <2>1, <2>5 DEF G!ToPoints
  <2>7. G!Min({w, h}) = (IF w <= h THEN w ELSE h) /\ G!Max({w, h}) = IF w <= h THEN h ELSE w
    BY <2>6, MinOfPair, MaxOfPair
  <2>8. 7200 * G!Exact = 1828800 /\ G!MaxPage * G!Exact = 365760000
    BY DEF G!Exact, G!MaxPage
  <2>9. FitsExactly(w) /\ FitsExactly(h)
    BY <2>4, <2>6, <2>7, <2>8 DEF FitsExactly
  <2> QED
    BY <2>1, <2>4, <2>9
<1>3. CASE f.size = "saved" /\ f.size \notin DOMAIN G!Presets
  <2>1. v = IF f.pick \notin X THEN G!Error
            ELSE [ok |-> TRUE, preset |-> "custom", width |-> f.pick[1], height |-> f.pick[2]]
    BY <1>3 DEF G!FormSize
  <2>2. ~ G!Error.ok
    BY DEF G!Error
  <2> QED
    BY <1>3, <2>1, <2>2 DEF FormSizes
<1> QED
  BY <1>1, <1>2, <1>3 DEF FormRecords

\* What the server takes of a request, with what its answer says.
Accepted(r) == /\ G!SchemaTakes(r) /\ r.count \in 1..500
               /\ r.kind = "import" => G!ImageIsKept(r)

LEMMA ExactIs == /\ G!Exact \in Nat /\ G!MaxPage \in Nat
                 /\ \A x : Fits(x) => x \in 1..G!MaxPage
                 /\ \A x \in Int : x >= 200 * G!Exact => x >= 50800
                 /\ \A x \in Int : x \in 200 * G!Exact .. 40000 * G!Exact => x > 0 /\ x <= 40000 * G!Exact
<1>1. G!Exact \in Nat /\ G!Exact >= 254 /\ G!MaxPage \in Nat /\ G!MaxPage >= 1440000
  BY DEF G!Exact, G!MaxPage
<1>2. \A x : Fits(x) => x \in 1..G!MaxPage
  BY <1>1 DEF Fits
<1>3. \A x \in Int : x >= 200 * G!Exact => x >= 50800
  BY <1>1
<1>4. \A x \in Int : x \in 200 * G!Exact .. 40000 * G!Exact => x > 0 /\ x <= 40000 * G!Exact
  BY <1>1
<1> QED
  BY <1>1, <1>2, <1>3, <1>4

LEMMA PageIsTaken ==
  ASSUME NEW r, r.kind = "notebook", r.preset \in DOMAIN G!Presets \cup {"custom"}, Fits(r.width), Fits(r.height),
         r.template \in DOMAIN G!Defaults, r.spacing > 0, r.margin >= 0, r.count \in 1..500
  PROVE Accepted(r)
<1>1. r.width \in 1..G!MaxPage /\ r.height \in 1..G!MaxPage
  BY ExactIs
<1>2. G!SchemaTakes(r)
  BY <1>1 DEF G!SchemaTakes
<1> QED
  BY <1>2 DEF Accepted

\* A form that is right asks for what the server takes.
LEMMA NotebookIsTaken ==
  ASSUME NEW f \in FormRecords, NEW X \in SUBSET FormSizes, NEW v, v = G!NotebookSpec(f, X), v.ok
  PROVE /\ Accepted(v)
        /\ f.size = "custom" => <<G!ToPoints(f.width, f.unit), G!ToPoints(f.height, f.unit)>> \in FormSizes
<1>1. PICK z : z = G!FormSize(f, X)
  OBVIOUS
<1>2. PICK s, m, o : s = G!ToPoints(f.spacing, "mm") /\ m = G!ToPoints(f.margin, "mm")
                     /\ o = G!Orient(<<z.width, z.height>>, f.orientation)
  OBVIOUS
<1>3. v = IF ~z.ok \/ None \in {f.spacing, f.margin, f.count} THEN G!Error
          ELSE IF s < 200 * G!Exact \/ s > 20000 * G!Exact THEN G!Error
          ELSE IF m < 0 \/ 3 * m > G!Min({z.width, z.height}) THEN G!Error
          ELSE IF f.count \notin 1..500 THEN G!Error
          ELSE [ok |-> TRUE, kind |-> "notebook", preset |-> z.preset, width |-> G!Round2(o[1]), height |-> G!Round2(o[2]),
                template |-> f.template, spacing |-> G!Round2(s), margin |-> G!Round2(m), count |-> f.count]
  BY <1>1, <1>2 DEF G!NotebookSpec
<1>4. ~ G!Error.ok
  BY DEF G!Error
<1>5. /\ z.ok /\ f.spacing # None /\ f.margin # None /\ ~ s < 200 * G!Exact /\ ~ m < 0 /\ f.count \in 1..500
      /\ v = [ok |-> TRUE, kind |-> "notebook", preset |-> z.preset, width |-> G!Round2(o[1]), height |-> G!Round2(o[2]),
              template |-> f.template, spacing |-> G!Round2(s), margin |-> G!Round2(m), count |-> f.count]
  BY <1>3, <1>4
<1>6. z.preset \in DOMAIN G!Presets \cup {"custom"} /\ FitsExactly(z.width) /\ FitsExactly(z.height)
  BY <1>1, <1>5, SizeFits
<1>7. Fits(G!Round2(o[1])) /\ Fits(G!Round2(o[2]))
  <2>1. PICK Widths : Widths = {x \in Int : FitsExactly(x)}
    OBVIOUS
  <2>2. Widths \in SUBSET Int /\ <<z.width, z.height>>[1] \in Widths /\ <<z.width, z.height>>[2] \in Widths
    BY <1>6, <2>1 DEF FitsExactly
  <2>3. o[1] \in Widths /\ o[2] \in Widths
    BY <1>2, <2>2, OrientFits
  <2> QED
    BY <2>1, <2>3, RoundFits
<1>8. G!Round2(s) > 0 /\ G!Round2(m) >= 0
  <2>1. f.spacing \in Int /\ f.margin \in Int /\ G!Unit["mm"] = 7200
    BY <1>5 DEF FormRecords, Number, G!Unit
  <2>2. s \in Int /\ m \in Int
    BY <1>2, <2>1 DEF G!ToPoints
  <2>3. s >= 50800
    BY <1>5, <2>2, ExactIs
  <2>4. G!Round2(s) = (s + 127) \div 254 /\ G!Round2(m) = (m + 127) \div 254
    BY DEF G!Round2, G!Exact
  <2> QED
    BY <1>5, <2>2, <2>3, <2>4
<1>9. f.template \in DOMAIN G!Defaults
  BY DEF FormRecords
<1>10. Accepted(v)
  BY <1>5, <1>6, <1>7, <1>8, <1>9, PageIsTaken
<1>11. f.size = "custom" => z.width = G!ToPoints(f.width, f.unit) /\ z.height = G!ToPoints(f.height, f.unit)
  BY <1>1, <1>5, SizeFits
<1>12. <<z.width, z.height>> \in FormSizes
  BY <1>6 DEF FormSizes, FitsExactly
<1> QED
  BY <1>10, <1>11, <1>12

LEMMA SystemFits == \A t \in G!SystemTemplates : /\ t.size \in {"a4", "a5", "letter"} /\ t.template \in TemplateNames
                                                 /\ t.count \in 1..500
  BY DEF G!SystemTemplates, TemplateNames

LEMMA SystemIsTaken == ASSUME NEW t \in G!SystemTemplates PROVE Accepted(G!PaperPageSpec(t))
<1>1. t.size \in PresetNames /\ t.template \in TemplateNames /\ t.count \in 1..500
  BY SystemFits DEF PresetNames
<1>2. PICK s, o : s = G!Presets[t.size] /\ o = G!Orient(s, t.orientation)
  OBVIOUS
<1>3. Fits(o[1]) /\ Fits(o[2])
  <2>1. PICK X : X = {x \in Int : Fits(x)}
    OBVIOUS
  <2>2. X \in SUBSET Int /\ s[1] \in X /\ s[2] \in X
    BY <1>1, <1>2, <2>1, PresetFits DEF Fits
  <2>3. o[1] \in X /\ o[2] \in X
    BY <1>2, <2>2, OrientFits
  <2> QED
    BY <2>1, <2>3
<1>4. PICK r : r = G!PaperPageSpec(t)
  OBVIOUS
<1>5. r = [kind |-> "notebook", preset |-> t.size, width |-> o[1], height |-> o[2], template |-> t.template,
           spacing |-> G!Defaults[t.template][1], margin |-> G!Defaults[t.template][2], count |-> t.count]
  BY <1>2, <1>4 DEF G!PaperPageSpec
<1>6. G!Defaults[t.template][1] > 0 /\ G!Defaults[t.template][2] >= 0
  BY <1>1, DefaultFits
<1>7. t.size \in DOMAIN G!Presets /\ t.template \in DOMAIN G!Defaults
  BY <1>1, PresetFits, DefaultFits
<1> QED
  BY <1>1, <1>3, <1>4, <1>5, <1>6, <1>7, PageIsTaken

LEMMA CanvasIsTaken == ASSUME NEW s \in Int, s \in 200 * G!Exact .. 40000 * G!Exact
                       PROVE Accepted([kind |-> "canvas", spacing |-> s, count |-> 1])
  BY ExactIs DEF Accepted, G!SchemaTakes

LEMMA Divided == ASSUME NEW x \in Nat, NEW y \in Nat \ {0}
                 PROVE /\ x \div y \in Nat /\ x % y \in Nat /\ x % y < y
                       /\ x = y * (x \div y) + (x % y)
  OBVIOUS

\* A side in proportion: 14400 points for the longest side, rounded to a hundredth.
LEMMA ScaledSide ==
  ASSUME NEW z \in Nat \ {0}, NEW n \in Nat, NEW s, s = G!Scaled(z, n)
  PROVE s \in Nat /\ z * s <= 1440000 * n + z \div 2 /\ 1440000 * n + z \div 2 < z * s + z
<1>1. PICK q, r : q = (14400 * n) \div z /\ r = (14400 * n) % z
  OBVIOUS
<1>2. q \in Nat /\ r \in Nat /\ r < z /\ 14400 * n = z * q + r
  BY <1>1, Divided
<1>3. PICK g, h : g = (100 * r + z \div 2) \div z /\ h = (100 * r + z \div 2) % z
  OBVIOUS
<1>4. z \div 2 \in Nat
  OBVIOUS
<1>5. g \in Nat /\ h \in Nat /\ h < z /\ 100 * r + z \div 2 = z * g + h
  BY <1>2, <1>3, <1>4, Divided
<1>6. s = 100 * q + g
  BY <1>1, <1>3 DEF G!Scaled
<1>7. s \in Nat /\ z * s = 100 * (z * q) + z * g
  BY <1>2, <1>5, <1>6
<1>8. z * q \in Nat /\ z * g \in Nat
  BY <1>2, <1>5
<1> QED
  BY <1>2, <1>4, <1>5, <1>7, <1>8

LEMMA Factor == ASSUME NEW z \in Nat \ {0}, NEW s \in Int, NEW v \in Int, z * s < z * v + z PROVE s <= v
<1>1. s > v => z * s >= z * v + z
  <2> SUFFICES ASSUME s > v PROVE z * s >= z * v + z
    OBVIOUS
  <2>1. PICK k \in Nat : s = v + 1 + k
    <3>1. s - v - 1 \in Nat /\ s = v + 1 + (s - v - 1)
      OBVIOUS
    <3> QED
      BY <3>1
  <2>2. z * s = z * v + z + z * k /\ z * k \in Nat
    BY <2>1
  <2> QED
    BY <2>2
<1> QED
  BY <1>1

\* The longest side is 14400 points, and no side is longer than one that has more pixels.
LEMMA ScaledInOrder ==
  ASSUME NEW z \in Nat \ {0}, NEW n \in Nat, NEW m \in Nat, n <= m, m <= z,
         NEW s, s = G!Scaled(z, n), NEW v, v = G!Scaled(z, m)
  PROVE /\ s \in Nat /\ v \in Nat /\ s <= v /\ v <= 1440000
        /\ m = z => v = 1440000
<1>1. s \in Nat /\ z * s <= 1440000 * n + z \div 2 /\ 1440000 * n + z \div 2 < z * s + z
  BY ScaledSide
<1>2. v \in Nat /\ z * v <= 1440000 * m + z \div 2 /\ 1440000 * m + z \div 2 < z * v + z
  BY ScaledSide
<1>3. z \div 2 \in Nat /\ z \div 2 < z
  OBVIOUS
<1>4. z * s \in Int /\ z * v \in Int /\ z * 1440000 = 1440000 * z
  BY <1>1, <1>2
<1>5. s <= v
  <2>1. z * s < z * v + z
    BY <1>1, <1>2, <1>3, <1>4
  <2> QED
    BY <1>1, <1>2, <2>1, Factor
<1>6. v <= 1440000
  <2>1. z * v < z * 1440000 + z
    BY <1>2, <1>3, <1>4
  <2> QED
    BY <1>2, <2>1, Factor
<1>7. m = z => v = 1440000
  <2>1. m = z => z * 1440000 < z * v + z
    BY <1>2, <1>3, <1>4
  <2>2. m = z => 1440000 <= v
    BY <1>2, <2>1, Factor
  <2> QED
    BY <1>2, <1>6, <2>2
<1> QED
  BY <1>1, <1>2, <1>5, <1>6, <1>7

\* Across, a side in hundreds of pixels is at most half a pixel off.
LEMMA ScaledShape ==
  ASSUME NEW x \in Nat, NEW y \in Nat, x >= y, NEW z \in Nat \ {0}, z = 100 * x, z <= 100000,
         NEW s, s = G!Scaled(z, 100 * y)
  PROVE 1440000 * y - s * x \in Int /\ -1000 <= 1440000 * y - s * x /\ 1440000 * y - s * x <= 1000
<1>1. s \in Nat /\ z * s <= 1440000 * (100 * y) + z \div 2 /\ 1440000 * (100 * y) + z \div 2 < z * s + z
  BY ScaledSide
<1>2. z * s = 100 * (s * x) /\ s * x \in Nat
  BY <1>1
<1>3. 1440000 * (100 * y) = 100 * (1440000 * y)
  OBVIOUS
<1>4. z \div 2 = 50 * x /\ x <= 1000
  OBVIOUS
<1> QED
  BY <1>1, <1>2, <1>3, <1>4

LEMMA SideIs == ASSUME NEW n \in Sides
                PROVE n \in Nat \ {0} /\ n <= 100000
  BY DEF Sides

LEMMA HundredsIs == ASSUME NEW n \in Sides, n # 1 PROVE \E k \in Nat : n = 100 * k /\ n \div 100 = k
  BY DEF Sides

LEMMA ShapeIsKept ==
  ASSUME NEW n \in Sides, NEW m \in Sides, n >= m, n > 19200, G!Scaled(n, m) >= 100
  PROVE \A e : e = 1440000 * (m \div 100) - G!Scaled(n, m) * (n \div 100) => e \in Int /\ -1000 <= e /\ e <= 1000
<1>1. n \in Nat \ {0} /\ m \in Nat \ {0} /\ n <= 100000
  BY SideIs
<1>2. PICK s : s = G!Scaled(n, m)
  OBVIOUS
<1>3. s \in Nat /\ n * s <= 1440000 * m + n \div 2
  BY <1>1, <1>2, ScaledSide
<1>4. m # 1
  <2> SUFFICES ASSUME m = 1 PROVE FALSE
    OBVIOUS
  <2>1. n * s < n * 99 + n
    <3>1. n * s \in Int /\ n * s <= 1440000 + n \div 2 /\ n * 99 = 99 * n
      BY <1>1, <1>3
    <3> QED
      BY <1>1, <3>1
  <2>2. s <= 99
    BY <1>1, <1>3, <2>1, Factor
  <2> QED
    BY <1>2, <1>3, <2>2
<1>5. PICK x \in Nat : n = 100 * x /\ n \div 100 = x
  BY HundredsIs
<1>6. PICK y \in Nat : m = 100 * y /\ m \div 100 = y
  BY <1>4, HundredsIs
<1>7. s = G!Scaled(n, 100 * y)
  BY <1>2, <1>6
<1>8. x >= y
  BY <1>5, <1>6
<1>9. 1440000 * y - s * x \in Int /\ -1000 <= 1440000 * y - s * x /\ 1440000 * y - s * x <= 1000
  BY <1>1, <1>5, <1>7, <1>8, ScaledShape
<1>10. G!Scaled(n, m) = s /\ m \div 100 = y /\ n \div 100 = x
  BY <1>2, <1>5, <1>6
<1> QED
  BY <1>9, <1>10

\* An image's page, for any sides that have a pixel or hundreds of them.
LEMMA ImageSizeFits ==
  ASSUME NEW px, NEW w \in Sides, NEW h \in Sides, w = px[1], h = px[2], NEW p, p = G!ImagePageSize(px)
  PROVE /\ p[1] \in Nat /\ 100 <= p[1] /\ p[1] <= 1440000
        /\ p[2] \in Nat /\ 100 <= p[2] /\ p[2] <= 1440000
        /\ w > h => p[1] >= p[2]
        /\ w <= h => p[1] <= p[2]
        /\ \A e : (w > 19200 \/ h > 19200) /\ p[1] # 100 /\ p[2] # 100 /\ e = p[1] * (h \div 100) - p[2] * (w \div 100)
                    => e \in Int /\ -1000 <= e /\ e <= 1000
<1>1. w \in Nat \ {0} /\ h \in Nat \ {0} /\ w <= 100000 /\ h <= 100000
  BY SideIs
<1>2. PICK z : z = IF w <= h THEN h ELSE w
  OBVIOUS
<1>3. G!Max({px[1], px[2]}) = z /\ z \in Nat \ {0} /\ w <= z /\ h <= z /\ (z = w \/ z = h)
  BY <1>1, <1>2, MaxOfPair
<1>4. PICK q, s : q = (IF z <= 19200 THEN 75 * w ELSE G!Scaled(z, w)) /\ s = IF z <= 19200 THEN 75 * h ELSE G!Scaled(z, h)
  OBVIOUS
<1>5. p[1] = G!Max({100, q}) /\ p[2] = G!Max({100, s})
  <2>1. p = [i \in 1..2 |-> G!Max({100, IF z <= 19200 THEN 75 * px[i] ELSE G!Scaled(z, px[i])})]
    BY <1>3 DEF G!ImagePageSize
  <2> QED
    BY <1>4, <2>1
<1>6. /\ q \in Nat /\ s \in Nat /\ q <= 1440000 /\ s <= 1440000
      /\ w <= h => q <= s
      /\ w > h => q >= s
      /\ z > 19200 /\ w <= h => s = 1440000 /\ q = G!Scaled(h, w)
      /\ z > 19200 /\ w > h => q = 1440000 /\ s = G!Scaled(w, h)
  <2>1. CASE z <= 19200
    BY <1>1, <1>3, <1>4, <2>1
  <2>2. CASE z > 19200 /\ w <= h
    BY <1>1, <1>2, <1>4, <2>2, ScaledInOrder
  <2>3. CASE z > 19200 /\ w > h
    <3>1. z = w /\ h <= w /\ q = G!Scaled(z, w) /\ s = G!Scaled(z, h)
      BY <1>1, <1>2, <1>4, <2>3
    <3> QED
      BY <1>1, <2>3, <3>1, ScaledInOrder
  <2> QED
    BY <1>1, <1>3, <2>1, <2>2, <2>3
<1>7. p[1] = (IF 100 <= q THEN q ELSE 100) /\ p[2] = IF 100 <= s THEN s ELSE 100
  BY <1>5, <1>6, MaxOfPair
<1>8. ASSUME w > 19200 \/ h > 19200, p[1] # 100, p[2] # 100, NEW e, e = p[1] * (h \div 100) - p[2] * (w \div 100)
      PROVE e \in Int /\ -1000 <= e /\ e <= 1000
  <2>1. p[1] = q /\ p[2] = s /\ q >= 100 /\ s >= 100 /\ z > 19200
    BY <1>1, <1>3, <1>6, <1>7, <1>8
  <2>2. w \div 100 \in Nat /\ h \div 100 \in Nat
    BY <1>1
  <2>3. CASE w > h
    <3>1. q = 1440000 /\ s = G!Scaled(w, h) /\ w > 19200
      BY <1>1, <1>2, <1>6, <2>1, <2>3
    <3>2. e = 1440000 * (h \div 100) - G!Scaled(w, h) * (w \div 100)
      BY <1>8, <2>1, <3>1
    <3> QED
      BY <1>1, <2>1, <2>3, <3>1, <3>2, ShapeIsKept
  <2>4. CASE w <= h
    <3>1. s = 1440000 /\ q = G!Scaled(h, w) /\ h > 19200
      BY <1>1, <1>2, <1>6, <2>1, <2>4
    <3>2. PICK k : k = 1440000 * (w \div 100) - G!Scaled(h, w) * (h \div 100)
      OBVIOUS
    <3>3. k \in Int /\ -1000 <= k /\ k <= 1000
      BY <1>1, <2>1, <2>4, <3>1, <3>2, ShapeIsKept
    <3>4. e = q * (h \div 100) - 1440000 * (w \div 100)
      BY <1>8, <2>1, <3>1
    <3>5. q * (h \div 100) \in Int
      BY <1>6, <2>2
    <3> QED
      BY <2>2, <3>1, <3>2, <3>3, <3>4, <3>5
  <2> QED
    BY <1>1, <2>3, <2>4
<1> QED
  BY <1>1, <1>6, <1>7, <1>8

LEMMA ImageIsTaken ==
  ASSUME NEW px, px = None \/ px \in Sides \X Sides, NEW fit, fit \in PresetNames \cup {"image"}
  PROVE Accepted([kind |-> "import", px |-> px, fit |-> fit, count |-> 1])
<1>1. PICK r : r = [kind |-> "import", px |-> px, fit |-> fit, count |-> 1]
  OBVIOUS
<1>2. r.kind = "import" /\ r.px = px /\ r.fit = fit /\ r.count = 1
  BY <1>1
<1>3. G!SchemaTakes(r)
  <2>1. px # None => px[1] \in 1..G!MaxPixels /\ px[2] \in 1..G!MaxPixels
    <3>1. G!MaxPixels \in Nat /\ 100000 <= G!MaxPixels
      BY DEF G!MaxPixels
    <3>2. \A n \in Sides : n \in 1..G!MaxPixels
      BY <3>1, SideIs
    <3> QED
      BY <3>2
  <2> QED
    BY <1>2, <2>1 DEF G!SchemaTakes
<1>4. PICK p : p = G!ImagePage(px, fit)
  OBVIOUS
<1>5. PICK e : e = p[1] * (px[2] \div 100) - p[2] * (px[1] \div 100)
  OBVIOUS
<1>6. /\ p[1] \in Nat /\ 100 <= p[1] /\ p[1] <= 1440000
      /\ p[2] \in Nat /\ 100 <= p[2] /\ p[2] <= 1440000
      /\ px # None /\ px[1] > px[2] => p[1] >= p[2]
      /\ px # None /\ px[1] <= px[2] => p[1] <= p[2]
      /\ fit = "image" /\ px # None /\ p[1] # 100 /\ p[2] # 100 /\ (px[1] > 19200 \/ px[2] > 19200)
           => e \in Int /\ -1000 <= e /\ e <= 1000
  <2>1. CASE fit = "image" /\ px # None
    <3>1. p = G!ImagePageSize(px)
      BY <1>4, <2>1 DEF G!ImagePage
    <3>2. px[1] \in Sides /\ px[2] \in Sides
      BY <2>1
    <3> QED
      BY <1>5, <3>1, <3>2, ImageSizeFits
  <2>2. CASE ~ (fit = "image" /\ px # None)
    <3>1. PICK s, o : /\ s = G!Presets[IF fit = "image" THEN "a4" ELSE fit]
                      /\ o = IF px # None /\ px[1] > px[2] THEN "landscape" ELSE "portrait"
      OBVIOUS
    <3>2. p = G!Orient(s, o)
      BY <1>4, <2>2, <3>1 DEF G!ImagePage
    <3>3. Fits(s[1]) /\ Fits(s[2])
      <4>1. (IF fit = "image" THEN "a4" ELSE fit) \in PresetNames
        BY DEF PresetNames
      <4> QED
        BY <3>1, <4>1, PresetFits
    <3>4. PICK Widths : Widths = {x \in Int : Fits(x)}
      OBVIOUS
    <3>5. Widths \in SUBSET Int /\ s[1] \in Widths /\ s[2] \in Widths
      BY <3>3, <3>4 DEF Fits
    <3>6. /\ p[1] \in Widths /\ p[2] \in Widths
          /\ o = "portrait" => p[1] <= p[2]
          /\ o # "portrait" => p[2] <= p[1]
      BY <3>2, <3>5, OrientFits
    <3>7. px # None => px[1] \in Int /\ px[2] \in Int
      BY SideIs
    <3> QED
      BY <2>2, <3>1, <3>4, <3>6, <3>7 DEF Fits
  <2> QED
    BY <2>1, <2>2
<1>7. G!ImageIsKept(r)
  <2>1. p[1] \in 100..G!MaxPage /\ p[2] \in 100..G!MaxPage
    <3>1. G!MaxPage \in Nat /\ 1440000 <= G!MaxPage
      BY DEF G!MaxPage
    <3> QED
      BY <1>6, <3>1
  <2>2. px # None => (G!Max({px[1], px[2]}) > 19200 => px[1] > 19200 \/ px[2] > 19200)
    <3>1. px # None => px[1] \in Int /\ px[2] \in Int
      BY SideIs
    <3> QED
      BY <3>1, MaxOfPair
  <2>3. fit = "image" /\ px # None /\ 100 \notin {p[1], p[2]} /\ G!Max({px[1], px[2]}) > 19200 => -1000 <= e /\ e <= 1000
    BY <1>6, <2>2
  <2> QED
    BY <1>2, <1>4, <1>5, <1>6, <2>1, <2>3 DEF G!ImageIsKept
<1> QED
  BY <1>1, <1>2, <1>3, <1>7 DEF Accepted

-----------------------------------------------------------------------------
\* The notebook form.

FormsInv ==
  /\ form \in FormRecords /\ sizes \in SUBSET FormSizes /\ known \in SUBSET FormSizes
  /\ saving \in {None} \cup [size : FormSizes, here : BOOLEAN]
  /\ \A r \in {sent} : r # None => Accepted(r)
  /\ made # None => sent # None /\ made = sent.count
  /\ part # "sizes" => saving = None /\ sent = None /\ made = None

LEMMA AcceptedFromInv == FormsInv => G!SentIsAccepted
<1> SUFFICES ASSUME FormsInv PROVE G!SentIsAccepted
  OBVIOUS
<1>1. made # None => made = sent.count
  BY DEF FormsInv
<1>2. made # None /\ sent.kind = "import" => G!ImageIsKept(sent)
  BY DEF FormsInv, Accepted
<1>3. \A s \in sizes : G!Min({s[1], s[2]}) >= 7200 * G!Exact /\ G!Max({s[1], s[2]}) <= G!MaxPage * G!Exact
  <2> SUFFICES ASSUME NEW s \in sizes
               PROVE G!Min({s[1], s[2]}) >= 7200 * G!Exact /\ G!Max({s[1], s[2]}) <= G!MaxPage * G!Exact
    OBVIOUS
  <2>1. FitsExactly(s[1]) /\ FitsExactly(s[2])
    BY DEF FormsInv, FormSizes
  <2>2. PICK w, h : w = s[1] /\ h = s[2]
    OBVIOUS
  <2>3. w \in Int /\ h \in Int /\ 1828800 <= w /\ w <= 365760000 /\ 1828800 <= h /\ h <= 365760000
    BY <2>1, <2>2 DEF FitsExactly
  <2>4. G!Min({w, h}) = (IF w <= h THEN w ELSE h) /\ G!Max({w, h}) = IF w <= h THEN h ELSE w
    BY <2>3, MinOfPair, MaxOfPair
  <2>5. 7200 * G!Exact = 1828800 /\ G!MaxPage * G!Exact = 365760000
    BY DEF G!Exact, G!MaxPage
  <2> QED
    BY <2>2, <2>3, <2>4, <2>5
<1> QED
  BY <1>1, <1>2, <1>3 DEF G!SentIsAccepted

LEMMA ShownIsNumber == ASSUME NEW n \in Nat PROVE G!Displayed(n) \in Number /\ F!Displayed(n) \in Number
<1>1. (n * 127 + 1800) \div 3600 \in Int
  OBVIOUS
<1> QED
  BY <1>1 DEF G!Displayed, F!Displayed, Number

LEMMA TemplateSet ==
  ASSUME NEW f \in FormRecords, NEW t \in TemplateNames
  PROVE G!WithTemplate(f, t) \in FormRecords /\ F!WithTemplate(f, t) \in FormRecords
<1>1. PICK s, m : s = G!Defaults[t][1] /\ m = G!Defaults[t][2]
  OBVIOUS
<1>2. s \in Nat /\ m \in Nat
  BY <1>1, DefaultFits
<1>3. F!Defaults = G!Defaults
  BY DEF F!Defaults, G!Defaults
<1>4. G!WithTemplate(f, t) = [f EXCEPT !.template = t, !.spacing = G!Displayed(s), !.margin = G!Displayed(m)]
  BY <1>1 DEF G!WithTemplate
<1>5. F!WithTemplate(f, t) = [f EXCEPT !.template = t, !.spacing = F!Displayed(s), !.margin = F!Displayed(m)]
  BY <1>1, <1>3 DEF F!WithTemplate
<1>6. \A p, q \in Number : [f EXCEPT !.template = t, !.spacing = p, !.margin = q] \in FormRecords
  BY DefaultFits DEF FormRecords
<1>7. G!Displayed(s) \in Number /\ G!Displayed(m) \in Number /\ F!Displayed(s) \in Number /\ F!Displayed(m) \in Number
  BY <1>2, ShownIsNumber
<1> QED
  BY <1>4, <1>5, <1>6, <1>7, Zenon

LEMMA DefaultFormFits == G!DefaultForm \in FormRecords /\ F!DefaultForm \in FormRecords
<1> DEFINE f == [size |-> "a4", pick |-> <<>>, width |-> 1000, height |-> 1500, unit |-> "mm", orientation |-> "portrait",
                 template |-> "blank", spacing |-> 0, margin |-> 0, count |-> 1]
<1>1. f \in FormRecords
  <2>1. "a4" \in DOMAIN G!Presets /\ "blank" \in DOMAIN G!Defaults
    BY PresetFits, DefaultFits DEF PresetNames, TemplateNames
  <2>2. "mm" \in DOMAIN G!Unit
    BY DEF G!Unit
  <2> QED
    BY <2>1, <2>2 DEF FormRecords, Number
<1>2. G!DefaultForm = G!WithTemplate(f, "ruledCollege")
  BY DEF G!DefaultForm
<1>3. F!DefaultForm = F!WithTemplate(f, "ruledCollege")
  BY DEF F!DefaultForm
<1>4. "ruledCollege" \in TemplateNames
  BY DEF TemplateNames
<1> HIDE DEF f
<1> QED
  BY <1>1, <1>2, <1>3, <1>4, TemplateSet

LEMMA FormSet == ASSUME NEW f \in FormRecords
                 PROVE /\ \A s \in DOMAIN G!Presets \cup {"custom"} : [f EXCEPT !.size = s, !.pick = <<>>] \in FormRecords
                       /\ \A o \in {"portrait", "landscape"} : [f EXCEPT !.orientation = o] \in FormRecords
                       /\ \A n \in Number : [f EXCEPT !.count = n] \in FormRecords
<1>1. \A s \in DOMAIN G!Presets \cup {"custom"} : [f EXCEPT !.size = s, !.pick = <<>>] \in FormRecords
  BY DEF FormRecords
<1>3. \A o \in {"portrait", "landscape"} : [f EXCEPT !.orientation = o] \in FormRecords
  BY DEF FormRecords
<1>6. \A n \in Number : [f EXCEPT !.count = n] \in FormRecords
  BY DEF FormRecords
<1> QED
  BY <1>1, <1>3, <1>6

LEMMA SavedSet == ASSUME NEW f \in FormRecords, NEW s \in FormSizes
                  PROVE [f EXCEPT !.size = "saved", !.pick = s] \in FormRecords
  BY DEF FormRecords

LEMMA TypedSet == ASSUME NEW f \in FormRecords, NEW w \in Number, NEW h \in Number, NEW u \in DOMAIN G!Unit
                  PROVE [f EXCEPT !.width = w, !.height = h, !.unit = u] \in FormRecords
  BY DEF FormRecords

LEMMA LinesSet == ASSUME NEW f \in FormRecords, NEW s \in Number, NEW m \in Number
                  PROVE [f EXCEPT !.spacing = s, !.margin = m] \in FormRecords
  BY DEF FormRecords

LEMMA FormsStart == MCInit => FormsInv
<1> SUFFICES ASSUME MCInit PROVE FormsInv
  OBVIOUS
<1>1. /\ form = F!DefaultForm /\ sizes \in {{}, {<<7200 * F!Exact, F!MaxPage * F!Exact>>}} /\ known = sizes
      /\ saving = None /\ sent = None /\ made = None
  BY DEF MCInit, F!Init
<1>2. 7200 * F!Exact = 1828800 /\ F!MaxPage * F!Exact = 365760000
  BY DEF F!Exact, F!MaxPage
<1>3. <<1828800, 365760000>> \in FormSizes
  BY DEF FormSizes, FitsExactly
<1> QED
  BY <1>1, <1>2, <1>3, DefaultFormFits DEF FormsInv

LEMMA FormChanges == ASSUME FormsInv, form' \in FormRecords, UNCHANGED <<part, sizes, known, saving, sent, made>>
                     PROVE FormsInv'
  BY DEF FormsInv

LEMMA SavingDone ==
  ASSUME FormsInv, part = "sizes", UNCHANGED <<part, sent, made>>, form' \in FormRecords, sizes' \in SUBSET FormSizes, known' \in SUBSET FormSizes,
         saving' \in {None} \cup [size : FormSizes, here : BOOLEAN]
  PROVE FormsInv'
  BY DEF FormsInv

LEMMA SentNow ==
  ASSUME FormsInv, part = "sizes", UNCHANGED <<part, form, sizes, known, saving, made>>, sent = None, Accepted(sent')
  PROVE FormsInv'
  BY DEF FormsInv

\* A step of the form that changes what is in it.
Filled == /\ UNCHANGED <<part, sizes, known, saving, sent, made>>
          /\ \/ \E s \in DOMAIN G!Presets \cup {"custom"} : form' = [form EXCEPT !.size = s, !.pick = <<>>]
             \/ \E s \in known : form' = [form EXCEPT !.size = "saved", !.pick = s]
             \/ \E o \in {"portrait", "landscape"} : form' = [form EXCEPT !.orientation = o]
             \/ \E w, h \in Number, u \in DOMAIN G!Unit : form' = [form EXCEPT !.width = w, !.height = h, !.unit = u]
             \/ \E t \in TemplateNames : form' = G!WithTemplate(form, t) \/ form' = F!WithTemplate(form, t)
             \/ \E s, m \in Number : form' = [form EXCEPT !.spacing = s, !.margin = m]
             \/ \E n \in Number : form' = [form EXCEPT !.count = n]

LEMMA FormFilled == ASSUME FormsInv, Filled PROVE FormsInv'
<1>1. form \in FormRecords /\ known \in SUBSET FormSizes
  BY DEF FormsInv
<1>2. form' \in FormRecords
  <2>1. CASE \E s \in DOMAIN G!Presets \cup {"custom"} : form' = [form EXCEPT !.size = s, !.pick = <<>>]
    BY <1>1, <2>1, FormSet, Zenon
  <2>2. CASE \E s \in known : form' = [form EXCEPT !.size = "saved", !.pick = s]
    <3>1. PICK s \in known : form' = [form EXCEPT !.size = "saved", !.pick = s]
      BY <2>2
    <3>2. s \in FormSizes
      BY <1>1
    <3> QED
      BY <1>1, <3>1, <3>2, SavedSet, Zenon
  <2>3. CASE \E o \in {"portrait", "landscape"} : form' = [form EXCEPT !.orientation = o]
    BY <1>1, <2>3, FormSet, Zenon
  <2>4. CASE \E w, h \in Number, u \in DOMAIN G!Unit : form' = [form EXCEPT !.width = w, !.height = h, !.unit = u]
    <3>1. PICK w \in Number, h \in Number, u \in DOMAIN G!Unit : form' = [form EXCEPT !.width = w, !.height = h, !.unit = u]
      BY <2>4, Zenon
    <3> QED
      BY <1>1, <3>1, TypedSet, Zenon
  <2>5. CASE \E t \in TemplateNames : form' = G!WithTemplate(form, t) \/ form' = F!WithTemplate(form, t)
    BY <1>1, <2>5, TemplateSet
  <2>6. CASE \E s, m \in Number : form' = [form EXCEPT !.spacing = s, !.margin = m]
    <3>1. PICK s \in Number, m \in Number : form' = [form EXCEPT !.spacing = s, !.margin = m]
      BY <2>6, Zenon
    <3> QED
      BY <1>1, <3>1, LinesSet, Zenon
  <2>7. CASE \E n \in Number : form' = [form EXCEPT !.count = n]
    BY <1>1, <2>7, FormSet, Zenon
  <2> QED
    BY <2>1, <2>2, <2>3, <2>4, <2>5, <2>6, <2>7, Zenon DEF Filled
<1>3. UNCHANGED <<part, sizes, known, saving, sent, made>>
  BY DEF Filled
<1> QED
  BY <1>2, <1>3, FormChanges

LEMMA SizeNamed == ASSUME UNCHANGED part, NEW s \in DOMAIN G!Presets \cup {"custom"}, G!ChooseSize(s) PROVE Filled
  BY DEF G!ChooseSize, G!Set, Filled

LEMMA SavedNamed == ASSUME UNCHANGED part, NEW s, G!ChooseSaved(s) PROVE Filled
  BY DEF G!ChooseSaved, G!Set, Filled

LEMMA Turned == ASSUME UNCHANGED part, NEW o \in {"portrait", "landscape"}, G!ChooseOrientation(o) PROVE Filled
  BY DEF G!ChooseOrientation, G!Set, Filled

LEMMA SizeTyped == ASSUME UNCHANGED part, NEW w \in Number, NEW h \in Number, NEW u \in DOMAIN G!Unit, G!TypeSize(w, h, u)
                   PROVE Filled
  BY DEF G!TypeSize, G!Set, Filled

LEMMA PaperChosen == ASSUME UNCHANGED part, NEW t \in TemplateNames, G!ChooseTemplate(t) PROVE Filled
  BY DEF G!ChooseTemplate, G!Set, Filled

LEMMA LinesTyped == ASSUME UNCHANGED part, NEW s \in Number, NEW m \in Number, G!TypeLines(s, m) PROVE Filled
  BY DEF G!TypeLines, G!Set, Filled

LEMMA CountTyped == ASSUME UNCHANGED part, NEW n \in Number, G!TypeCount(n) PROVE Filled
  BY DEF G!TypeCount, G!Set, Filled

LEMMA FormLeft == ASSUME FormsInv, part = "sizes", UNCHANGED part, G!Leave PROVE FormsInv'
<1>1. /\ form' = G!DefaultForm /\ saving' = IF saving = None THEN None ELSE [saving EXCEPT !.here = FALSE]
      /\ UNCHANGED <<sizes, known, sent, made>>
  BY DEF G!Leave
<1>2. saving \in {None} \cup [size : FormSizes, here : BOOLEAN]
  BY DEF FormsInv
<1>3. saving' \in {None} \cup [size : FormSizes, here : BOOLEAN]
  BY <1>1, <1>2
<1>4. sizes' \in SUBSET FormSizes /\ known' \in SUBSET FormSizes
  BY <1>1 DEF FormsInv
<1> QED
  BY <1>1, <1>3, <1>4, DefaultFormFits, SavingDone

LEMMA ResultFits == ASSUME FormsInv, G!Result.ok
                    PROVE /\ Accepted(G!Result)
                          /\ form.size = "custom" => <<G!ToPoints(form.width, form.unit), G!ToPoints(form.height, form.unit)>> \in FormSizes
<1>1. form \in FormRecords /\ known \in SUBSET FormSizes
  BY DEF FormsInv
<1>2. PICK v : v = G!NotebookSpec(form, known)
  OBVIOUS
<1>3. G!Result = v
  BY <1>2 DEF G!Result
<1> QED
  BY <1>1, <1>2, <1>3, NotebookIsTaken

LEMMA SizeIsSaving == ASSUME FormsInv, part = "sizes", UNCHANGED part, G!SaveSize PROVE FormsInv'
<1>1. PICK s : s = <<G!ToPoints(form.width, form.unit), G!ToPoints(form.height, form.unit)>>
  OBVIOUS
<1>2. form.size = "custom" /\ G!Result.ok /\ saving' = [size |-> s, here |-> TRUE] /\ UNCHANGED <<form, sizes, known, sent, made>>
  BY <1>1 DEF G!SaveSize
<1>3. s \in FormSizes
  BY <1>1, <1>2, ResultFits
<1>4. form' \in FormRecords /\ sizes' \in SUBSET FormSizes /\ known' \in SUBSET FormSizes
  BY <1>2 DEF FormsInv
<1>5. saving' \in {None} \cup [size : FormSizes, here : BOOLEAN]
  BY <1>2, <1>3
<1> QED
  BY <1>2, <1>4, <1>5, SavingDone

LEMMA SizeIsSaved == ASSUME FormsInv, part = "sizes", UNCHANGED part, G!SizeSaved PROVE FormsInv'
<1>1. saving # None /\ saving' = None /\ UNCHANGED <<sent, made>>
  BY DEF G!SizeSaved
<1>2. form \in FormRecords /\ sizes \in SUBSET FormSizes /\ known \in SUBSET FormSizes /\ saving.size \in FormSizes
  BY <1>1 DEF FormsInv
<1>3. \/ UNCHANGED <<form, sizes, known>>
      \/ sizes' = sizes \cup {saving.size} /\ UNCHANGED <<form, known>>
      \/ /\ sizes' = sizes \cup {saving.size} /\ known' \in {known, sizes'}
         /\ form' = form \/ form' = [form EXCEPT !.size = "saved", !.pick = saving.size]
  BY Zenon DEF G!SizeSaved
<1>4. sizes' \in SUBSET FormSizes /\ known' \in SUBSET FormSizes
  BY <1>2, <1>3
<1>5. form' \in FormRecords
  <2>1. [form EXCEPT !.size = "saved", !.pick = saving.size] \in FormRecords
    BY <1>2, SavedSet, Zenon
  <2> QED
    BY <1>2, <1>3, <2>1, Zenon
<1> QED
  BY <1>1, <1>4, <1>5, SavingDone

LEMMA ReadElsewhere == ASSUME FormsInv, part = "sizes", UNCHANGED part, G!Elsewhere PROVE FormsInv'
<1>1. UNCHANGED <<form, saving, sent, made>> /\ (\A s \in sizes' : s \in sizes) /\ (known' = known \/ known' = sizes)
  BY DEF G!Elsewhere
<1>2. /\ form' \in FormRecords /\ sizes' \in SUBSET FormSizes /\ known' \in SUBSET FormSizes
      /\ saving' \in {None} \cup [size : FormSizes, here : BOOLEAN]
  BY <1>1 DEF FormsInv
<1> QED
  BY <1>1, <1>2, SavingDone

LEMMA FormSubmitted == ASSUME FormsInv, part = "sizes", UNCHANGED part, G!Submit PROVE FormsInv'
<1>1. sent = None /\ G!Result.ok /\ sent' = G!Result /\ UNCHANGED <<form, sizes, known, saving, made>>
  BY DEF G!Submit
<1>2. Accepted(sent')
  BY <1>1, ResultFits
<1> QED
  BY <1>1, <1>2, SentNow

LEMMA CanvasSubmitted == ASSUME FormsInv, part = "sizes", UNCHANGED part, NEW n \in Number, G!SubmitCanvas(n)
                         PROVE FormsInv'
<1>1. PICK s : s = G!ToPoints(n, "mm")
  OBVIOUS
<1>2. /\ sent = None /\ n # None /\ s \in 200 * G!Exact .. 40000 * G!Exact
      /\ sent' = [kind |-> "canvas", spacing |-> s, count |-> 1] /\ UNCHANGED <<form, sizes, known, saving, made>>
  BY <1>1 DEF G!SubmitCanvas, G!OtherTab
<1>3. s \in Int
  <2>1. n \in Int /\ G!Unit["mm"] = 7200
    BY <1>2 DEF Number, G!Unit
  <2> QED
    BY <1>1, <2>1 DEF G!ToPoints
<1>4. Accepted(sent')
  BY <1>2, <1>3, CanvasIsTaken
<1> QED
  BY <1>2, <1>4, SentNow

LEMMA ImageSubmitted == ASSUME FormsInv, part = "sizes", UNCHANGED part, NEW px \in Images, NEW fit \in PresetNames \cup {"image"},
                               G!SubmitImage(px, fit)
                        PROVE FormsInv'
<1>1. /\ sent = None /\ sent' = [kind |-> "import", px |-> px, fit |-> fit, count |-> 1]
      /\ UNCHANGED <<form, sizes, known, saving, made>>
  BY DEF G!SubmitImage, G!OtherTab
<1>2. px = None \/ px \in Sides \X Sides
  BY FormAssumption
<1>3. Accepted(sent')
  BY <1>1, <1>2, ImageIsTaken
<1> QED
  BY <1>1, <1>3, SentNow

LEMMA SystemUsed == ASSUME FormsInv, part = "sizes", UNCHANGED part, NEW t \in G!SystemTemplates, G!UseSystem(t)
                    PROVE FormsInv'
<1>1. sent = None /\ sent' = G!PaperPageSpec(t) /\ UNCHANGED <<form, sizes, known, saving, made>>
  BY DEF G!UseSystem, G!OtherTab
<1>2. Accepted(sent')
  BY <1>1, SystemIsTaken
<1> QED
  BY <1>1, <1>2, SentNow

LEMMA FormCreates == ASSUME FormsInv, part = "sizes", UNCHANGED part, G!Create PROVE FormsInv'
<1>1. sent # None /\ made' = (IF G!SchemaTakes(sent) THEN sent.count ELSE 0) /\ UNCHANGED <<form, sizes, known, saving, sent>>
  BY DEF G!Create
<1>2. G!SchemaTakes(sent)
  BY <1>1 DEF FormsInv, Accepted
<1>3. made' = sent.count
  BY <1>1, <1>2
<1> QED
  BY <1>1, <1>3 DEF FormsInv

LEMMA FormFails == ASSUME FormsInv, part = "sizes", UNCHANGED part, G!Fail PROVE FormsInv'
<1>1. made = None /\ sent' = None /\ UNCHANGED <<form, sizes, known, saving, made>>
  BY DEF G!Fail
<1> QED
  BY <1>1 DEF FormsInv

\* On paper, only the form changes.
LEMMA PaperSubsets == G!PaperTemplates \subseteq TemplateNames
  BY DEF G!PaperTemplates, TemplateNames

LEMMA PaperKept ==
  ASSUME FormsInv, part = "paper", UNCHANGED <<part, made>>, DrawnOnly,
         form' = form \/ form' = F!DefaultForm, known' = known \/ known' = sizes
  PROVE FormsInv'
<1>1. sent = None /\ saving = None /\ sent' = None /\ saving' = None /\ sizes' = sizes /\ made = None
  BY DEF FormsInv, DrawnOnly
<1>2. form' \in FormRecords /\ sizes' \in SUBSET FormSizes /\ known' \in SUBSET FormSizes
  BY <1>1, DefaultFormFits DEF FormsInv
<1> QED
  BY <1>1, <1>2 DEF FormsInv

LEMMA PaperTyped == ASSUME UNCHANGED part, NEW w \in Number, NEW h \in Number, NEW u \in DOMAIN G!Unit, F!TypeSize(w, h, u)
                    PROVE Filled
  BY DEF F!TypeSize, F!Set, Filled

LEMMA PaperLined == ASSUME UNCHANGED part, NEW s \in Number, NEW m \in Number, F!TypeLines(s, m) PROVE Filled
  BY DEF F!TypeLines, F!Set, Filled

LEMMA PaperStep == ASSUME FormsInv, part = "paper", UNCHANGED part, F!Next, DrawnOnly PROVE FormsInv'
<1>1. sent = None /\ saving = None /\ made = None
  BY DEF FormsInv
<1>2. ASSUME NEW s \in {"a6", "indexCard", "custom"}, F!ChooseSize(s) PROVE FormsInv'
  <2>1. s \in DOMAIN G!Presets \cup {"custom"}
    BY PresetFits DEF PresetNames
  <2>2. Filled
    BY <1>2, <2>1 DEF F!ChooseSize, F!Set, Filled
  <2> QED
    BY <2>2, FormFilled
<1>3. ASSUME NEW s \in known, F!ChooseSaved(s) PROVE FormsInv'
  <2>1. Filled
    BY <1>3 DEF F!ChooseSaved, F!Set, Filled
  <2> QED
    BY <2>1, FormFilled
<1>4. ASSUME NEW o \in {"portrait", "landscape"}, F!ChooseOrientation(o) PROVE FormsInv'
  <2>1. Filled
    BY <1>4 DEF F!ChooseOrientation, F!Set, Filled
  <2> QED
    BY <2>1, FormFilled
<1>5. ASSUME NEW w \in {254, 1000}, NEW h \in {254, 1000}, NEW u \in {"mm"}, F!TypeSize(w, h, u) PROVE FormsInv'
  <2>1. w \in Number /\ h \in Number /\ u \in DOMAIN G!Unit
    BY DEF Number, G!Unit
  <2> QED
    BY <1>5, <2>1, PaperTyped, FormFilled
<1>6. ASSUME NEW t \in G!PaperTemplates, F!ChooseTemplate(t) PROVE FormsInv'
  <2>1. Filled
    BY <1>6, PaperSubsets DEF F!ChooseTemplate, F!Set, Filled
  <2> QED
    BY <2>1, FormFilled
<1>7. ASSUME NEW s \in {7, 30, 84}, NEW m \in {7, 30, 84}, F!TypeLines(s, m) PROVE FormsInv'
  <2>1. s \in Number /\ m \in Number
    BY DEF Number
  <2> QED
    BY <1>7, <2>1, PaperLined, FormFilled
<1>8. ASSUME NEW n \in {1}, F!TypeCount(n) PROVE FormsInv'
  <2>1. n \in Number
    BY DEF Number
  <2>2. Filled
    BY <1>8, <2>1 DEF F!TypeCount, F!Set, Filled
  <2> QED
    BY <2>2, FormFilled
<1>9. ASSUME NEW s, F!SubmitCanvas(s) PROVE FormsInv'
  BY <1>9, PaperKept DEF F!SubmitCanvas
<1>10. ASSUME NEW px, NEW fit, F!SubmitImage(px, fit) PROVE FormsInv'
  BY <1>10, PaperKept DEF F!SubmitImage
<1>11. ASSUME NEW t, F!UseSystem(t) PROVE FormsInv'
  BY <1>11, PaperKept DEF F!UseSystem
<1>12. ASSUME F!SaveSize \/ F!Submit PROVE FormsInv'
  BY <1>12, PaperKept DEF F!SaveSize, F!Submit
<1>13. ASSUME F!Leave PROVE FormsInv'
  BY <1>13, PaperKept DEF F!Leave
<1>14. ASSUME F!Elsewhere PROVE FormsInv'
  BY <1>14, PaperKept DEF F!Elsewhere
<1>15. ~ F!SizeSaved /\ ~ F!Create /\ ~ F!Fail
  BY <1>1 DEF F!SizeSaved, F!Create, F!Fail
<1> QED
  BY <1>2, <1>3, <1>4, <1>5, <1>6, <1>7, <1>8, <1>9, <1>10, <1>11, <1>12, <1>13, <1>14, <1>15 DEF F!Next

LEMMA SizesStep == ASSUME FormsInv, part = "sizes", UNCHANGED part, G!Next PROVE FormsInv'
<1>1. ASSUME NEW s \in PageSizes, G!ChooseSize(s) PROVE FormsInv'
  <2>1. s \in DOMAIN G!Presets \cup {"custom"}
    BY FormAssumption
  <2> QED
    BY <1>1, <2>1, SizeNamed, FormFilled
<1>2. ASSUME NEW s \in known, G!ChooseSaved(s) PROVE FormsInv'
  BY <1>2, SavedNamed, FormFilled
<1>3. ASSUME NEW o \in Orientations, G!ChooseOrientation(o) PROVE FormsInv'
  <2>1. o \in {"portrait", "landscape"}
    BY FormAssumption
  <2> QED
    BY <1>3, <2>1, Turned, FormFilled
<1>4. ASSUME NEW w \in Typed, NEW h \in Typed, NEW u \in Units, G!TypeSize(w, h, u) PROVE FormsInv'
  <2>1. w \in Number /\ h \in Number /\ u \in DOMAIN G!Unit
    BY FormAssumption DEF Number
  <2> QED
    BY <1>4, <2>1, SizeTyped, FormFilled
<1>5. ASSUME NEW t \in Papered, G!ChooseTemplate(t) PROVE FormsInv'
  <2>1. t \in TemplateNames
    BY FormAssumption, DefaultFits
  <2> QED
    BY <1>5, <2>1, PaperChosen, FormFilled
<1>6. ASSUME NEW s \in Lines, NEW m \in Lines, G!TypeLines(s, m) PROVE FormsInv'
  <2>1. s \in Number /\ m \in Number
    BY FormAssumption DEF Number
  <2> QED
    BY <1>6, <2>1, LinesTyped, FormFilled
<1>7. ASSUME NEW n \in Counts, G!TypeCount(n) PROVE FormsInv'
  <2>1. n \in Number
    BY FormAssumption DEF Number
  <2> QED
    BY <1>7, <2>1, CountTyped, FormFilled
<1>8. ASSUME NEW s \in Lines, G!SubmitCanvas(s) PROVE FormsInv'
  <2>1. s \in Number
    BY FormAssumption DEF Number
  <2> QED
    BY <1>8, <2>1, CanvasSubmitted
<1>9. ASSUME NEW px \in Images, NEW fit \in (PageSizes \cap DOMAIN G!Presets) \cup {"image"}, G!SubmitImage(px, fit)
      PROVE FormsInv'
  <2>1. fit \in PresetNames \cup {"image"}
    BY PresetFits
  <2> QED
    BY <1>9, <2>1, ImageSubmitted
<1>10. ASSUME NEW t \in G!SystemTemplates, G!UseSystem(t) PROVE FormsInv'
  BY <1>10, SystemUsed
<1>11. CASE G!Leave \/ G!SaveSize \/ G!SizeSaved \/ G!Elsewhere \/ G!Submit \/ G!Create \/ G!Fail
  BY <1>11, FormLeft, SizeIsSaving, SizeIsSaved, ReadElsewhere, FormSubmitted, FormCreates, FormFails
<1> QED
  BY <1>1, <1>2, <1>3, <1>4, <1>5, <1>6, <1>7, <1>8, <1>9, <1>10, <1>11, Zenon DEF G!Next

LEMMA FormsStep == ASSUME FormsInv, [MCNext]_allVars PROVE FormsInv'
<1>1. CASE part = "paper" /\ UNCHANGED part /\ F!Next /\ DrawnOnly
  BY <1>1, PaperStep
<1>2. CASE part = "sizes" /\ UNCHANGED part /\ G!Next
  BY <1>2, SizesStep
<1>3. CASE UNCHANGED <<part, form, sizes, known, saving, sent, made>>
  BY <1>3 DEF FormsInv
<1>4. \/ part = "paper" /\ UNCHANGED part /\ F!Next /\ DrawnOnly
      \/ part = "sizes" /\ UNCHANGED part /\ G!Next
      \/ UNCHANGED <<part, formVars>>
  BY Zenon DEF MCNext, allVars
<1> QED
  BY <1>1, <1>2, <1>3, <1>4 DEF formVars

LEMMA FormsAlways == MCSpec => []FormsInv
  BY FormsStart, FormsStep, PTL DEF MCSpec

LEMMA FormsTypesFit == FormsInv => (part = "sizes" => G!TypeOK) /\ (part = "paper" => F!TypeOK)
<1> SUFFICES ASSUME FormsInv PROVE G!TypeOK /\ F!TypeOK
  OBVIOUS
<1>1. /\ form.size \in DOMAIN G!Presets \cup {"custom", "saved"}
      /\ form.orientation \in {"portrait", "landscape"} /\ form.template \in DOMAIN G!Defaults
  BY DEF FormsInv, FormRecords
<1>2. known \subseteq Nat \X Nat /\ sizes \subseteq Nat \X Nat
  BY DEF FormsInv, FormSizes
<1>3. saving # None => saving.here \in BOOLEAN /\ saving.size \in Nat \X Nat
  BY DEF FormsInv, FormSizes
<1>4. made \in 0..500 \cup {None} /\ (made # None => sent # None)
  BY DEF FormsInv, Accepted
<1>5. DOMAIN F!Presets = DOMAIN G!Presets /\ DOMAIN F!Defaults = DOMAIN G!Defaults
  <2>1. DOMAIN F!Presets = PresetNames
    BY DEF F!Presets, PresetNames
  <2>2. DOMAIN F!Defaults = TemplateNames
    BY DEF F!Defaults, TemplateNames
  <2> QED
    BY <2>1, <2>2, PresetFits, DefaultFits
<1>6. G!TypeOK
  BY <1>1, <1>2, <1>3, <1>4 DEF G!TypeOK
<1> QED
  BY <1>1, <1>2, <1>3, <1>4, <1>5, <1>6 DEF F!TypeOK

-----------------------------------------------------------------------------
\* Division and steps, which the templates are drawn by.

\* Division rounds down.
LEMMA DividedDown == ASSUME NEW x \in Int, NEW y \in Nat \ {0}
                     PROVE x \div y \in Int /\ y * (x \div y) \in Int /\ y * (x \div y) <= x /\ x < y * (x \div y) + y
  OBVIOUS

\* Steps stay between their start and their end.
LEMMA StepsWithin ==
  ASSUME NEW x \in Int, NEW e \in Int, NEW s \in Nat \ {0}, NEW v \in G!Steps(x, s, e)
  PROVE v \in x .. e
<1>1. PICK q : q = (e - x) \div s
  OBVIOUS
<1>2. q \in Int /\ s * q \in Int /\ s * q <= e - x
  BY <1>1, DividedDown
<1>3. PICK k \in 0 .. G!Max({-1, q}) : v = x + k * s
  BY <1>1 DEF G!Steps
<1>4. k \in Nat /\ k <= q
  BY <1>2, <1>3, MaxOfPair
<1>5. PICK n \in Nat : q = k + n
  <2>1. q - k \in Nat /\ q = k + (q - k)
    BY <1>2, <1>4
  <2> QED
    BY <2>1
<1>6. k * s \in Nat /\ s * n \in Nat /\ s * q = k * s + s * n
  BY <1>4, <1>5
<1> QED
  BY <1>2, <1>3, <1>6

\* So do centred steps; the first and the last of them are the outermost.
Centred(v, x, e, s, q) ==
  /\ v \subseteq x .. e
  /\ v # {} => G!Min(v) \in v /\ G!Max(v) \in v
  /\ v # {} => \A n \in Nat : n <= q => G!Min(v) + s * n \in x .. e
  /\ q \in Int /\ \E d \in Int : v = {d + i * s : i \in 0 .. q}

\* Centred steps are their first one and every spacing after it, as far as they fit.
LEMMA CentredAre ==
  ASSUME NEW x \in Int, NEW e \in Int, NEW s \in Nat \ {0}, NEW v, v = G!CentredSteps(x, e, s)
  PROVE \E q : q = (e - x) \div s /\ Centred(v, x, e, s, q)
<1>1. PICK q : q = (e - x) \div s
  OBVIOUS
<1>2. q \in Int /\ s * q \in Int /\ s * q <= e - x /\ e - x < s * q + s
  BY <1>1, DividedDown
<1>3. PICK half : half = (e - x - q * s) \div 2
  OBVIOUS
<1>4. half \in Nat /\ 2 * half <= e - x - s * q
  BY <1>2, <1>3
<1>5. v = {x + half + i * s : i \in 0 .. q}
  BY <1>1, <1>3 DEF G!CentredSteps
<1>6. ASSUME NEW i \in 0 .. q PROVE x + half + i * s \in x .. e /\ i * s \in Nat /\ i * s <= s * q
  <2>1. PICK n \in Nat : q = i + n
    <3>1. q - i \in Nat /\ q = i + (q - i)
      BY <1>2
    <3> QED
      BY <3>1
  <2>2. i \in Nat /\ i * s \in Nat /\ s * n \in Nat /\ s * q = i * s + s * n
    BY <2>1
  <2> QED
    BY <1>2, <1>4, <2>2
<1>7. v \subseteq x .. e
  BY <1>5, <1>6
<1>8. ASSUME v # {} PROVE G!Min(v) = x + half /\ G!Min(v) \in v /\ G!Max(v) \in v
  <2>1. q \in Nat
    BY <1>2, <1>5, <1>8
  <2>2. 0 \in 0 .. q /\ q \in 0 .. q /\ x + half + 0 * s = x + half
    BY <1>2, <1>4, <2>1
  <2>3. x + half \in v /\ x + half + q * s \in v
    BY <1>5, <2>2
  <2>4. \A z \in v : z \in Int /\ x + half <= z /\ z <= x + half + q * s
    BY <1>2, <1>4, <1>5, <1>6
  <2>5. \A z \in v : (\A y \in v : z <= y) => z = x + half
    BY <1>4, <2>3, <2>4
  <2>6. \E z \in v : \A y \in v : z <= y
    BY <2>3, <2>4
  <2>7. \E z \in v : \A y \in v : z >= y
    BY <1>2, <1>4, <2>3, <2>4
  <2>8. G!Min(v) \in v /\ \A y \in v : G!Min(v) <= y
    BY <2>6, Zenon DEF G!Min
  <2>9. G!Max(v) \in v
    BY <2>7, Zenon DEF G!Max
  <2> QED
    BY <2>5, <2>8, <2>9
<1>9. ASSUME v # {}, NEW n \in Nat, n <= q PROVE G!Min(v) + s * n \in x .. e
  <2>1. n \in 0 .. q /\ n * s = s * n
    BY <1>2, <1>9
  <2> QED
    BY <1>6, <1>8, <1>9, <2>1
<1>10. x + half \in Int
  BY <1>4
<1> QED
  BY <1>1, <1>2, <1>5, <1>7, <1>8, <1>9, <1>10 DEF Centred

LEMMA CentredWithin ==
  ASSUME NEW x \in Int, NEW e \in Int, NEW s \in Nat \ {0}, NEW v, v = G!CentredSteps(x, e, s)
  PROVE v \subseteq x .. e /\ (v # {} => G!Min(v) \in v /\ G!Max(v) \in v)
  BY CentredAre DEF Centred

\* The ends of centred steps, or the default where there is none, are within the page.
LEMMA EndsWithin ==
  ASSUME NEW hi \in Nat, NEW x \in 0 .. hi, NEW e \in 0 .. hi, NEW s \in Nat \ {0},
         NEW v, v = G!CentredSteps(x, e, s), NEW d \in 0 .. hi
  PROVE G!Earliest(v, d) \in 0 .. hi /\ G!Latest(v, d) \in 0 .. hi
<1>1. CASE v = {}
  BY <1>1 DEF G!Earliest, G!Latest
<1>2. CASE v # {}
  <2>1. G!Min(v) \in x .. e /\ G!Max(v) \in x .. e
    BY <1>2, CentredWithin
  <2>2. G!Earliest(v, d) = G!Min(v) /\ G!Latest(v, d) = G!Max(v)
    BY <1>2 DEF G!Earliest, G!Latest
  <2> QED
    BY <2>1, <2>2
<1> QED
  BY <1>1, <1>2

-----------------------------------------------------------------------------
\* What is clipped to a box is within the box.

\* Marks between the sides of a box.
Sheet(l, t, r, n) == (l .. r) \X (t .. n) \X (l .. r) \X (t .. n)

\* A box within a box has only marks of it.
LEMMA SheetWithin ==
  ASSUME NEW l \in Int, NEW t \in Int, NEW r \in Int, NEW n \in Int,
         NEW l2 \in Int, NEW t2 \in Int, NEW r2 \in Int, NEW n2 \in Int, l2 <= l, t2 <= t, r <= r2, n <= n2
  PROVE Sheet(l, t, r, n) \subseteq Sheet(l2, t2, r2, n2)
  BY DEF Sheet

\* Numbers whose parts each have a largest and a smallest one.
Bounded(X) == /\ X \subseteq Int
              /\ \A Z \in SUBSET X : Z # {} => (\E m \in Z : \A y \in Z : m >= y) /\ (\E m \in Z : \A y \in Z : m <= y)

LEMMA NoneBounded == Bounded({})
  BY DEF Bounded

\* A finite set of integers has its ends: added one by one, and of five at most.
LEMMA BoundedWithOne == ASSUME NEW X, Bounded(X), NEW x \in Int PROVE Bounded(X \cup {x})
<1>1. ASSUME NEW Z \in SUBSET (X \cup {x}), Z # {}
      PROVE (\E m \in Z : \A y \in Z : m >= y) /\ (\E m \in Z : \A y \in Z : m <= y)
  <2>1. PICK V : V = Z \ {x}
    OBVIOUS
  <2>2. V \in SUBSET X /\ X \subseteq Int
    BY <2>1 DEF Bounded
  <2>3. CASE V = {}
    <3>1. Z = {x}
      BY <1>1, <2>1, <2>3
    <3> QED
      BY <3>1
  <2>4. CASE x \notin Z
    <3>1. Z = V
      BY <2>1, <2>4
    <3> QED
      BY <1>1, <2>2, <3>1 DEF Bounded
  <2>5. CASE V # {} /\ x \in Z
    <3>1. Z = V \cup {x}
      BY <2>1, <2>5
    <3>2. PICK m \in V : \A y \in V : m >= y
      BY <2>2, <2>5 DEF Bounded
    <3>3. PICK k \in V : \A y \in V : k <= y
      BY <2>2, <2>5 DEF Bounded
    <3>4. \E z \in Z : \A y \in Z : z >= y
      <4>1. CASE m >= x
        BY <2>2, <3>1, <3>2, <4>1
      <4>2. CASE x >= m
        BY <2>2, <3>1, <3>2, <4>2
      <4> QED
        BY <2>2, <4>1, <4>2
    <3>5. \E z \in Z : \A y \in Z : z <= y
      <4>1. CASE k <= x
        BY <2>2, <3>1, <3>3, <4>1
      <4>2. CASE x <= k
        BY <2>2, <3>1, <3>3, <4>2
      <4> QED
        BY <2>2, <4>1, <4>2
    <3> QED
      BY <3>4, <3>5
  <2> QED
    BY <2>3, <2>4, <2>5
<1> QED
  BY <1>1 DEF Bounded

LEMMA PartBounded == ASSUME NEW X, Bounded(X), NEW Z \in SUBSET X PROVE Bounded(Z)
  BY DEF Bounded

OneOf(X, v, w, x, y, z) == \A u \in X : u = v \/ u = w \/ u = x \/ u = y \/ u = z

LEMMA FiveBounded == ASSUME NEW v \in Int, NEW w \in Int, NEW x \in Int, NEW y \in Int, NEW z \in Int,
                            NEW X, OneOf(X, v, w, x, y, z)
                     PROVE Bounded(X)
<1>1. PICK X1, X2, X3, X4, X5 : /\ X1 = {} \cup {v} /\ X2 = X1 \cup {w} /\ X3 = X2 \cup {x}
                                /\ X4 = X3 \cup {y} /\ X5 = X4 \cup {z}
  OBVIOUS
<1>2. Bounded(X1) /\ (Bounded(X1) => Bounded(X2)) /\ (Bounded(X2) => Bounded(X3))
  BY <1>1, NoneBounded, BoundedWithOne
<1>3. (Bounded(X3) => Bounded(X4)) /\ (Bounded(X4) => Bounded(X5))
  BY <1>1, BoundedWithOne
<1>4. X \in SUBSET X5
  BY <1>1 DEF OneOf
<1> QED
  BY <1>2, <1>3, <1>4, PartBounded

\* What Max and Min of a nonempty part of such a set are.
LEMMA OutermostIs == ASSUME NEW X, Bounded(X), NEW Z \in SUBSET X, Z # {}
                     PROVE /\ G!Max(Z) \in Int /\ G!Min(Z) \in Int
                           /\ \A y \in Z : y <= G!Max(Z) /\ G!Min(Z) <= y
<1>1. X \subseteq Int /\ (\E m \in Z : \A y \in Z : m >= y) /\ (\E m \in Z : \A y \in Z : m <= y)
  BY DEF Bounded
<1>2. G!Max(Z) \in Z /\ \A y \in Z : G!Max(Z) >= y
  BY <1>1, Zenon DEF G!Max
<1>3. G!Min(Z) \in Z /\ \A y \in Z : G!Min(Z) <= y
  BY <1>1, Zenon DEF G!Min
<1> QED
  BY <1>1, <1>2, <1>3

\* A bound on a quotient is a bound on the product.
LEMMA Quotient == ASSUME NEW d \in Nat \ {0}, NEW e \in Int, NEW t \in Int, t <= e \div d
                  PROVE d * t \in Int /\ d * t <= e
<1>1. PICK q : q = e \div d
  OBVIOUS
<1>2. q \in Int /\ d * q <= e /\ d * q \in Int
  BY <1>1, DividedDown
<1>3. PICK n \in Nat : t = q - n
  <2>1. q - t \in Nat /\ t = q - (q - t)
    BY <1>1, <1>2
  <2> QED
    BY <2>1
<1>4. d * t = d * q - d * n /\ d * n \in Nat
  BY <1>2, <1>3
<1> QED
  BY <1>2, <1>4

\* A part t of the segment is on the inner side of one side of the box.
LEMMA InsideOf ==
  ASSUME NEW d \in Int, NEW e \in Int, NEW t \in Int,
         d < 0 => t >= -(e \div (-d)), d > 0 => t <= e \div d, d = 0 => e >= 0
  PROVE d * t \in Int /\ d * t <= e
<1>1. CASE d = 0
  BY <1>1
<1>2. CASE d > 0
  BY <1>2, Quotient
<1>3. CASE d < 0
  <2>1. PICK k \in Nat \ {0} : k = -d
    BY <1>3
  <2>2. PICK u \in Int : u = -t
    OBVIOUS
  <2>3. PICK q \in Int : q = e \div k
    BY <2>1
  <2>4. t >= -q
    BY <1>3, <2>1, <2>3
  <2>5. u <= e \div k
    BY <2>2, <2>3, <2>4
  <2>6. k * u \in Int /\ k * u <= e
    BY <2>1, <2>2, <2>5, Quotient
  <2>7. d * t = k * u
    <3>1. d = -k /\ t = -u
      BY <2>1, <2>2
    <3> QED
      BY <2>1, <2>2, <3>1
  <2> QED
    BY <2>6, <2>7
<1> QED
  BY <1>1, <1>2, <1>3

LEMMA WholeIs == G!Whole \in Nat \ {0}
  BY DEF G!Whole

\* Where a check lets the segment in, and where out again.
Entering(z) == -((z[2] * G!Whole) \div (-z[1]))
Leaving(z) == (z[2] * G!Whole) \div z[1]
Entrances(checks) == {Entering(z) : z \in {d \in checks : d[1] < 0}}
Exits(checks) == {Leaving(z) : z \in {d \in checks : d[1] > 0}}

\* A side of the box holds from where the segment enters until where it leaves.
LEMMA CheckIs ==
  ASSUME NEW z \in Int \X Int
  PROVE /\ z[1] < 0 => Entering(z) \in Int
        /\ z[1] > 0 => Leaving(z) \in Int
        /\ \A t \in Int : (z[1] < 0 => t >= Entering(z)) /\ (z[1] > 0 => t <= Leaving(z)) /\ (z[1] = 0 => z[2] >= 0)
                            => z[1] * t <= z[2] * G!Whole
<1>1. PICK m \in Int, n \in Int : m = z[1] /\ n = z[2] * G!Whole
  BY WholeIs
<1>2. Entering(z) = -(n \div (-m)) /\ Leaving(z) = n \div m /\ (z[2] >= 0 => n >= 0)
  BY <1>1, WholeIs DEF Entering, Leaving
<1>3. (m < 0 => -(n \div (-m)) \in Int) /\ (m > 0 => n \div m \in Int)
  <2>1. m < 0 => -m \in Nat \ {0}
    OBVIOUS
  <2>2. m > 0 => m \in Nat \ {0}
    OBVIOUS
  <2> QED
    BY <2>1, <2>2, DividedDown
<1>4. \A t \in Int : (m < 0 => t >= -(n \div (-m))) /\ (m > 0 => t <= n \div m) /\ (m = 0 => n >= 0) => m * t <= n
  BY InsideOf
<1> QED
  BY <1>1, <1>2, <1>3, <1>4, Zenon

LEMMA EntrancesBounded ==
  ASSUME NEW c1 \in Int \X Int, NEW c2 \in Int \X Int, NEW c3 \in Int \X Int, NEW c4 \in Int \X Int,
         NEW checks, OneOf(checks, c1, c2, c3, c4, c4)
  PROVE /\ G!Max({0} \cup Entrances(checks)) \in Int
        /\ \A y \in Entrances(checks) : y <= G!Max({0} \cup Entrances(checks))
<1>1. PICK e1, e2, e3, e4 : /\ e1 = (IF c1[1] < 0 THEN Entering(c1) ELSE 0)
                            /\ e2 = (IF c2[1] < 0 THEN Entering(c2) ELSE 0)
                            /\ e3 = (IF c3[1] < 0 THEN Entering(c3) ELSE 0)
                            /\ e4 = (IF c4[1] < 0 THEN Entering(c4) ELSE 0)
  OBVIOUS
<1>2. 0 \in Int /\ e1 \in Int /\ e2 \in Int /\ e3 \in Int /\ e4 \in Int
  BY <1>1, CheckIs
<1>3. PICK E : E = {0} \cup Entrances(checks)
  OBVIOUS
<1>4. OneOf(E, 0, e1, e2, e3, e4)
  BY <1>1, <1>3 DEF OneOf, Entrances
<1>5. Bounded(E)
  BY <1>2, <1>4, FiveBounded, Zenon
<1>6. E \in SUBSET E /\ E # {}
  BY <1>3
<1>7. G!Max(E) \in Int /\ \A y \in E : y <= G!Max(E)
  BY <1>5, <1>6, OutermostIs
<1> QED
  BY <1>3, <1>7

LEMMA ExitsBounded ==
  ASSUME NEW c1 \in Int \X Int, NEW c2 \in Int \X Int, NEW c3 \in Int \X Int, NEW c4 \in Int \X Int,
         NEW checks, OneOf(checks, c1, c2, c3, c4, c4)
  PROVE /\ G!Min({G!Whole} \cup Exits(checks)) \in Int
        /\ \A y \in Exits(checks) : G!Min({G!Whole} \cup Exits(checks)) <= y
<1>1. PICK e1, e2, e3, e4 : /\ e1 = (IF c1[1] > 0 THEN Leaving(c1) ELSE 0)
                            /\ e2 = (IF c2[1] > 0 THEN Leaving(c2) ELSE 0)
                            /\ e3 = (IF c3[1] > 0 THEN Leaving(c3) ELSE 0)
                            /\ e4 = (IF c4[1] > 0 THEN Leaving(c4) ELSE 0)
  OBVIOUS
<1>2. G!Whole \in Int /\ e1 \in Int /\ e2 \in Int /\ e3 \in Int /\ e4 \in Int
  BY <1>1, CheckIs, WholeIs
<1>3. PICK E : E = {G!Whole} \cup Exits(checks)
  OBVIOUS
<1>4. OneOf(E, G!Whole, e1, e2, e3, e4)
  BY <1>1, <1>3 DEF OneOf, Exits
<1>5. Bounded(E)
  BY <1>2, <1>4, FiveBounded, Zenon
<1>6. E \in SUBSET E /\ E # {}
  BY <1>3
<1>7. G!Min(E) \in Int /\ \A y \in E : G!Min(E) <= y
  BY <1>5, <1>6, OutermostIs
<1> QED
  BY <1>3, <1>7

\* From where it enters to where it leaves, a segment passes every check.
LEMMA ClipChecks ==
  ASSUME NEW c1 \in Int \X Int, NEW c2 \in Int \X Int, NEW c3 \in Int \X Int, NEW c4 \in Int \X Int,
         NEW checks, OneOf(checks, c1, c2, c3, c4, c4), \A z \in checks : ~ (z[1] = 0 /\ z[2] < 0),
         NEW from, from = G!Max({0} \cup Entrances(checks)), NEW to, to = G!Min({G!Whole} \cup Exits(checks))
  PROVE /\ from \in Int /\ to \in Int
        /\ \A t \in Int : from <= t /\ t <= to => \A z \in checks : z[1] * t <= z[2] * G!Whole
<1>1. from \in Int /\ \A y \in Entrances(checks) : y <= from
  BY EntrancesBounded
<1>2. to \in Int /\ \A y \in Exits(checks) : to <= y
  BY ExitsBounded
<1>4. ASSUME NEW t \in Int, from <= t, t <= to, NEW z \in checks PROVE z[1] * t <= z[2] * G!Whole
  <2>1. z \in Int \X Int /\ (z[1] = 0 => z[2] >= 0)
    BY DEF OneOf
  <2>2. z[1] < 0 => Entering(z) \in Entrances(checks) /\ Entering(z) \in Int
    BY <2>1, CheckIs DEF Entrances
  <2>3. z[1] > 0 => Leaving(z) \in Exits(checks) /\ Leaving(z) \in Int
    BY <2>1, CheckIs DEF Exits
  <2>4. ASSUME z[1] < 0 PROVE t >= Entering(z)
    <3>1. Entering(z) \in Int /\ Entering(z) <= from
      BY <1>1, <2>2, <2>4
    <3> QED
      BY <1>1, <1>4, <3>1
  <2>5. ASSUME z[1] > 0 PROVE t <= Leaving(z)
    <3>1. Leaving(z) \in Int /\ to <= Leaving(z)
      BY <1>2, <2>3, <2>5
    <3> QED
      BY <1>2, <1>4, <3>1
  <2> QED
    BY <1>4, <2>1, <2>4, <2>5, CheckIs
<1> QED
  BY <1>1, <1>2, <1>4

\* All that is left of a segment is on the inner side of every side of the box.
LEMMA ClipRangeWithin ==
  ASSUME NEW x1 \in Int, NEW y1 \in Int, NEW x2 \in Int, NEW y2 \in Int,
         NEW l \in Int, NEW o \in Int, NEW r \in Int, NEW n \in Int,
         NEW v, v = G!ClipRange(x1, y1, x2, y2, G!Box(l, o, r, n)), ~ v.outside
  PROVE /\ v.from \in Int /\ v.to \in Int
        /\ \A t \in Int : v.from <= t /\ t <= v.to
             => /\ -(x2 - x1) * t <= (x1 - l) * G!Whole /\ (x2 - x1) * t <= (r - x1) * G!Whole
                /\ -(y2 - y1) * t <= (y1 - o) * G!Whole /\ (y2 - y1) * t <= (n - y1) * G!Whole
<1>1. PICK c1, c2, c3, c4 : /\ c1 = <<-(x2 - x1), x1 - l>> /\ c2 = <<x2 - x1, r - x1>>
                            /\ c3 = <<-(y2 - y1), y1 - o>> /\ c4 = <<y2 - y1, n - y1>>
  OBVIOUS
<1>2. c1 \in Int \X Int /\ c2 \in Int \X Int /\ c3 \in Int \X Int /\ c4 \in Int \X Int
  BY <1>1
<1>3. PICK checks, from, to : /\ checks = {c1, c2, c3, c4}
                              /\ from = G!Max({0} \cup Entrances(checks)) /\ to = G!Min({G!Whole} \cup Exits(checks))
  OBVIOUS
<1>4. v = [outside |-> \E z \in checks : z[1] = 0 /\ z[2] < 0,
           from |-> G!Max({0} \cup Entrances(checks)),
           to |-> G!Min({G!Whole} \cup Exits(checks))]
  BY <1>1, <1>3, Zenon DEF G!ClipRange, G!Box, Entrances, Exits, Entering, Leaving
<1>5. v.from = from /\ v.to = to /\ \A z \in checks : ~ (z[1] = 0 /\ z[2] < 0)
  BY <1>3, <1>4
<1>6. /\ from \in Int /\ to \in Int
      /\ \A t \in Int : from <= t /\ t <= to => \A z \in checks : z[1] * t <= z[2] * G!Whole
  <2>1. OneOf(checks, c1, c2, c3, c4, c4)
    BY <1>3 DEF OneOf
  <2>2. from = G!Max({0} \cup Entrances(checks)) /\ to = G!Min({G!Whole} \cup Exits(checks))
    BY <1>3
  <2> QED
    BY <1>2, <1>5, <2>1, <2>2, ClipChecks
<1>7. ASSUME NEW t \in Int, from <= t, t <= to
      PROVE /\ -(x2 - x1) * t <= (x1 - l) * G!Whole /\ (x2 - x1) * t <= (r - x1) * G!Whole
            /\ -(y2 - y1) * t <= (y1 - o) * G!Whole /\ (y2 - y1) * t <= (n - y1) * G!Whole
  <2>1. /\ c1[1] * t <= c1[2] * G!Whole /\ c2[1] * t <= c2[2] * G!Whole
        /\ c3[1] * t <= c3[2] * G!Whole /\ c4[1] * t <= c4[2] * G!Whole
    BY <1>3, <1>6, <1>7
  <2> QED
    BY <1>1, <2>1
<1> QED
  BY <1>5, <1>6, <1>7

\* A point that is so far along one axis is between the two sides.
LEMMA PartBetween ==
  ASSUME NEW x \in Int, NEW l \in Int, NEW r \in Int, NEW p \in Int,
         -p <= (x - l) * G!Whole, p <= (r - x) * G!Whole
  PROVE x + p \div G!Whole \in l .. r
<1>1. PICK z \in Nat \ {0} : z = G!Whole
  BY WholeIs
<1>2. PICK q : q = p \div z
  OBVIOUS
<1>3. q \in Int /\ z * q \in Int /\ z * q <= p /\ p < z * q + z
  BY <1>2, DividedDown
<1>4. PICK u \in Int, k \in Int : u = l - x /\ k = r - x
  OBVIOUS
<1>5. z * u \in Int /\ z * k \in Int /\ (x - l) * z = -(z * u) /\ (r - x) * z = z * k
  BY <1>4
<1>6. z * u <= p /\ p <= z * k
  BY <1>1, <1>5
<1>7. u <= q
  BY <1>3, <1>5, <1>6, Factor
<1>8. q <= k
  BY <1>3, <1>5, <1>6, Factor
<1> QED
  BY <1>1, <1>2, <1>3, <1>4, <1>7, <1>8

\* What is left of a segment is in the box.
LEMMA ClipWithin ==
  ASSUME NEW x1 \in Int, NEW y1 \in Int, NEW x2 \in Int, NEW y2 \in Int,
         NEW l \in Int, NEW o \in Int, NEW r \in Int, NEW n \in Int
  PROVE G!ClipSegment(x1, y1, x2, y2, G!Box(l, o, r, n)) \subseteq Sheet(l, o, r, n)
<1>1. PICK v : v = G!ClipRange(x1, y1, x2, y2, G!Box(l, o, r, n))
  OBVIOUS
<1> DEFINE at(from, to, t) == from + ((to - from) * t) \div G!Whole
<1>2. G!ClipSegment(x1, y1, x2, y2, G!Box(l, o, r, n))
        = IF v.outside \/ v.to <= v.from THEN {}
          ELSE {<<at(x1, x2, v.from), at(y1, y2, v.from), at(x1, x2, v.to), at(y1, y2, v.to)>>}
  BY <1>1 DEF G!ClipSegment, G!Line
<1>3. ASSUME ~ v.outside
      PROVE /\ v.to \in Int /\ v.from \in Int
            /\ \A t \in Int : v.from <= t /\ t <= v.to => at(x1, x2, t) \in l .. r /\ at(y1, y2, t) \in o .. n
  <2>1. v.to \in Int /\ v.from \in Int
    BY <1>1, <1>3, ClipRangeWithin
  <2>2. ASSUME NEW t \in Int, v.from <= t, t <= v.to
        PROVE at(x1, x2, t) \in l .. r /\ at(y1, y2, t) \in o .. n
    <3>1. /\ -(x2 - x1) * t <= (x1 - l) * G!Whole /\ (x2 - x1) * t <= (r - x1) * G!Whole
          /\ -(y2 - y1) * t <= (y1 - o) * G!Whole /\ (y2 - y1) * t <= (n - y1) * G!Whole
      BY <1>1, <1>3, <2>2, ClipRangeWithin
    <3>2. PICK p, q : p = (x2 - x1) * t /\ q = (y2 - y1) * t
      OBVIOUS
    <3>3. p \in Int /\ q \in Int /\ -(x2 - x1) * t = -p /\ -(y2 - y1) * t = -q
      BY <3>2
    <3>4. -p <= (x1 - l) * G!Whole /\ p <= (r - x1) * G!Whole /\ -q <= (y1 - o) * G!Whole /\ q <= (n - y1) * G!Whole
      BY <3>1, <3>2, <3>3
    <3>5. x1 + p \div G!Whole \in l .. r /\ y1 + q \div G!Whole \in o .. n
      BY <3>3, <3>4, PartBetween
    <3> QED
      BY <3>2, <3>5
  <2> QED
    BY <2>1, <2>2
<1> HIDE DEF at
<1>4. ASSUME ~ v.outside, ~ v.to <= v.from
      PROVE <<at(x1, x2, v.from), at(y1, y2, v.from), at(x1, x2, v.to), at(y1, y2, v.to)>> \in Sheet(l, o, r, n)
  <2>1. v.to \in Int /\ v.from \in Int /\ v.from <= v.to
    BY <1>3, <1>4
  <2>2. /\ at(x1, x2, v.from) \in l .. r /\ at(y1, y2, v.from) \in o .. n
        /\ at(x1, x2, v.to) \in l .. r /\ at(y1, y2, v.to) \in o .. n
    BY <1>3, <1>4, <2>1
  <2> QED
    BY <2>2 DEF Sheet
<1> QED
  BY <1>2, <1>4

-----------------------------------------------------------------------------
\* The templates are drawn on the page: rules, grids and dots.

\* A family of parallel lines is cut off at the box.
LEMMA LinesWithin ==
  ASSUME NEW angle \in {30, 90, 150}, NEW d \in Nat \ {0}, NEW l \in Int, NEW o \in Int, NEW r \in Int, NEW n \in Int,
         NEW ox \in Int, NEW oy \in Int
  PROVE G!LineFamily(angle, d, G!Box(l, o, r, n), ox, oy) \subseteq Sheet(l, o, r, n)
<1> DEFINE box == G!Box(l, o, r, n)
           u == G!Direction[angle]
           projection(x, y) == ((y - oy) * u[1] - (x - ox) * u[2]) \div 1000
           ends == {projection(x, y) : x \in {box.left, box.right}, y \in {box.top, box.bottom}}
           reach == box.right - box.left + box.bottom - box.top + G!Pt(1)
           px(k) == ox - (u[2] * k * d) \div 1000
           py(k) == oy + (u[1] * k * d) \div 1000
           rx == (u[1] * reach) \div 1000
           ry == (u[2] * reach) \div 1000
           line(k) == G!ClipSegment(px(k) - rx, py(k) - ry, px(k) + rx, py(k) + ry, box)
           lo == -((-G!Min(ends)) \div d)
           hi == G!Max(ends) \div d
<1>1. G!LineFamily(angle, d, box, ox, oy) = UNION {line(k) : k \in lo .. hi}
  BY DEF G!LineFamily
<1>2. u[1] \in Int /\ u[2] \in Int
  BY DEF G!Direction
<1>3. reach \in Int
  BY DEF G!Box, G!Pt
<1> HIDE DEF reach, lo, hi, u
<1>4. \A x, y, z \in Int : (x * y * z) \div 1000 \in Int /\ (x * y) \div 1000 \in Int
  OBVIOUS
<1>5. rx \in Int /\ ry \in Int /\ \A k \in Int : px(k) \in Int /\ py(k) \in Int
  BY <1>2, <1>3, <1>4
<1> HIDE DEF rx, ry, px, py
<1>6. \A k \in Int : line(k) \subseteq Sheet(l, o, r, n)
  BY <1>5, ClipWithin
<1>7. \A k \in lo .. hi : line(k) \subseteq Sheet(l, o, r, n)
  BY <1>6
<1> HIDE DEF line
<1> QED
  BY <1>1, <1>7

\* A paper whose sides, spacing and margin a form lets through, in tenths of a point.
Sized(p) == /\ p.w \in Nat /\ p.h \in Nat /\ p.s \in Nat /\ p.m \in Nat
            /\ 720 <= p.w /\ 720 <= p.h /\ 20 <= p.s /\ 3 * p.m <= p.w /\ 3 * p.m <= p.h

PageOf(p) == Sheet(0, 0, p.w, p.h)

\* A mark is on the page where its ends are.
LEMMA OnPage ==
  ASSUME NEW p, Sized(p), NEW x1 \in 0 .. p.w, NEW y1 \in 0 .. p.h, NEW x2 \in 0 .. p.w, NEW y2 \in 0 .. p.h
  PROVE G!Line(x1, y1, x2, y2) \in PageOf(p) /\ G!Dot(x1, y1) \in PageOf(p)
  BY DEF G!Line, G!Dot, PageOf, Sheet

LEMMA InsetOnPage == ASSUME NEW p, Sized(p), NEW o \in Int, 0 <= o
                     PROVE Sheet(p.m, o, p.w - p.m, p.h - p.m) \subseteq PageOf(p)
  BY SheetWithin DEF Sized, PageOf

\* Rules and grids of a part of the page are on the page.
LEMMA RulesOnPage ==
  ASSUME NEW p, Sized(p), NEW y \in Nat, NEW e \in Int, e <= p.h, NEW x1 \in 0 .. p.w, NEW x2 \in 0 .. p.w
  PROVE G!HorizontalRules(p, y, e, x1, x2) \subseteq PageOf(p)
<1>1. \A z \in G!Steps(y, p.s, e) : z \in 0 .. p.h
  BY StepsWithin DEF Sized
<1> QED
  BY <1>1, OnPage DEF G!HorizontalRules

LEMMA RuledOnPage == ASSUME NEW p, Sized(p) PROVE G!Ruled(p) \subseteq PageOf(p)
<1>1. G!HorizontalRules(p, 3 * p.s, p.h - p.s, 0, p.w) \subseteq PageOf(p)
  BY RulesOnPage DEF Sized
<1>2. G!Line(p.m, 0, p.m, p.h) \in PageOf(p)
  BY OnPage DEF Sized
<1> QED
  BY <1>1, <1>2 DEF G!Ruled

LEMMA GridOnPage ==
  ASSUME NEW p, Sized(p), NEW l \in 0 .. p.w, NEW o \in 0 .. p.h, NEW r \in 0 .. p.w, NEW n \in 0 .. p.h
  PROVE G!Grid(p, G!Box(l, o, r, n)) \subseteq PageOf(p)
<1>1. PICK xs, ys : xs = G!CentredSteps(l, r, p.s) /\ ys = G!CentredSteps(o, n, p.s)
  OBVIOUS
<1>2. p.w \in Nat /\ p.h \in Nat /\ p.s \in Nat \ {0}
  BY DEF Sized
<1>3. /\ \A x \in xs : x \in 0 .. p.w
      /\ \A y \in ys : y \in 0 .. p.h
  <2>1. xs \subseteq l .. r /\ ys \subseteq o .. n
    BY <1>1, <1>2, CentredWithin
  <2> QED
    BY <1>2, <2>1
<1>4. PICK x1, x2, y1, y2 : /\ x1 = G!Earliest(xs, l) /\ x2 = G!Latest(xs, r)
                            /\ y1 = G!Earliest(ys, o) /\ y2 = G!Latest(ys, n)
  OBVIOUS
<1>5. x1 \in 0 .. p.w /\ x2 \in 0 .. p.w /\ y1 \in 0 .. p.h /\ y2 \in 0 .. p.h
  <2>1. G!Earliest(xs, l) \in 0 .. p.w /\ G!Latest(xs, r) \in 0 .. p.w
    BY <1>1, <1>2, EndsWithin
  <2>2. G!Earliest(ys, o) \in 0 .. p.h /\ G!Latest(ys, n) \in 0 .. p.h
    BY <1>1, <1>2, EndsWithin
  <2> QED
    BY <1>4, <2>1, <2>2
<1>6. G!Grid(p, G!Box(l, o, r, n)) = {G!Line(x, y1, x, y2) : x \in xs} \cup {G!Line(x1, y, x2, y) : y \in ys}
  BY <1>1, <1>4 DEF G!Grid, G!Box
<1> QED
  BY <1>3, <1>5, <1>6, OnPage

LEMMA InsetGridOnPage == ASSUME NEW p, Sized(p) PROVE G!Grid(p, G!Inset(p)) \subseteq PageOf(p)
<1>1. p.m \in 0 .. p.w /\ p.m \in 0 .. p.h /\ p.w - p.m \in 0 .. p.w /\ p.h - p.m \in 0 .. p.h
  BY DEF Sized
<1> QED
  BY <1>1, GridOnPage DEF G!Inset

LEMMA DotsOnPage == ASSUME NEW p, Sized(p) PROVE G!DotGrid(p) \subseteq PageOf(p)
<1>1. PICK xs, ys : xs = G!CentredSteps(p.m, p.w - p.m, p.s) /\ ys = G!CentredSteps(p.m, p.h - p.m, p.s)
  OBVIOUS
<1>2. xs \subseteq p.m .. p.w - p.m /\ ys \subseteq p.m .. p.h - p.m
  BY <1>1, CentredWithin DEF Sized
<1>3. \A x \in xs : x \in 0 .. p.w
  BY <1>2 DEF Sized
<1>4. \A y \in ys : y \in 0 .. p.h
  BY <1>2 DEF Sized
<1>5. G!DotGrid(p) = {G!Dot(x, y) : x \in xs, y \in ys}
  BY <1>1 DEF G!DotGrid
<1>6. \A x \in xs, y \in ys : G!Dot(x, y) \in PageOf(p)
  BY <1>3, <1>4, OnPage
<1> QED
  BY <1>5, <1>6

LEMMA IsometricOnPage == ASSUME NEW p, Sized(p) PROVE G!Isometric(p) \subseteq PageOf(p)
<1>1. PICK d : d = (866 * p.s) \div 1000
  OBVIOUS
<1>2. PICK ox, oy : ox = p.w \div 2 /\ oy = p.h \div 2
  OBVIOUS
<1>3. d \in Nat \ {0} /\ ox \in Int /\ oy \in Int
  BY <1>1, <1>2 DEF Sized
<1>4. p.m \in Int /\ p.w - p.m \in Int /\ p.h - p.m \in Int
  BY DEF Sized
<1>5. \A angle \in {30, 90, 150} : G!LineFamily(angle, d, G!Inset(p), ox, oy) \subseteq Sheet(p.m, p.m, p.w - p.m, p.h - p.m)
  BY <1>3, <1>4, LinesWithin DEF G!Inset
<1>6. Sheet(p.m, p.m, p.w - p.m, p.h - p.m) \subseteq PageOf(p)
  BY InsetOnPage DEF Sized
<1> QED
  BY <1>1, <1>2, <1>5, <1>6 DEF G!Isometric

-----------------------------------------------------------------------------
\* The templates that divide the page.

\* The i-th of n shares of a length is between its ends, whichever way it goes.
Share(i, n, d) == (i * d) \div n

\* A share has the sign of the length and is not longer.
LEMMA ShareBetween ==
  ASSUME NEW n \in Nat \ {0}, NEW i \in 0 .. n, NEW d \in Int
  PROVE /\ Share(i, n, d) \in Int
        /\ 0 <= d => Share(i, n, d) \in 0 .. d
        /\ d <= 0 => Share(i, n, d) \in d .. 0
<1>1. PICK q : q = (i * d) \div n
  OBVIOUS
<1>2. i * d \in Int
  OBVIOUS
<1>3. q \in Int /\ n * q \in Int /\ n * q <= i * d /\ i * d < n * q + n
  BY <1>1, <1>2, DividedDown
<1>4. PICK k \in Nat : n = i + k
  <2>1. n - i \in Nat /\ n = i + (n - i)
    OBVIOUS
  <2> QED
    BY <2>1
<1>5. k * d \in Int /\ n * d \in Int /\ n * d = i * d + k * d /\ n * 0 = 0
  BY <1>4
<1>6. ASSUME 0 <= d PROVE q \in 0 .. d
  <2>1. 0 <= i * d /\ 0 <= k * d
    BY <1>4, <1>6
  <2>2. n * q < n * d + n /\ n * 0 < n * q + n
    BY <1>3, <1>5, <2>1
  <2>3. q <= d
    BY <1>3, <2>2, Factor
  <2>4. 0 <= q
    BY <1>3, <2>2, Factor
  <2> QED
    BY <1>3, <2>3, <2>4
<1>7. ASSUME d <= 0 PROVE q \in d .. 0
  <2>1. i * d <= 0 /\ k * d <= 0
    BY <1>4, <1>7
  <2>2. n * q < n * 0 + n /\ n * d < n * q + n
    BY <1>3, <1>5, <2>1
  <2>3. q <= 0
    BY <1>3, <2>2, Factor
  <2>4. d <= q
    BY <1>3, <2>2, Factor
  <2> QED
    BY <1>3, <2>3, <2>4
<1> QED
  BY <1>1, <1>3, <1>6, <1>7 DEF Share

\* In sixths, sevenths and fourteenths, as the planners divide their pages.
Shares(n, d) ==
  \A i \in 0 .. n : /\ Share(i, n, d) \in Int
                    /\ 0 <= d => Share(i, n, d) \in 0 .. d
                    /\ d <= 0 => Share(i, n, d) \in d .. 0

LEMMA SharesBetween == ASSUME NEW d \in Int PROVE Shares(6, d) /\ Shares(7, d) /\ Shares(14, d)
<1> SUFFICES ASSUME NEW n \in Nat \ {0} PROVE Shares(n, d)
  OBVIOUS
<1> QED
  BY ShareBetween DEF Shares

\* The middle one of centred steps is between the first and the last.
LEMMA MiddleWithin ==
  ASSUME NEW hi \in Nat, NEW x \in 0 .. hi, NEW e \in 0 .. hi, NEW s \in Nat \ {0}, NEW v, v = G!CentredSteps(x, e, s),
         NEW d \in 0 .. hi
  PROVE (IF v = {} THEN d ELSE G!Min(v) + s * (G!Cardinality(v) \div 2)) \in 0 .. hi
<1>1. CASE v = {}
  BY <1>1
<1>2. CASE v # {}
  <2>1. PICK q : Centred(v, x, e, s, q)
    BY CentredAre
  <2>2. x \in Int /\ e \in Int /\ q \in Int
    BY <2>1 DEF Centred
  <2>3. PICK c0 \in Int : v = {c0 + i * s : i \in 0 .. q}
    BY <2>1 DEF Centred
  <2>4. q \in Nat
    BY <1>2, <2>2, <2>3
  <2>5. Cardinality(v) \in Nat /\ Cardinality(v) <= q + 1
    <3>1. PICK f : f = [i \in 0 .. q |-> c0 + i * s]
      OBVIOUS
    <3>2. f \in Surjection(0 .. q, v)
      BY <2>3, <3>1 DEF Surjection
    <3>3. IsFiniteSet(0 .. q) /\ Cardinality(0 .. q) = q + 1
      BY <2>4, FS_Interval
    <3>4. IsFiniteSet(v) /\ Cardinality(v) <= Cardinality(0 .. q)
      BY <3>2, <3>3, FS_Surjection
    <3> QED
      BY <3>3, <3>4, FS_CardinalityType
  <2>6. PICK n : n = Cardinality(v) \div 2
    OBVIOUS
  <2>7. n \in Nat /\ n <= q
    BY <2>4, <2>5, <2>6
  <2>8. G!Min(v) + s * n \in x .. e
    BY <1>2, <2>1, <2>7 DEF Centred
  <2>9. G!Cardinality(v) = Cardinality(v)
    BY DEF G!Cardinality, Cardinality
  <2> QED
    BY <1>2, <2>6, <2>8, <2>9
<1> QED
  BY <1>1, <1>2

LEMMA HexOnPage == ASSUME NEW p, Sized(p) PROVE G!Hex(p) \subseteq PageOf(p)
<1> DEFINE box == G!Inset(p)
           rowH == (1732 * p.s) \div 1000
           dx == <<p.s, p.s \div 2, -(p.s \div 2), -p.s, -(p.s \div 2), p.s \div 2>>
           dy == [i \in 1..6 |-> CASE i \in {2, 3} -> rowH \div 2 [] i \in {5, 6} -> -(rowH \div 2) [] OTHER -> 0]
           cols == -1 .. (2 * (box.right - box.left + p.s)) \div (3 * p.s)
           rows == -1 .. (box.bottom - box.top + rowH) \div rowH
           cx(col) == box.left + (3 * p.s * col) \div 2
           cy(col, rw) == box.top + rw * rowH + (IF col % 2 = 1 THEN rowH \div 2 ELSE 0)
           side(k, r, i) == G!ClipSegment(cx(k) + dx[i], cy(k, r) + dy[i], cx(k) + dx[(i % 6) + 1], cy(k, r) + dy[(i % 6) + 1], box)
<1>1. G!Hex(p) = UNION {side(k, r, i) : k \in cols, r \in rows, i \in 1..6}
  BY DEF G!Hex
<1>2. p.s \in Nat /\ p.m \in Nat /\ p.w \in Nat /\ p.h \in Nat
  BY DEF Sized
<1>3. rowH \in Int /\ box.left \in Int /\ box.top \in Int
  BY <1>2 DEF G!Inset, G!Box
<1>4. \A i \in 1..6 : dx[i] \in Int /\ dy[i] \in Int
  <2>1. p.s \div 2 \in Int /\ -(p.s \div 2) \in Int /\ -p.s \in Int /\ rowH \div 2 \in Int /\ -(rowH \div 2) \in Int
    BY <1>2, <1>3
  <2>2. \A i \in 1..6 : dx[i] \in Int
    BY <1>2, <2>1
  <2>3. \A i \in 1..6 : dy[i] \in Int
    BY <2>1
  <2> QED
    BY <2>2, <2>3
<1>5. \A i \in 1..6 : (i % 6) + 1 \in 1..6
  OBVIOUS
<1> HIDE DEF rowH, dx, dy
<1>6. \A k \in Int : cx(k) \in Int
  BY <1>2, <1>3
<1>7. \A k, r \in Int : cy(k, r) \in Int
  BY <1>3
<1> HIDE DEF cx, cy, cols, rows
<1>8. \A k \in Int, r \in Int, i \in 1..6 : side(k, r, i) \subseteq Sheet(p.m, p.m, p.w - p.m, p.h - p.m)
  <2> SUFFICES ASSUME NEW k \in Int, NEW r \in Int, NEW i \in 1..6
               PROVE side(k, r, i) \subseteq Sheet(p.m, p.m, p.w - p.m, p.h - p.m)
    OBVIOUS
  <2>1. PICK x1, y1, x2, y2 : /\ x1 = cx(k) + dx[i] /\ y1 = cy(k, r) + dy[i]
                              /\ x2 = cx(k) + dx[(i % 6) + 1] /\ y2 = cy(k, r) + dy[(i % 6) + 1]
    OBVIOUS
  <2>2. x1 \in Int /\ y1 \in Int /\ x2 \in Int /\ y2 \in Int
    <3>1. cx(k) \in Int /\ cy(k, r) \in Int /\ dx[i] \in Int /\ dy[i] \in Int
      BY <1>4, <1>6, <1>7
    <3>2. dx[(i % 6) + 1] \in Int /\ dy[(i % 6) + 1] \in Int
      BY <1>4, <1>5
    <3> QED
      BY <2>1, <3>1, <3>2
  <2>3. p.m \in Int /\ p.w - p.m \in Int /\ p.h - p.m \in Int
    BY <1>2
  <2>4. G!ClipSegment(x1, y1, x2, y2, G!Box(p.m, p.m, p.w - p.m, p.h - p.m)) \subseteq Sheet(p.m, p.m, p.w - p.m, p.h - p.m)
    BY <2>2, <2>3, ClipWithin
  <2> QED
    BY <2>1, <2>4 DEF G!Inset
<1>9. Sheet(p.m, p.m, p.w - p.m, p.h - p.m) \subseteq PageOf(p)
  BY <1>2, InsetOnPage
<1>10. \A k \in cols, r \in rows : k \in Int /\ r \in Int
  BY DEF cols, rows
<1> HIDE DEF side
<1>11. \A k \in cols, r \in rows, i \in 1..6 : side(k, r, i) \subseteq PageOf(p)
  BY <1>8, <1>9, <1>10
<1> QED
  BY <1>1, <1>11

LEMMA GraphOnPage == ASSUME NEW p, Sized(p) PROVE G!GraphWithAxes(p) \subseteq PageOf(p)
<1> DEFINE middle(steps, default) == IF steps = {} THEN default ELSE G!Min(steps) + p.s * (G!Cardinality(steps) \div 2)
<1>1. PICK xs, ys : xs = G!CentredSteps(p.m, p.w - p.m, p.s) /\ ys = G!CentredSteps(p.m, p.h - p.m, p.s)
  OBVIOUS
<1>2. PICK x, y : x = middle(xs, p.w \div 2) /\ y = middle(ys, p.h \div 2)
  OBVIOUS
<1>3. G!GraphWithAxes(p) = G!Grid(p, G!Inset(p)) \cup {G!Line(x, G!Earliest(ys, p.m), x, G!Latest(ys, p.h - p.m)),
                                                       G!Line(G!Earliest(xs, p.m), y, G!Latest(xs, p.w - p.m), y)}
  BY <1>1, <1>2 DEF G!GraphWithAxes
<1>4. /\ p.w \in Nat /\ p.h \in Nat /\ p.s \in Nat \ {0} /\ p.w \div 2 \in 0 .. p.w /\ p.h \div 2 \in 0 .. p.h
      /\ p.m \in 0 .. p.w /\ p.m \in 0 .. p.h /\ p.w - p.m \in 0 .. p.w /\ p.h - p.m \in 0 .. p.h
  BY DEF Sized
<1>5. x \in 0 .. p.w /\ y \in 0 .. p.h
  BY <1>1, <1>2, <1>4, MiddleWithin
<1>6. G!Earliest(xs, p.m) \in 0 .. p.w /\ G!Latest(xs, p.w - p.m) \in 0 .. p.w
  BY <1>1, <1>4, EndsWithin
<1>7. G!Earliest(ys, p.m) \in 0 .. p.h /\ G!Latest(ys, p.h - p.m) \in 0 .. p.h
  BY <1>1, <1>4, EndsWithin
<1> QED
  BY <1>3, <1>5, <1>6, <1>7, InsetGridOnPage, OnPage

LEMMA MonthOnPage == ASSUME NEW p, Sized(p) PROVE G!PlannerMonthly(p) \subseteq PageOf(p)
<1> DEFINE top == p.m + 280
           gridTop == top + 200
           col(k) == p.m + (k * (p.w - 2 * p.m)) \div 7
           rw(r) == gridTop + (r * (p.h - p.m - gridTop)) \div 6
<1>1. G!PlannerMonthly(p) =
        {G!Dot(p.m, p.m + 140), G!Line(p.m, top, p.w - p.m, top)}
          \cup {G!Dot((col(i) + col(i + 1)) \div 2, top + 140) : i \in 0..6}
          \cup {G!Line(p.m, rw(r), p.w - p.m, rw(r)) : r \in 0..6}
          \cup {G!Line(col(k), gridTop, col(k), p.h - p.m) : k \in 0..7}
  BY DEF G!PlannerMonthly, G!Pt
<1>2. /\ p.w \in Nat /\ p.h \in Nat /\ p.m \in 0 .. p.w /\ p.w - p.m \in 0 .. p.w /\ p.h - p.m \in 0 .. p.h
      /\ p.m + 140 \in 0 .. p.h /\ top \in 0 .. p.h /\ top + 140 \in 0 .. p.h /\ gridTop \in 0 .. p.h
  BY DEF Sized
<1>3. \A k \in 0 .. 7 : col(k) \in p.m .. p.w - p.m
  <2>1. PICK d \in Nat : d = p.w - 2 * p.m
    BY DEF Sized
  <2>2. \A k \in 0 .. 7 : Share(k, 7, d) \in 0 .. d
    <3>1. Shares(7, d)
      BY <2>1, SharesBetween
    <3> QED
      BY <2>1, <3>1 DEF Shares
  <2>3. \A k : col(k) = p.m + Share(k, 7, d)
    BY <2>1 DEF Share
  <2>4. p.m \in Int /\ p.w - p.m = p.m + d
    BY <2>1 DEF Sized
  <2> HIDE DEF col
  <2> QED
    BY <2>1, <2>2, <2>3, <2>4
<1>4. \A r \in 0 .. 6 : rw(r) \in 0 .. p.h
  <2>1. PICK d \in Int : d = p.h - p.m - gridTop
    BY <1>2
  <2>2. \A r \in 0 .. 6 : /\ Share(r, 6, d) \in Int
                          /\ 0 <= d => Share(r, 6, d) \in 0 .. d
                          /\ d <= 0 => Share(r, 6, d) \in d .. 0
    <3>1. Shares(6, d)
      BY <2>1, SharesBetween
    <3> QED
      BY <3>1 DEF Shares
  <2>3. \A r \in 0 .. 6 : gridTop + Share(r, 6, d) \in 0 .. p.h
    BY <1>2, <2>1, <2>2
  <2> QED
    BY <2>1, <2>3 DEF Share
<1> HIDE DEF col, rw, top, gridTop
<1>5. \A i \in 0 .. 6 : (col(i) + col(i + 1)) \div 2 \in 0 .. p.w
  <2>1. \A x, y \in p.m .. p.w - p.m : (x + y) \div 2 \in 0 .. p.w
    BY <1>2
  <2>2. \A i \in 0 .. 6 : i \in 0 .. 7 /\ i + 1 \in 0 .. 7
    OBVIOUS
  <2> QED
    BY <1>3, <2>1, <2>2
<1>6. \A k \in 0 .. 7 : col(k) \in 0 .. p.w
  BY <1>2, <1>3
<1>7. {G!Dot(p.m, p.m + 140), G!Line(p.m, top, p.w - p.m, top)} \subseteq PageOf(p)
  BY <1>2, OnPage
<1>8. {G!Dot((col(i) + col(i + 1)) \div 2, top + 140) : i \in 0..6} \subseteq PageOf(p)
  BY <1>2, <1>5, OnPage
<1>9. {G!Line(p.m, rw(r), p.w - p.m, rw(r)) : r \in 0..6} \subseteq PageOf(p)
  BY <1>2, <1>4, OnPage
<1>10. {G!Line(col(k), gridTop, col(k), p.h - p.m) : k \in 0..7} \subseteq PageOf(p)
  BY <1>2, <1>6, OnPage
<1> QED
  BY <1>1, <1>7, <1>8, <1>9, <1>10

LEMMA PracticeOnPage == ASSUME NEW p, Sized(p) PROVE G!HandwritingPractice(p) \subseteq PageOf(p)
<1>1. /\ p.w \in Nat /\ p.h \in Nat /\ p.s \in Nat \ {0} /\ 4 * p.s \in Nat \ {0} /\ p.m + p.s \in Int /\ p.h - p.m - 3 * p.s \in Int
      /\ p.m \in 0 .. p.w /\ p.w - p.m \in 0 .. p.w /\ p.m \in Nat
  BY DEF Sized
<1>2. \A y \in G!Steps(p.m + p.s, 4 * p.s, p.h - p.m - 3 * p.s) : y \in p.m + p.s .. p.h - p.m - 3 * p.s
  BY <1>1, StepsWithin
<1>3. \A y \in G!Steps(p.m + p.s, 4 * p.s, p.h - p.m - 3 * p.s), i \in 0..3 : y + i * p.s \in 0 .. p.h
  <2> SUFFICES ASSUME NEW y \in p.m + p.s .. p.h - p.m - 3 * p.s, NEW i \in 0..3 PROVE y + i * p.s \in 0 .. p.h
    BY <1>2
  <2>1. i * p.s \in 0 .. 3 * p.s
    <3>1. i = 0 \/ i = 1 \/ i = 2 \/ i = 3
      OBVIOUS
    <3> QED
      BY <1>1, <3>1
  <2> QED
    BY <1>1, <2>1
<1>4. G!HandwritingPractice(p) = {G!Line(p.m, y + i * p.s, p.w - p.m, y + i * p.s) :
                                    y \in G!Steps(p.m + p.s, 4 * p.s, p.h - p.m - 3 * p.s), i \in 0..3}
  BY DEF G!HandwritingPractice
<1>5. \A y \in G!Steps(p.m + p.s, 4 * p.s, p.h - p.m - 3 * p.s), i \in 0..3 :
        G!Line(p.m, y + i * p.s, p.w - p.m, y + i * p.s) \in PageOf(p)
  BY <1>1, <1>3, OnPage
<1> QED
  BY <1>4, <1>5

LEMMA EngineeringOnPage == ASSUME NEW p, Sized(p) PROVE G!Engineering(p) \subseteq PageOf(p)
<1>1. PICK third : third = (p.w - 2 * p.m) \div 3
  OBVIOUS
<1>2. G!Engineering(p) = {G!Line(p.m, p.m, p.m + (p.w - 2 * p.m), p.m + 360), G!Line(p.m + third, p.m, p.m + third, p.m + 360),
                          G!Line(p.m + 2 * third, p.m, p.m + 2 * third, p.m + 360)}
                           \cup G!Grid(p, G!Box(p.m, p.m + 360 + 120, p.w - p.m, p.h - p.m))
  BY <1>1 DEF G!Engineering, G!Rect, G!Line, G!Pt
<1>3. /\ p.m \in 0 .. p.w /\ p.m \in 0 .. p.h /\ p.m + (p.w - 2 * p.m) \in 0 .. p.w /\ p.m + 360 \in 0 .. p.h
      /\ p.m + third \in 0 .. p.w /\ p.m + 2 * third \in 0 .. p.w
      /\ p.m + 360 + 120 \in 0 .. p.h /\ p.w - p.m \in 0 .. p.w /\ p.h - p.m \in 0 .. p.h
  BY <1>1 DEF Sized
<1> QED
  BY <1>2, <1>3, OnPage, GridOnPage

LEMMA CalligraphyOnPage == ASSUME NEW p, Sized(p) PROVE G!CalligraphySlants(p) \subseteq PageOf(p)
<1> DEFINE reach == (11 * p.s * 1000) \div 1428
           band(y) == G!Box(p.m, y, p.w - p.m, y + 11 * p.s)
           xs == G!Steps(p.m - reach, 4 * p.s, p.w - p.m)
           ys == G!Steps(p.m, 13 * p.s, p.h - p.m - 11 * p.s)
           rules(y) == {G!Line(p.m, y + i * p.s, p.w - p.m, y + i * p.s) : i \in {0, 3, 8, 11}}
           slants(y) == UNION {G!ClipSegment(x, y + 11 * p.s, x + reach, y, band(y)) : x \in xs}
<1>1. G!CalligraphySlants(p) = UNION {rules(y) \cup slants(y) : y \in ys}
  BY DEF G!CalligraphySlants
<1>2. /\ p.w \in Nat /\ p.h \in Nat /\ p.m \in Nat /\ p.s \in Nat \ {0} /\ reach \in Int
      /\ p.m \in 0 .. p.w /\ p.w - p.m \in 0 .. p.w /\ p.m - reach \in Int /\ p.w - p.m \in Int
      /\ 4 * p.s \in Nat \ {0} /\ 13 * p.s \in Nat \ {0} /\ p.h - p.m - 11 * p.s \in Int
  BY DEF Sized
<1> HIDE DEF reach
<1>3. \A y \in ys : y \in p.m .. p.h - p.m - 11 * p.s
  BY <1>2, StepsWithin
<1>4. \A x \in xs : x \in Int
  <2>1. \A x \in xs : x \in p.m - reach .. p.w - p.m
    BY <1>2, StepsWithin
  <2> QED
    BY <2>1
<1> HIDE DEF xs, ys
<1>5. ASSUME NEW y \in ys PROVE rules(y) \cup slants(y) \subseteq PageOf(p)
  <2>1. y \in Int /\ y + 11 * p.s \in Int /\ y \in 0 .. p.h /\ y + 11 * p.s \in 0 .. p.h /\ y + 11 * p.s <= p.h - p.m
    BY <1>2, <1>3, <1>5
  <2>2. \A i \in {0, 3, 8, 11} : y + i * p.s \in 0 .. p.h
    BY <1>2, <2>1
  <2>3. rules(y) \subseteq PageOf(p)
    BY <1>2, <2>2, OnPage
  <2>4. \A x \in xs : G!ClipSegment(x, y + 11 * p.s, x + reach, y, band(y)) \subseteq Sheet(p.m, y, p.w - p.m, y + 11 * p.s)
    <3> SUFFICES ASSUME NEW x \in xs
                 PROVE G!ClipSegment(x, y + 11 * p.s, x + reach, y, band(y)) \subseteq Sheet(p.m, y, p.w - p.m, y + 11 * p.s)
      OBVIOUS
    <3>1. x \in Int /\ x + reach \in Int /\ p.m \in Int
      BY <1>2, <1>4
    <3> QED
      BY <1>2, <2>1, <3>1, ClipWithin
  <2>5. Sheet(p.m, y, p.w - p.m, y + 11 * p.s) \subseteq PageOf(p)
    BY <1>2, <2>1, SheetWithin DEF PageOf
  <2> HIDE DEF band
  <2>6. slants(y) \subseteq PageOf(p)
    BY <2>4, <2>5
  <2> QED
    BY <2>3, <2>6
<1> HIDE DEF rules, slants
<1> QED
  BY <1>1, <1>5

-----------------------------------------------------------------------------
\* The templates with parts, which need room.

\* A page that is not smaller than an A6, with the spacing and the margin a template with parts starts with.
Roomy(p) == /\ Sized(p) /\ p.s <= 221 /\ 350 <= p.m /\ p.m <= 430
            /\ 2976 <= p.w /\ 2976 <= p.h /\ (4195 <= p.w \/ 4195 <= p.h)

\* One lemma for each of the templates with parts.
LEMMA StavesOnPage == ASSUME NEW p, Roomy(p) PROVE G!MusicStaff(p) \subseteq PageOf(p)
<1> DEFINE stave(staff, block, top) ==
             LET y == top + staff * block
             IN {G!Line(p.m, y + i * p.s, p.w - p.m, y + i * p.s) : i \in 0..4}
                  \cup {G!Line(x, y, x, y + 4 * p.s) : x \in {p.m, p.w - p.m}}
<1> DEFINE room == p.h - 2 * p.m
           staves == G!Max({1, (room + 6 * p.s) \div (10 * p.s)})
           topmost == p.m + (room - (staves * (10 * p.s) - 6 * p.s)) \div 2
<1>0. G!MusicStaff(p) = UNION {stave(staff, 10 * p.s, topmost) : staff \in 0 .. staves - 1}
  BY DEF G!MusicStaff
<1> HIDE DEF stave
<1>10. PICK available, block : available = p.h - 2 * p.m /\ block = 10 * p.s
  OBVIOUS
<1> HIDE DEF staves
<1>11. PICK count : count = staves /\ count = G!Max({1, (available + 6 * p.s) \div block})
  BY <1>10 DEF staves
<1>12. PICK top : top = p.m + (available - (count * block - 6 * p.s)) \div 2 /\ top = topmost
  BY <1>10, <1>11
<1> HIDE DEF topmost
<1>1. G!MusicStaff(p) = UNION {stave(staff, block, top) : staff \in 0 .. count - 1}
  BY <1>0, <1>10, <1>11, <1>12
<1>2. Sized(p) /\ p.w \in Nat /\ p.h \in Nat /\ p.s \in Nat \ {0} /\ p.m \in Nat /\ p.m \in 0 .. p.w /\ p.w - p.m \in 0 .. p.w
  BY DEF Roomy, Sized
<1>3. /\ available \in Nat /\ block \in Nat \ {0} /\ block <= available + 6 * p.s /\ available + 2 * p.m <= p.h
      /\ available + 6 * p.s \in Int /\ 6 * p.s <= block /\ block = 4 * p.s + 6 * p.s
  BY <1>10 DEF Roomy, Sized
<1>4. PICK q : q = (available + 6 * p.s) \div block
  OBVIOUS
<1>5. q \in Int /\ block * q \in Int /\ block * q <= available + 6 * p.s /\ available + 6 * p.s < block * q + block
  BY <1>3, <1>4, DividedDown
<1>6. 1 <= q
  <2>1. block * 1 < block * q + block
    BY <1>2, <1>3, <1>5
  <2> QED
    BY <1>3, <1>5, <2>1, Factor
<1>7. count = q
  BY <1>4, <1>5, <1>6, <1>11, MaxOfPair
<1>8. PICK high \in Nat : high = count * block - 6 * p.s /\ high <= available
  <2>1. block * q = q * block
    BY <1>3, <1>5
  <2>2. block <= block * q
    <3>1. PICK k \in Nat : q = 1 + k
      <4>1. q - 1 \in Nat /\ q = 1 + (q - 1)
        BY <1>5, <1>6
      <4> QED
        BY <4>1
    <3>2. block * q = block + block * k /\ block * k \in Nat
      BY <1>3, <3>1
    <3> QED
      BY <1>3, <3>2
  <2> QED
    BY <1>2, <1>3, <1>5, <1>7, <2>1, <2>2
<1>9. top \in Nat /\ top + high <= p.h
  BY <1>2, <1>3, <1>8, <1>12
<1>13. ASSUME NEW staff \in 0 .. count - 1 PROVE stave(staff, block, top) \subseteq PageOf(p)
  <2>1. PICK k \in Nat : count = staff + 1 + k
    <3>1. count - staff - 1 \in Nat /\ count = staff + 1 + (count - staff - 1)
      BY <1>5, <1>7
    <3> QED
      BY <3>1
  <2>2. staff \in Nat /\ staff * block \in Nat /\ k * block \in Nat /\ count * block = staff * block + block + k * block
    BY <1>3, <2>1
  <2>3. staff * block + 4 * p.s <= high
    BY <1>2, <1>3, <1>8, <2>2
  <2>4. PICK y : y = top + staff * block
    OBVIOUS
  <2>5. \A i \in 0..4 : y + i * p.s \in 0 .. p.h
    <3> SUFFICES ASSUME NEW i \in 0..4 PROVE y + i * p.s \in 0 .. p.h
      OBVIOUS
    <3>1. i = 0 \/ i = 1 \/ i = 2 \/ i = 3 \/ i = 4
      OBVIOUS
    <3>2. i * p.s \in 0 .. 4 * p.s
      BY <1>2, <3>1
    <3> QED
      BY <1>2, <1>9, <2>2, <2>3, <2>4, <3>2
  <2>6. y \in 0 .. p.h /\ y + 4 * p.s \in 0 .. p.h
    BY <1>2, <1>9, <2>2, <2>3, <2>4
  <2>7. {G!Line(p.m, y + i * p.s, p.w - p.m, y + i * p.s) : i \in 0..4} \subseteq PageOf(p)
    BY <1>2, <2>5, OnPage
  <2>8. {G!Line(x, y, x, y + 4 * p.s) : x \in {p.m, p.w - p.m}} \subseteq PageOf(p)
    BY <1>2, <2>6, OnPage
  <2> QED
    BY <2>4, <2>7, <2>8 DEF stave
<1> QED
  BY <1>1, <1>13

LEMMA CornellOnPage == ASSUME NEW p, Roomy(p) PROVE G!Cornell(p) \subseteq PageOf(p)
<1>1. PICK header, cue, summary, size : /\ header = p.m + 2 * p.s /\ cue = (3 * p.w) \div 10 /\ summary = (4 * p.h) \div 5
                                        /\ size = G!Max({G!Pt(6), (35 * p.s) \div 100})
  OBVIOUS
<1>2. G!Cornell(p) =
        G!HorizontalRules(p, header + p.s, summary - p.s \div 2, 0, p.w)
          \cup G!HorizontalRules(p, summary + p.s, p.h - p.m, 0, p.w)
          \cup {G!Line(0, header, p.w, header), G!Line(cue, header, cue, summary), G!Line(0, summary, p.w, summary),
                G!Dot(p.m, header - 60), G!Dot(p.m, header + size + 30), G!Dot(cue + 60, header + size + 30),
                G!Dot(p.m, summary + size + 30)}
  BY <1>1 DEF G!Cornell, G!Pt
<1>3. Sized(p) /\ p.w \in Nat /\ p.h \in Nat /\ p.s \in Nat /\ p.m \in Nat /\ 20 <= p.s /\ p.s <= 221 /\ p.m <= 430
      /\ 2976 <= p.w /\ 2976 <= p.h
  BY DEF Roomy, Sized
<1>4. size \in 60 .. 78
  <2>1. PICK n \in 0 .. 78 : n = (35 * p.s) \div 100
    BY <1>3
  <2>2. G!Max({60, n}) = IF 60 <= n THEN n ELSE 60
    BY MaxOfPair
  <2>3. size = G!Max({60, n})
    BY <1>1, <2>1 DEF G!Pt
  <2> QED
    BY <2>1, <2>2, <2>3
<1>5. /\ header \in 0 .. p.h /\ cue \in 0 .. p.w /\ summary \in 0 .. p.h /\ cue + 60 \in 0 .. p.w
      /\ p.m \in 0 .. p.w /\ 0 \in 0 .. p.w /\ p.w \in 0 .. p.w
  BY <1>1, <1>3
<1>6. header - 60 \in 0 .. p.h /\ header + size + 30 \in 0 .. p.h /\ summary + size + 30 \in 0 .. p.h
  BY <1>1, <1>3, <1>4 DEF Roomy
<1>7. G!HorizontalRules(p, header + p.s, summary - p.s \div 2, 0, p.w) \subseteq PageOf(p)
  <2>1. header + p.s \in Nat /\ summary - p.s \div 2 \in Int /\ summary - p.s \div 2 <= p.h
    BY <1>1, <1>3
  <2> QED
    BY <1>3, <1>5, <2>1, RulesOnPage
<1>8. G!HorizontalRules(p, summary + p.s, p.h - p.m, 0, p.w) \subseteq PageOf(p)
  <2>1. summary + p.s \in Nat /\ p.h - p.m \in Int /\ p.h - p.m <= p.h
    BY <1>1, <1>3
  <2> QED
    BY <1>3, <1>5, <2>1, RulesOnPage
<1>9. {G!Line(0, header, p.w, header), G!Line(cue, header, cue, summary), G!Line(0, summary, p.w, summary)} \subseteq PageOf(p)
  BY <1>3, <1>5, OnPage
<1>10. {G!Dot(p.m, header - 60), G!Dot(p.m, header + size + 30), G!Dot(cue + 60, header + size + 30),
        G!Dot(p.m, summary + size + 30)} \subseteq PageOf(p)
  BY <1>3, <1>5, <1>6, OnPage
<1> QED
  BY <1>2, <1>7, <1>8, <1>9, <1>10

LEMMA DailyOnPage == ASSUME NEW p, Roomy(p) PROVE G!PlannerDaily(p) \subseteq PageOf(p)
<1> DEFINE headerY == p.m + 280
           split == p.m + (62 * (p.w - 2 * p.m)) \div 100
           top == headerY + 120
           slot(i) == top + (i * (p.h - p.m - top)) \div 14
           right == split + 120
           task(i) == top + 220 + i * p.s
           notes == task(6) + 180
           hour(i) == {G!Line(p.m + 300, (slot(i) + slot(i + 1)) \div 2, split - 80, (slot(i) + slot(i + 1)) \div 2),
                       G!Dot(p.m, slot(i) + 100)}
           box(i) == {G!Line(right, task(i) - 80, right + 80, (task(i) - 80) + 80),
                      G!Line(right + 140, task(i), p.w - p.m, task(i))}
<1>1. G!PlannerDaily(p) =
        {G!Dot(p.m, p.m + 140), G!Line(p.m, headerY, p.w - p.m, headerY), G!Line(split, headerY + 80, split, p.h - p.m)}
          \cup {G!Line(p.m, slot(i), split - 80, slot(i)) : i \in 0..14}
          \cup (UNION {hour(i) : i \in 0..13})
          \cup {G!Dot(right, top + 80), G!Dot(right, notes)}
          \cup (UNION {box(i) : i \in 0..5})
          \cup G!HorizontalRules(p, notes + p.s, p.h - p.m, right, p.w - p.m)
  BY DEF G!PlannerDaily, G!Pt, G!Rect, G!Line
<1>2. /\ Sized(p) /\ p.w \in Nat /\ p.h \in Nat /\ p.s \in Nat /\ p.m \in Nat /\ 20 <= p.s /\ p.s <= 221
      /\ 350 <= p.m /\ p.m <= 430 /\ 2976 <= p.w /\ 2976 <= p.h
  BY DEF Roomy, Sized
<1>3. /\ p.m \in 0 .. p.w /\ p.m + 140 \in 0 .. p.h /\ headerY \in 0 .. p.h /\ p.w - p.m \in 0 .. p.w /\ split \in 0 .. p.w
      /\ headerY + 80 \in 0 .. p.h /\ p.h - p.m \in 0 .. p.h /\ split - 80 \in 0 .. p.w /\ p.m + 300 \in 0 .. p.w
      /\ right \in 0 .. p.w /\ right + 80 \in 0 .. p.w /\ right + 140 \in 0 .. p.w /\ top + 80 \in 0 .. p.h
  BY <1>2
<1>4. \A i \in 0..14 : slot(i) \in 0 .. p.h - p.m
  <2>1. PICK d \in Nat : d = p.h - p.m - top
    BY <1>2
  <2>2. Shares(14, d)
    BY <2>1, SharesBetween
  <2>3. \A i \in 0..14 : Share(i, 14, d) \in 0 .. d
    BY <2>1, <2>2 DEF Shares
  <2>4. \A i : slot(i) = top + Share(i, 14, d)
    BY <2>1 DEF Share
  <2>5. top \in Nat /\ top + d = p.h - p.m
    BY <1>2, <2>1
  <2> HIDE DEF slot, top
  <2> QED
    BY <2>1, <2>3, <2>4, <2>5
<1>5. ASSUME NEW i \in 0..6 PROVE task(i) \in 80 .. p.h - 180 /\ task(i) - 80 \in 0 .. p.h /\ (task(i) - 80) + 80 \in 0 .. p.h
  <2>1. i * p.s \in 0 .. 6 * p.s
    <3>1. i = 0 \/ i = 1 \/ i = 2 \/ i = 3 \/ i = 4 \/ i = 5 \/ i = 6
      OBVIOUS
    <3> QED
      BY <1>2, <3>1
  <2> QED
    BY <1>2, <2>1
<1>6. task(6) \in 80 .. p.h - 180
  BY <1>5
<1>7. notes \in 0 .. p.h /\ notes + p.s \in Nat
  BY <1>2, <1>6
<1> HIDE DEF headerY, split, top, slot, right, task, notes
<1>8. {G!Dot(p.m, p.m + 140), G!Line(p.m, headerY, p.w - p.m, headerY), G!Line(split, headerY + 80, split, p.h - p.m)} \subseteq PageOf(p)
  BY <1>2, <1>3, OnPage
<1>9. {G!Line(p.m, slot(i), split - 80, slot(i)) : i \in 0..14} \subseteq PageOf(p)
  <2>1. \A i \in 0..14 : slot(i) \in 0 .. p.h
    BY <1>2, <1>4
  <2>2. Sized(p) /\ p.m \in 0 .. p.w /\ split - 80 \in 0 .. p.w
    BY <1>2, <1>3
  <2> QED
    BY <2>1, <2>2, OnPage
<1>10. ASSUME NEW i \in 0..13 PROVE hour(i) \subseteq PageOf(p)
  <2>1. slot(i) \in 0 .. p.h - p.m /\ slot(i + 1) \in 0 .. p.h - p.m
    BY <1>4
  <2>2. (slot(i) + slot(i + 1)) \div 2 \in 0 .. p.h /\ slot(i) + 100 \in 0 .. p.h
    BY <1>2, <2>1
  <2> QED
    BY <1>2, <1>3, <2>2, OnPage
<1>11. {G!Dot(right, top + 80), G!Dot(right, notes)} \subseteq PageOf(p)
  BY <1>2, <1>3, <1>7, OnPage
<1>12. ASSUME NEW i \in 0..5 PROVE box(i) \subseteq PageOf(p)
  <2>1. task(i) \in 0 .. p.h /\ task(i) - 80 \in 0 .. p.h /\ (task(i) - 80) + 80 \in 0 .. p.h
    BY <1>2, <1>5
  <2>2. Sized(p) /\ right \in 0 .. p.w /\ right + 80 \in 0 .. p.w
    BY <1>2, <1>3
  <2>3. right + 140 \in 0 .. p.w /\ p.w - p.m \in 0 .. p.w
    BY <1>3
  <2>4. G!Line(right, task(i) - 80, right + 80, (task(i) - 80) + 80) \in PageOf(p)
    BY <2>1, <2>2, OnPage
  <2>5. G!Line(right + 140, task(i), p.w - p.m, task(i)) \in PageOf(p)
    BY <2>1, <2>2, <2>3, OnPage
  <2> QED
    BY <2>4, <2>5
<1>13. G!HorizontalRules(p, notes + p.s, p.h - p.m, right, p.w - p.m) \subseteq PageOf(p)
  <2>1. Sized(p) /\ p.h - p.m \in Int /\ p.h - p.m <= p.h
    BY <1>2
  <2>2. right \in 0 .. p.w /\ p.w - p.m \in 0 .. p.w /\ notes + p.s \in Nat
    BY <1>3, <1>7
  <2> QED
    BY <2>1, <2>2, RulesOnPage
<1> HIDE DEF hour, box
<1>14. UNION {hour(i) : i \in 0..13} \subseteq PageOf(p)
  BY <1>10
<1>15. UNION {box(i) : i \in 0..5} \subseteq PageOf(p)
  BY <1>12
<1> QED
  BY <1>1, <1>8, <1>9, <1>11, <1>13, <1>14, <1>15

LEMMA WeekOnPage == ASSUME NEW p, Roomy(p) PROVE G!PlannerWeekly(p) \subseteq PageOf(p)
<1> DEFINE top == p.m + 280
           cw == (p.w - 2 * p.m - 100) \div 2
           ch == (p.h - p.m - top - 400) \div 4
           left(i) == p.m + (i % 2) * (cw + 100)
           upper(i) == top + 100 + (i \div 2) * (ch + 100)
           rules(i) == {G!Line(left(i) + 60, ly, left(i) + cw - 60, ly) :
                          ly \in G!Steps(upper(i) + 200 + p.s, p.s, upper(i) + ch - 40 - 1)}
           day(i) == {G!Line(left(i), upper(i), left(i) + cw, upper(i) + ch), G!Dot(left(i) + 60, upper(i) + 130)} \cup rules(i)
<1>1. G!PlannerWeekly(p) = {G!Dot(p.m, p.m + 140), G!Line(p.m, top, p.w - p.m, top)} \cup UNION {day(i) : i \in 0..7}
  BY DEF G!PlannerWeekly, G!Pt, G!Rect, G!Line
<1>2. /\ Sized(p) /\ p.w \in Nat /\ p.h \in Nat /\ p.s \in Nat \ {0} /\ p.m \in Nat /\ 20 <= p.s /\ p.s <= 221
      /\ 350 <= p.m /\ p.m <= 430 /\ 2976 <= p.w /\ 2976 <= p.h
  BY DEF Roomy, Sized
<1>3. p.m \in 0 .. p.w /\ p.m + 140 \in 0 .. p.h /\ top \in 0 .. p.h /\ p.w - p.m \in 0 .. p.w
  BY <1>2
<1>4. cw \in Nat /\ 500 <= cw /\ p.m + 2 * cw + 100 <= p.w - p.m
  BY <1>2
<1>5. ch \in Nat /\ 300 <= ch /\ top + 400 + 4 * ch <= p.h - p.m /\ top \in Nat
  BY <1>2
<1>6. ASSUME NEW i \in 0..7 PROVE left(i) \in Nat /\ left(i) + cw <= p.w /\ upper(i) \in Nat /\ upper(i) + ch <= p.h
  <2>1. i % 2 = 0 \/ i % 2 = 1
    BY <1>6
  <2>2. i \div 2 = 0 \/ i \div 2 = 1 \/ i \div 2 = 2 \/ i \div 2 = 3
    BY <1>6
  <2>3. (i % 2) * (cw + 100) \in 0 .. cw + 100
    BY <1>4, <2>1
  <2>4. (i \div 2) * (ch + 100) \in 0 .. 3 * ch + 300
    BY <1>5, <2>2
  <2> HIDE DEF cw, ch, top
  <2>5. left(i) \in Nat /\ left(i) + cw <= p.w
    BY <1>2, <1>4, <2>3
  <2>6. upper(i) \in Nat /\ upper(i) + ch <= p.h
    BY <1>2, <1>5, <2>4
  <2> QED
    BY <2>5, <2>6
<1> HIDE DEF top, cw, ch, left, upper
<1>7. ASSUME NEW i \in 0..7 PROVE day(i) \subseteq PageOf(p)
  <2>1. PICK l, u : l = left(i) /\ u = upper(i)
    OBVIOUS
  <2>2. l \in Nat /\ u \in Nat /\ l + cw <= p.w /\ u + ch <= p.h
    BY <1>6, <2>1
  <2>3. /\ l \in 0 .. p.w /\ l + cw \in 0 .. p.w /\ l + 60 \in 0 .. p.w /\ l + cw - 60 \in 0 .. p.w
        /\ u \in 0 .. p.h /\ u + ch \in 0 .. p.h /\ u + 130 \in 0 .. p.h
    BY <1>2, <1>4, <1>5, <2>2
  <2>4. {G!Line(l, u, l + cw, u + ch), G!Dot(l + 60, u + 130)} \subseteq PageOf(p)
    BY <1>2, <2>3, OnPage
  <2>5. \A ly \in G!Steps(u + 200 + p.s, p.s, u + ch - 40 - 1) : ly \in 0 .. p.h
    <3>1. u + 200 + p.s \in Int /\ u + ch - 40 - 1 \in Int
      BY <1>2, <1>5, <2>2
    <3>2. \A ly \in G!Steps(u + 200 + p.s, p.s, u + ch - 40 - 1) : ly \in u + 200 + p.s .. u + ch - 40 - 1
      BY <1>2, <3>1, StepsWithin
    <3> QED
      BY <1>2, <1>5, <2>2, <3>2
  <2>6. {G!Line(l + 60, ly, l + cw - 60, ly) : ly \in G!Steps(u + 200 + p.s, p.s, u + ch - 40 - 1)} \subseteq PageOf(p)
    BY <1>2, <2>3, <2>5, OnPage
  <2> QED
    BY <2>1, <2>4, <2>6
<1>8. {G!Dot(p.m, p.m + 140), G!Line(p.m, top, p.w - p.m, top)} \subseteq PageOf(p)
  BY <1>2, <1>3, OnPage
<1> HIDE DEF day
<1> QED
  BY <1>1, <1>7, <1>8

LEMMA FramesOnPage == ASSUME NEW p, Roomy(p), p.w <= 4 * p.h + 3 PROVE G!Storyboard(p) \subseteq PageOf(p)
<1> DEFINE cols == IF p.w > p.h THEN 3 ELSE 2
           cw == (p.w - 2 * p.m - (cols - 1) * 180) \div cols
           frame == (9 * cw) \div 16
           rowH == frame + 80 + 2 * p.s + 180
           rows == G!Max({1, (p.h - 2 * p.m + 180) \div rowH})
           panel(r, k, fw, fh, rh) ==
             LET x == p.m + k * (fw + 180)
                 y == p.m + r * rh
             IN {G!Line(x, y, x + fw, y + fh), G!Dot(x + 50, y + 110)}
                  \cup {G!Line(x, y + fh + 80 + i * p.s, x + fw, y + fh + 80 + i * p.s) : i \in 1..2}
<1>1. G!Storyboard(p) = UNION {panel(r, k, cw, frame, rowH) : r \in 0 .. rows - 1, k \in 0 .. cols - 1}
  BY DEF G!Storyboard, G!Pt, G!Rect, G!Line
<1>2. /\ Sized(p) /\ p.w \in Nat /\ p.h \in Nat /\ p.s \in Nat \ {0} /\ p.m \in Nat /\ 20 <= p.s /\ p.s <= 221
      /\ 350 <= p.m /\ p.m <= 430 /\ 2976 <= p.w /\ 2976 <= p.h
  BY DEF Roomy, Sized
<1> HIDE DEF panel, cols, cw, frame, rowH, rows
<1>3. PICK n : n = cols
  OBVIOUS
<1>4. PICK fw : fw = (p.w - 2 * p.m - (n - 1) * 180) \div n /\ fw = cw
  BY <1>3 DEF cw
<1>5. PICK fh : fh = (9 * fw) \div 16 /\ fh = frame
  BY <1>4 DEF frame
<1>6. PICK rh : rh = fh + 80 + 2 * p.s + 180 /\ rh = rowH
  BY <1>5 DEF rowH
<1>7. PICK m : m = G!Max({1, (p.h - 2 * p.m + 180) \div rh}) /\ m = rows
  BY <1>6 DEF rows
<1>9. (n = 3 /\ p.h < p.w) \/ (n = 2 /\ p.w <= p.h)
  BY <1>2, <1>3 DEF cols
<1>10. fw \in Nat /\ 500 <= fw /\ n * fw + (n - 1) * 180 <= p.w - 2 * p.m
  BY <1>2, <1>4, <1>9
<1>11. fh \in Nat /\ 200 <= fh /\ 16 * fh <= 9 * fw
  BY <1>5, <1>10
<1>12. fh + 80 + 2 * p.s + p.m <= p.h
  BY <1>2, <1>9, <1>10, <1>11
<1>13. rh \in Nat \ {0}
  BY <1>2, <1>6, <1>11
<1>14. PICK q : q = (p.h - 2 * p.m + 180) \div rh
  OBVIOUS
<1>15. q \in Int /\ rh * q \in Int /\ rh * q <= p.h - 2 * p.m + 180
  <2>1. p.h - 2 * p.m + 180 \in Int
    BY <1>2
  <2> QED
    BY <1>13, <1>14, <2>1, DividedDown
<1>16. m \in Nat /\ m * rh \in Nat /\ p.m + m * rh - 180 <= p.h
  <2>1. m = IF 1 <= q THEN q ELSE 1
    <3>1. G!Max({1, q}) = IF 1 <= q THEN q ELSE 1
      BY <1>15, MaxOfPair
    <3> QED
      BY <1>7, <1>14, <3>1
  <2>2. CASE m = 1
    BY <1>2, <1>6, <1>11, <1>12, <2>2
  <2>3. CASE m = q /\ 1 <= q
    <3>1. m \in Nat /\ m * rh \in Nat /\ m * rh = rh * q
      BY <1>13, <1>15, <2>3
    <3> QED
      BY <1>2, <1>15, <3>1
  <2> QED
    BY <1>15, <2>1, <2>2, <2>3
<1>17. ASSUME NEW r \in 0 .. m - 1 PROVE r * rh \in Nat /\ p.m + r * rh + fh + 80 + 2 * p.s <= p.h
  <2>1. PICK k \in Nat : m = r + 1 + k
    <3>1. m - r - 1 \in Nat /\ m = r + 1 + (m - r - 1)
      BY <1>16
    <3> QED
      BY <3>1
  <2>2. r \in Nat /\ r * rh \in Nat /\ k * rh \in Nat /\ m * rh = r * rh + rh + k * rh
    BY <1>13, <2>1
  <2> QED
    BY <1>2, <1>6, <1>11, <1>16, <2>2
<1>18. ASSUME NEW k \in 0 .. n - 1 PROVE k * (fw + 180) \in Nat /\ p.m + k * (fw + 180) + fw <= p.w
  <2>1. k = 0 \/ k = 1 \/ (k = 2 /\ n = 3)
    BY <1>9
  <2> QED
    BY <1>2, <1>9, <1>10, <2>1
<1>19. ASSUME NEW r \in 0 .. m - 1, NEW k \in 0 .. n - 1 PROVE panel(r, k, fw, fh, rh) \subseteq PageOf(p)
  <2>1. PICK x, y : x = p.m + k * (fw + 180) /\ y = p.m + r * rh
    OBVIOUS
  <2>2. x \in Nat /\ x + fw <= p.w /\ y \in Nat /\ y + fh + 80 + 2 * p.s <= p.h
    BY <1>2, <1>17, <1>18, <2>1
  <2>3. /\ x \in 0 .. p.w /\ x + fw \in 0 .. p.w /\ x + 50 \in 0 .. p.w
        /\ y \in 0 .. p.h /\ y + fh \in 0 .. p.h /\ y + 110 \in 0 .. p.h
    BY <1>2, <1>10, <1>11, <2>2
  <2>4. \A i \in 1..2 : y + fh + 80 + i * p.s \in 0 .. p.h
    <3> SUFFICES ASSUME NEW i \in 1..2 PROVE y + fh + 80 + i * p.s \in 0 .. p.h
      OBVIOUS
    <3>1. i = 1 \/ i = 2
      OBVIOUS
    <3> QED
      BY <1>2, <1>11, <2>2, <3>1
  <2>5. {G!Line(x, y, x + fw, y + fh), G!Dot(x + 50, y + 110)} \subseteq PageOf(p)
    BY <1>2, <2>3, OnPage
  <2>6. {G!Line(x, y + fh + 80 + i * p.s, x + fw, y + fh + 80 + i * p.s) : i \in 1..2} \subseteq PageOf(p)
    BY <1>2, <2>3, <2>4, OnPage
  <2> QED
    BY <2>1, <2>5, <2>6 DEF panel
<1>20. \A r \in 0 .. rows - 1, k \in 0 .. cols - 1 : panel(r, k, cw, frame, rowH) \subseteq PageOf(p)
  BY <1>3, <1>4, <1>5, <1>6, <1>7, <1>19
<1> QED
  BY <1>1, <1>20

-----------------------------------------------------------------------------
\* Each template by its name.

\* What the smallest of three is.
LEMMA SmallestOfThree == ASSUME NEW x \in Nat, NEW y \in Nat, NEW z \in Nat
                         PROVE /\ G!Min({x, y, z}) \in Nat
                               /\ G!Min({x, y, z}) <= x /\ G!Min({x, y, z}) <= y /\ G!Min({x, y, z}) <= z
                               /\ x <= y /\ x <= z => G!Min({x, y, z}) = x
<1>1. \E v \in {x, y, z} : \A u \in {x, y, z} : v <= u
  <2>1. CASE x <= y /\ x <= z
    BY <2>1
  <2>2. CASE y <= x /\ y <= z
    BY <2>2
  <2>3. CASE z <= x /\ z <= y
    BY <2>3
  <2> QED
    BY <2>1, <2>2, <2>3
<1>2. PICK v : v = G!Min({x, y, z})
  OBVIOUS
<1>3. v \in {x, y, z} /\ \A u \in {x, y, z} : v <= u
  BY <1>1, <1>2 DEF G!Min
<1> QED
  BY <1>2, <1>3

\* The templates whose parts need no room are drawn on the page at any size, spacing and margin.
LEMMA CommandsOnPage ==
  ASSUME NEW w \in Nat, NEW h \in Nat, NEW s \in Nat, NEW margin \in Nat, NEW pattern,
         720 <= w, 720 <= h, 20 <= s, pattern \in TemplateNames \ G!NeedRoom
  PROVE G!PaperCommands(w, h, pattern, s, margin) \subseteq Sheet(0, 0, w, h)
<1>1. PICK p : p = [w |-> w, h |-> h, s |-> s, m |-> G!Min({margin, w \div 3, h \div 3})]
  OBVIOUS
<1>2. Sized(p)
  <2>1. PICK y, z : y = w \div 3 /\ z = h \div 3
    OBVIOUS
  <2>2. y \in Nat /\ z \in Nat /\ 3 * y <= w /\ 3 * z <= h
    BY <2>1
  <2>3. p.m \in Nat /\ p.m <= y /\ p.m <= z
    BY <1>1, <2>1, <2>2, SmallestOfThree
  <2> QED
    BY <1>1, <2>2, <2>3 DEF Sized
<1>3. PageOf(p) = Sheet(0, 0, w, h)
  BY <1>1 DEF PageOf
<1>4. \/ pattern = "blank" \/ pattern \in {"ruledCollege", "ruledWide", "ruledNarrow"} \/ pattern = "grid"
      \/ pattern = "dotGrid" \/ pattern = "isometric"
      \/ pattern = "hex" \/ pattern = "graphWithAxes" \/ pattern = "plannerMonthly" \/ pattern = "handwritingPractice"
      \/ pattern = "engineering" \/ pattern = "calligraphySlants"
  BY DEF TemplateNames, G!NeedRoom
<1>5. CASE pattern = "blank"
  BY <1>1, <1>5 DEF G!PaperCommands
<1>6. CASE pattern \in {"ruledCollege", "ruledWide", "ruledNarrow"}
  BY <1>1, <1>2, <1>3, <1>6, RuledOnPage DEF G!PaperCommands
<1>7. CASE pattern = "grid"
  BY <1>1, <1>2, <1>3, <1>7, InsetGridOnPage DEF G!PaperCommands
<1>8. CASE pattern = "dotGrid"
  BY <1>1, <1>2, <1>3, <1>8, DotsOnPage DEF G!PaperCommands
<1>9. CASE pattern = "isometric"
  BY <1>1, <1>2, <1>3, <1>9, IsometricOnPage DEF G!PaperCommands
<1>10. CASE pattern = "hex"
  BY <1>1, <1>2, <1>3, <1>10, HexOnPage DEF G!PaperCommands
<1>11. CASE pattern = "graphWithAxes"
  BY <1>1, <1>2, <1>3, <1>11, GraphOnPage DEF G!PaperCommands
<1>12. CASE pattern = "plannerMonthly"
  BY <1>1, <1>2, <1>3, <1>12, MonthOnPage DEF G!PaperCommands
<1>13. CASE pattern = "handwritingPractice"
  BY <1>1, <1>2, <1>3, <1>13, PracticeOnPage DEF G!PaperCommands
<1>14. CASE pattern = "engineering"
  BY <1>1, <1>2, <1>3, <1>14, EngineeringOnPage DEF G!PaperCommands
<1>15. CASE pattern = "calligraphySlants"
  BY <1>1, <1>2, <1>3, <1>15, CalligraphyOnPage DEF G!PaperCommands
<1> QED
  BY <1>4, <1>5, <1>6, <1>7, <1>8, <1>9, <1>10, <1>11, <1>12, <1>13, <1>14, <1>15

\* So are the others with the spacing and the margin they start with, on a page that is not smaller than an A6.
Ample(w, h, s, margin) == /\ w \in Nat /\ h \in Nat /\ s \in Nat /\ margin \in Nat
                          /\ 2976 <= w /\ 2976 <= h /\ (4195 <= w \/ 4195 <= h)
                          /\ 20 <= s /\ s <= 221 /\ 350 <= margin /\ margin <= 430

\* With room, each template with parts is drawn on the page.
LEMMA PartsOnPage ==
  ASSUME NEW w, NEW h, NEW s, NEW margin, NEW pattern, Ample(w, h, s, margin),
         pattern \in G!NeedRoom, pattern = "storyboard" => w <= 4 * h + 3
  PROVE G!PaperCommands(w, h, pattern, s, margin) \subseteq Sheet(0, 0, w, h)
<1>1. PICK p : p = [w |-> w, h |-> h, s |-> s, m |-> G!Min({margin, w \div 3, h \div 3})]
  OBVIOUS
<1>2. Roomy(p)
  <2>1. PICK y, z : y = w \div 3 /\ z = h \div 3
    OBVIOUS
  <2>2. y \in Nat /\ z \in Nat /\ margin \in Nat /\ margin <= y /\ margin <= z /\ 3 * margin <= w /\ 3 * margin <= h
    BY <2>1 DEF Ample
  <2>3. p.m = margin
    BY <1>1, <2>1, <2>2, SmallestOfThree
  <2> QED
    BY <1>1, <2>2, <2>3 DEF Roomy, Sized, Ample
<1>3. PageOf(p) = Sheet(0, 0, w, h) /\ p.w = w /\ p.h = h
  BY <1>1 DEF PageOf
<1>4. pattern = "musicStaff" \/ pattern = "cornell" \/ pattern = "plannerDaily" \/ pattern = "plannerWeekly" \/ pattern = "storyboard"
  BY DEF G!NeedRoom
<1>5. CASE pattern = "musicStaff"
  BY <1>1, <1>2, <1>3, <1>5, StavesOnPage DEF G!PaperCommands
<1>6. CASE pattern = "cornell"
  BY <1>1, <1>2, <1>3, <1>6, CornellOnPage DEF G!PaperCommands
<1>7. CASE pattern = "plannerDaily"
  BY <1>1, <1>2, <1>3, <1>7, DailyOnPage DEF G!PaperCommands
<1>8. CASE pattern = "plannerWeekly"
  BY <1>1, <1>2, <1>3, <1>8, WeekOnPage DEF G!PaperCommands
<1>9. CASE pattern = "storyboard"
  BY <1>1, <1>2, <1>3, <1>9, FramesOnPage DEF G!PaperCommands
<1> QED
  BY <1>4, <1>5, <1>6, <1>7, <1>8, <1>9

\* A result of a form, or a page of a template, with its marks: hundredths of a point.
LEMMA DrawnOnPage ==
  ASSUME NEW r, r.width \in Nat, r.height \in Nat, r.spacing \in Nat, r.margin \in Nat, 7200 <= r.width, 7200 <= r.height,
         200 <= r.spacing, r.template \in TemplateNames \ G!NeedRoom
  PROVE G!OnThePage(r)
<1>1. PICK w, h, s, n : w = r.width \div 10 /\ h = r.height \div 10 /\ s = r.spacing \div 10 /\ n = r.margin \div 10
  OBVIOUS
<1>2. w \in Nat /\ h \in Nat /\ s \in Nat /\ n \in Nat /\ 720 <= w /\ 720 <= h /\ 20 <= s
  BY <1>1
<1>3. G!PaperCommands(w, h, r.template, s, n) \subseteq Sheet(0, 0, w, h)
  BY <1>2, CommandsOnPage
<1>4. \A m \in Sheet(0, 0, w, h) : {m[1], m[3]} \subseteq 0 .. w /\ {m[2], m[4]} \subseteq 0 .. h
  BY DEF Sheet
<1> QED
  BY <1>1, <1>3, <1>4 DEF G!OnThePage

AmpleResult(r) ==
  /\ r.width \in Nat /\ r.height \in Nat /\ r.spacing \in Nat /\ r.margin \in Nat
  /\ 29764 <= r.width /\ 29764 <= r.height /\ (41953 <= r.width \/ 41953 <= r.height)
  /\ 200 <= r.spacing /\ r.spacing <= 2219 /\ 3580 <= r.margin /\ r.margin <= 4220

\* With room for its parts a result is drawn on the page, in tenths of a point.
LEMMA DrawnWithRoom ==
  ASSUME NEW r, AmpleResult(r), r.template \in G!NeedRoom, r.template = "storyboard" => r.width <= 4 * r.height
  PROVE G!OnThePage(r)
<1>1. PICK w, h, s, n : w = r.width \div 10 /\ h = r.height \div 10 /\ s = r.spacing \div 10 /\ n = r.margin \div 10
  OBVIOUS
<1>2. Ample(w, h, s, n)
  <2>1. r.width \in Nat /\ r.height \in Nat /\ r.spacing \in Nat /\ r.margin \in Nat
    BY DEF AmpleResult
  <2>2. w \in Nat /\ h \in Nat /\ s \in Nat /\ n \in Nat
    BY <1>1, <2>1
  <2>3. 2976 <= w /\ 2976 <= h /\ (4195 <= w \/ 4195 <= h)
    BY <1>1, SMT DEF AmpleResult
  <2>4. 20 <= s /\ s <= 221 /\ 350 <= n /\ n <= 430
    BY <1>1, SMT DEF AmpleResult
  <2> QED
    BY <2>2, <2>3, <2>4 DEF Ample
<1>3. r.template = "storyboard" => w <= 4 * h + 3
  <2>1. r.width \in Nat /\ r.height \in Nat
    BY DEF AmpleResult
  <2> QED
    BY <1>1, <2>1
<1>4. G!PaperCommands(w, h, r.template, s, n) \subseteq Sheet(0, 0, w, h)
  BY <1>2, <1>3, PartsOnPage
<1>5. \A m \in Sheet(0, 0, w, h) : {m[1], m[3]} \subseteq 0 .. w /\ {m[2], m[4]} \subseteq 0 .. h
  BY DEF Sheet
<1> QED
  BY <1>1, <1>4, <1>5 DEF G!OnThePage

-----------------------------------------------------------------------------
\* The presets are told apart by their sizes.

\* Half the way around a page names its preset, whichever way the page is turned: in steps of eight points.
Around(id) == G!Presets[id][1] + G!Presets[id][2]
Rank(id) == Around(id) \div 800

\* The ranks of the presets.
LEMMA RanksA == /\ Rank("a0") = 719
                /\ Rank("a1") = 508
                /\ Rank("a2") = 359
                /\ Rank("a3") = 254
                /\ Rank("a4") = 179
                /\ Rank("a5") = 126
                /\ Rank("a6") = 89
  BY SMT DEF Rank, Around, G!Presets, G!Mm, G!Inch

LEMMA RanksB == /\ Rank("b0") = 855
                /\ Rank("b1") = 604
                /\ Rank("b2") = 427
                /\ Rank("b3") = 302
                /\ Rank("b4") = 213
                /\ Rank("b5") = 150
                /\ Rank("b6") = 106
  BY SMT DEF Rank, Around, G!Presets, G!Mm, G!Inch

LEMMA RanksC == /\ Rank("c4") = 195
                /\ Rank("c5") = 138
                /\ Rank("c6") = 97
                /\ Rank("letter") = 175
                /\ Rank("legal") = 202
                /\ Rank("tabloid") = 252
                /\ Rank("executive") = 159
  BY SMT DEF Rank, Around, G!Presets, G!Mm, G!Inch

LEMMA RanksD == /\ Rank("indexCard") = 72
                /\ Rank("slide16x9") = 187
                /\ Rank("slide4x3") = 157
                /\ Rank("phone") = 154
  BY SMT DEF Rank, Around, G!Presets, G!Mm, G!Inch

\* So no two presets have neighbouring ranks.
Far(x) == \A id \in PresetNames : Rank(id) - Rank(x) \in -1 .. 1 => id = x

LEMMA PresetsApart == ASSUME NEW x \in PresetNames PROVE Far(x)
<1> USE SMT, RanksA, RanksB, RanksC, RanksD DEF Far, PresetNames
<1>1. Far("a0")
  OBVIOUS
<1>2. Far("a1")
  OBVIOUS
<1>3. Far("a2")
  OBVIOUS
<1>4. Far("a3")
  OBVIOUS
<1>5. Far("a4")
  OBVIOUS
<1>6. Far("a5")
  OBVIOUS
<1>7. Far("a6")
  OBVIOUS
<1>8. Far("b0")
  OBVIOUS
<1>9. Far("b1")
  OBVIOUS
<1>10. Far("b2")
  OBVIOUS
<1>11. Far("b3")
  OBVIOUS
<1>12. Far("b4")
  OBVIOUS
<1>13. Far("b5")
  OBVIOUS
<1>14. Far("b6")
  OBVIOUS
<1>15. Far("c4")
  OBVIOUS
<1>16. Far("c5")
  OBVIOUS
<1>17. Far("c6")
  OBVIOUS
<1>18. Far("letter")
  OBVIOUS
<1>19. Far("legal")
  OBVIOUS
<1>20. Far("tabloid")
  OBVIOUS
<1>21. Far("executive")
  OBVIOUS
<1>22. Far("indexCard")
  OBVIOUS
<1>23. Far("slide16x9")
  OBVIOUS
<1>24. Far("slide4x3")
  OBVIOUS
<1>25. Far("phone")
  OBVIOUS
<1> QED
  BY <1>1, <1>2, <1>3, <1>4, <1>5, <1>6, <1>7, <1>8, <1>9, <1>10, <1>11, <1>12, <1>13, <1>14, <1>15, <1>16, <1>17, <1>18, <1>19, <1>20,
     <1>21, <1>22, <1>23, <1>24, <1>25

-----------------------------------------------------------------------------
\* What the form made is read again.

\* A page of a preset's size, however it is turned, is named after that preset only.
LEMMA NamedAfter ==
  ASSUME NEW x \in PresetNames, NEW w, NEW h,
         (w = G!Presets[x][1] /\ h = G!Presets[x][2]) \/ (w = G!Presets[x][2] /\ h = G!Presets[x][1])
  PROVE G!MatchPreset(w, h) = {x}
<1> DEFINE near(m, n) == m - n \in -59 .. 59
           named(id) == (near(G!Presets[id][1], w) /\ near(G!Presets[id][2], h)) \/ (near(G!Presets[id][1], h) /\ near(G!Presets[id][2], w))
<1>1. \A id \in PresetNames : G!Presets[id][1] \in Nat /\ G!Presets[id][2] \in Nat
  BY PresetFits DEF Fits
<1>2. w \in Nat /\ h \in Nat /\ w + h = Around(x)
  BY <1>1 DEF Around
<1>3. G!MatchPreset(w, h) = {id \in PresetNames : named(id)}
  BY PresetFits DEF G!MatchPreset
<1>4. named(x)
  BY <1>1, <1>2
<1>5. ASSUME NEW id \in PresetNames, named(id) PROVE id = x
  <2>1. PICK m, n : m = Around(id) /\ n = Around(x)
    OBVIOUS
  <2>2. m \in Nat /\ n \in Nat /\ m - n \in -118 .. 118
    <3>1. PICK y, z : y = G!Presets[id][1] /\ z = G!Presets[id][2]
      OBVIOUS
    <3>2. y \in Nat /\ z \in Nat /\ m = y + z /\ n = w + h /\ w \in Nat /\ h \in Nat
      BY <1>1, <1>2, <2>1, <3>1 DEF Around
    <3>3. (near(y, w) /\ near(z, h)) \/ (near(y, h) /\ near(z, w))
      BY <1>5, <3>1
    <3> QED
      BY <3>2, <3>3
  <2>3. m \div 800 - n \div 800 \in -1 .. 1
    BY <2>2
  <2>4. Rank(id) - Rank(x) \in -1 .. 1
    BY <2>1, <2>3 DEF Rank
  <2> QED
    BY <2>4, PresetsApart DEF Far
<1> HIDE DEF named
<1> QED
  BY <1>3, <1>4, <1>5

\* A length of so many hundredths that is shown in tenths of a millimetre and read again is off by 15 at most.
ReadAgain(n) == G!Round2(G!ToPoints(G!Displayed(n), "mm"))

LEMMA ReadAgainIs == ASSUME NEW n \in Nat PROVE ReadAgain(n) \in Int /\ n - 15 <= ReadAgain(n) /\ ReadAgain(n) <= n + 15
<1>1. PICK d : d = (n * 127 + 1800) \div 3600
  OBVIOUS
<1>2. d \in Nat /\ 3600 * d <= n * 127 + 1800 /\ n * 127 + 1800 < 3600 * d + 3600
  BY <1>1
<1>3. ReadAgain(n) = (d * 7200 + 127) \div 254
  BY <1>1 DEF ReadAgain, G!Round2, G!ToPoints, G!Displayed, G!Exact, G!Unit
<1>4. PICK v : v = (d * 7200 + 127) \div 254
  OBVIOUS
<1>5. v \in Int /\ 254 * v <= d * 7200 + 127 /\ d * 7200 + 127 < 254 * v + 254
  BY <1>2, <1>4
<1> QED
  BY <1>2, <1>3, <1>4, <1>5

\* What a form that is right asks for.
LEMMA NotebookIs ==
  ASSUME NEW f \in FormRecords, NEW X \in SUBSET FormSizes, NEW v, v = G!NotebookSpec(f, X), v.ok
  PROVE /\ Fits(v.width) /\ Fits(v.height) /\ v.template = f.template /\ v.template \in TemplateNames
        /\ v.spacing \in Nat /\ 200 <= v.spacing /\ v.margin \in Nat
        /\ v.spacing = G!Round2(G!ToPoints(f.spacing, "mm")) /\ v.margin = G!Round2(G!ToPoints(f.margin, "mm"))
        /\ v.preset # "custom" => /\ v.preset \in PresetNames
                                  /\ \/ v.width = G!Presets[v.preset][1] /\ v.height = G!Presets[v.preset][2]
                                     \/ v.width = G!Presets[v.preset][2] /\ v.height = G!Presets[v.preset][1]
<1>1. PICK z : z = G!FormSize(f, X)
  OBVIOUS
<1>2. PICK s, m, o : s = G!ToPoints(f.spacing, "mm") /\ m = G!ToPoints(f.margin, "mm")
                     /\ o = G!Orient(<<z.width, z.height>>, f.orientation)
  OBVIOUS
<1>3. v = IF ~z.ok \/ None \in {f.spacing, f.margin, f.count} THEN G!Error
          ELSE IF s < 200 * G!Exact \/ s > 20000 * G!Exact THEN G!Error
          ELSE IF m < 0 \/ 3 * m > G!Min({z.width, z.height}) THEN G!Error
          ELSE IF f.count \notin 1..500 THEN G!Error
          ELSE [ok |-> TRUE, kind |-> "notebook", preset |-> z.preset, width |-> G!Round2(o[1]), height |-> G!Round2(o[2]),
                template |-> f.template, spacing |-> G!Round2(s), margin |-> G!Round2(m), count |-> f.count]
  BY <1>1, <1>2 DEF G!NotebookSpec
<1>4. ~ G!Error.ok
  BY DEF G!Error
<1>5. /\ z.ok /\ f.spacing # None /\ f.margin # None /\ ~ s < 200 * G!Exact /\ ~ m < 0 /\ f.count \in 1..500
      /\ v = [ok |-> TRUE, kind |-> "notebook", preset |-> z.preset, width |-> G!Round2(o[1]), height |-> G!Round2(o[2]),
              template |-> f.template, spacing |-> G!Round2(s), margin |-> G!Round2(m), count |-> f.count]
  BY <1>3, <1>4
<1>6. z.preset \in DOMAIN G!Presets \cup {"custom"} /\ FitsExactly(z.width) /\ FitsExactly(z.height)
  BY <1>1, <1>5, SizeFits
<1>7. o[1] \in {z.width, z.height} /\ o[2] \in {z.width, z.height} /\ (o[1] = z.width => o[2] = z.height) /\ (o[1] = z.height => o[2] = z.width)
  <2>1. PICK w, h : w = z.width /\ h = z.height
    OBVIOUS
  <2>2. w \in Int /\ h \in Int
    BY <1>6, <2>1 DEF FitsExactly
  <2>3. G!Min({w, h}) = (IF w <= h THEN w ELSE h) /\ G!Max({w, h}) = IF w <= h THEN h ELSE w
    BY <2>2, MinOfPair, MaxOfPair
  <2>4. o = <<G!Min({w, h}), G!Max({w, h})>> \/ o = <<G!Max({w, h}), G!Min({w, h})>>
    BY <1>2, <2>1 DEF G!Orient
  <2> QED
    BY <2>1, <2>2, <2>3, <2>4
<1>8. Fits(v.width) /\ Fits(v.height)
  BY <1>5, <1>6, <1>7, RoundFits
<1>9. v.spacing \in Nat /\ 200 <= v.spacing /\ v.margin \in Nat
  <2>1. f.spacing \in Int /\ f.margin \in Int /\ G!Unit["mm"] = 7200
    BY <1>5 DEF FormRecords, Number, G!Unit
  <2>2. s \in Int /\ m \in Int
    BY <1>2, <2>1 DEF G!ToPoints
  <2>3. s >= 50800
    <3>1. 200 * G!Exact \in Int
      BY ExactIs
    <3>2. s >= 200 * G!Exact
      BY <1>5, <2>2, <3>1
    <3> QED
      BY <2>2, <3>2, ExactIs
  <2>4. G!Round2(s) = (s + 127) \div 254 /\ G!Round2(m) = (m + 127) \div 254
    BY DEF G!Round2, G!Exact
  <2> QED
    BY <1>5, <2>2, <2>3, <2>4
<1>10. f.template \in TemplateNames
  BY DefaultFits DEF FormRecords
<1>11. ASSUME v.preset # "custom"
       PROVE /\ v.preset \in PresetNames
             /\ \/ v.width = G!Presets[v.preset][1] /\ v.height = G!Presets[v.preset][2]
                \/ v.width = G!Presets[v.preset][2] /\ v.height = G!Presets[v.preset][1]
  <2>1. PICK x : x = v.preset
    OBVIOUS
  <2>2. x = z.preset /\ x \in PresetNames
    BY <1>5, <1>6, <1>11, <2>1, PresetFits
  <2>3. PICK w, h : w = G!Presets[x][1] /\ h = G!Presets[x][2]
    OBVIOUS
  <2>4. w \in Nat /\ h \in Nat
    BY <2>2, <2>3, PresetFits DEF Fits
  <2>5. z.width = w * 254 /\ z.height = h * 254
    <3>1. f.size \in DOMAIN G!Presets
      <4> SUFFICES ASSUME f.size \notin DOMAIN G!Presets PROVE FALSE
        OBVIOUS
      <4>1. z = G!Error \/ z.preset = "custom"
        BY <1>1 DEF G!FormSize
      <4> QED
        BY <1>4, <1>5, <1>11, <2>1, <2>2, <4>1
    <3>2. z = [ok |-> TRUE, preset |-> f.size, width |-> G!Presets[f.size][1] * 254, height |-> G!Presets[f.size][2] * 254]
      BY <1>1, <3>1 DEF G!FormSize, G!Exact
    <3> QED
      BY <2>2, <2>3, <3>2
  <2>6. \A y \in Nat : G!Round2(y * 254) = y
    BY DEF G!Round2, G!Exact
  <2>7. G!Round2(z.width) = w /\ G!Round2(z.height) = h
    BY <2>4, <2>5, <2>6
  <2>8. v.width = G!Round2(o[1]) /\ v.height = G!Round2(o[2])
    BY <1>5
  <2> QED
    BY <1>7, <2>1, <2>2, <2>3, <2>7, <2>8
<1> QED
  BY <1>2, <1>5, <1>8, <1>9, <1>10, <1>11

-----------------------------------------------------------------------------
\* The grid of a board.

\* The grid of the plane, from the left of a view: all of it, and nothing else.
LEMMA GridOfPlane ==
  ASSUME NEW s \in {2, 3}, NEW x \in Int, NEW e \in Int, NEW v, v = G!Steps((x \div s) * s, s, e)
  PROVE /\ \A z \in v : z % s = 0
        /\ \A z \in Int : z % s = 0 /\ x <= z /\ z <= e => z \in v
<1>1. PICK q : q = x \div s
  OBVIOUS
<1>2. q \in Int /\ q * s \in Int /\ q * s <= x
  <2>1. CASE s = 2
    BY <1>1, <2>1
  <2>2. CASE s = 3
    BY <1>1, <2>2
  <2> QED
    BY <2>1, <2>2
<1>3. PICK n : n = (e - q * s) \div s
  OBVIOUS
<1>4. n \in Int /\ \A k \in Int : k * s <= e - q * s => k <= n
  <2>1. CASE s = 2
    BY <1>2, <1>3, <2>1
  <2>2. CASE s = 3
    BY <1>2, <1>3, <2>2
  <2> QED
    BY <2>1, <2>2
<1> DEFINE at(k) == q * s + k * s
<1>5. v = {at(k) : k \in 0 .. G!Max({-1, n})}
  BY <1>1, <1>3 DEF G!Steps
<1>6. G!Max({-1, n}) = IF -1 <= n THEN n ELSE -1
  BY <1>4, MaxOfPair
<1>7. \A k \in Int : (q * s + k * s) % s = 0
  <2>1. CASE s = 2
    BY <1>2, <2>1
  <2>2. CASE s = 3
    BY <1>2, <2>2
  <2> QED
    BY <2>1, <2>2
<1>12. \A k \in Int : at(k) % s = 0
  BY <1>7
<1> HIDE DEF at
<1>10. PICK last : last = G!Max({-1, n})
  OBVIOUS
<1>13. n \in Int
  BY <1>4
<1>11. last \in Int /\ n <= last /\ v = {at(k) : k \in 0 .. last}
  BY <1>5, <1>6, <1>10, <1>13
<1>8. \A z \in v : z % s = 0
  <2> SUFFICES ASSUME NEW k \in 0 .. last PROVE at(k) % s = 0
    BY <1>11
  <2>1. k \in Int
    BY <1>11
  <2> QED
    BY <1>12, <2>1
<1>9. ASSUME NEW z \in Int, z % s = 0, x <= z, z <= e PROVE z \in v
  <2>1. PICK k : k = z \div s - q
    OBVIOUS
  <2>2. k \in Nat /\ z = q * s + k * s /\ k * s \in Int
    <3>1. CASE s = 2
      BY <1>2, <1>9, <2>1, <3>1
    <3>2. CASE s = 3
      BY <1>2, <1>9, <2>1, <3>2
    <3> QED
      BY <3>1, <3>2
  <2>3. k <= n
    BY <1>2, <1>4, <1>9, <2>2
  <2>4. k \in 0 .. last
    BY <1>4, <1>11, <2>2, <2>3
  <2> QED
    BY <1>11, <2>2, <2>4 DEF at
<1> QED
  BY <1>8, <1>9

\* A board shows the marks that are in view and no mark that is not of its plane.
LEMMA BoardCovered ==
  ASSUME NEW x \in -1 .. 3, NEW y \in -1 .. 3, NEW s \in {2, 3}
  PROVE G!BoardIsCovered([x |-> x, y |-> y, width |-> 5, height |-> 4], s)
<1>1. PICK window : window = [x |-> x, y |-> y, width |-> 5, height |-> 4]
  OBVIOUS
<1>2. PICK n : n = (-((-5) \div s) + 1) * (-((-4) \div s) + 1)
  OBVIOUS
<1>3. n \in Int /\ n <= 40
  BY <1>2
<1>4. PICK xs, ys : xs = G!Steps((x \div s) * s, s, x + 5) /\ ys = G!Steps((y \div s) * s, s, y + 4)
  OBVIOUS
<1>5. PICK marks : marks = G!CanvasBackground("dots", s, window, 40)
  OBVIOUS
<1>6. marks = {G!Dot(u, v) : u \in xs, v \in ys}
  BY <1>1, <1>2, <1>3, <1>4, <1>5 DEF G!CanvasBackground
<1>7. x \in Int /\ x + 5 \in Int /\ y \in Int /\ y + 4 \in Int
  OBVIOUS
<1>8. /\ \A u \in xs : u % s = 0
      /\ \A u \in Int : u % s = 0 /\ x <= u /\ u <= x + 5 => u \in xs
  BY <1>4, <1>7, GridOfPlane
<1>9. /\ \A u \in ys : u % s = 0
      /\ \A u \in Int : u % s = 0 /\ y <= u /\ u <= y + 4 => u \in ys
  BY <1>4, <1>7, GridOfPlane
<1>10. \A m \in marks : m[1] % s = 0 /\ m[2] % s = 0
  BY <1>6, <1>8, <1>9 DEF G!Dot
<1>11. \A u \in Int, v \in Int : u \in xs /\ v \in ys => G!Dot(u, v) \in marks
  BY <1>6
<1>12. ASSUME NEW u \in -1 .. 8, NEW v \in -1 .. 8, u % s = 0, v % s = 0,
                 u - window.x \in 0 .. window.width, v - window.y \in 0 .. window.height
       PROVE G!Dot(u, v) \in marks
  <2>1. x <= u /\ u <= x + 5 /\ y <= v /\ v <= y + 4 /\ u \in Int /\ v \in Int
    BY <1>1, <1>7, <1>12
  <2> QED
    BY <1>8, <1>9, <1>11, <1>12, <2>1
<1> QED
  BY <1>1, <1>5, <1>10, <1>12 DEF G!BoardIsCovered

-----------------------------------------------------------------------------
\* The preview of the form: its paper is on the page.

\* What the templates start with, and the sizes that matter, in hundredths of a point.
StartsWithRoom(t) == /\ t \in TemplateNames /\ G!Defaults[t][1] <= 2200
                     /\ 3600 <= G!Defaults[t][2] /\ G!Defaults[t][2] <= 4200

\* The default spacings are not smaller than two points, and those of parts leave room.
LEMMA DefaultsAre == /\ \A t \in TemplateNames : 200 <= G!Defaults[t][1]
                     /\ \A t \in G!NeedRoom : StartsWithRoom(t)
<1>1. \A t \in TemplateNames : 200 <= G!Defaults[t][1]
  <2> DEFINE Good(t) == 200 <= G!Defaults[t][1]
  <2>1. Good("blank") /\ Good("ruledCollege") /\ Good("ruledWide") /\ Good("ruledNarrow") /\ Good("grid")
        /\ Good("dotGrid") /\ Good("isometric") /\ Good("hex") /\ Good("graphWithAxes") /\ Good("musicStaff")
    BY DEF G!Defaults
  <2>2. Good("cornell") /\ Good("plannerDaily") /\ Good("plannerWeekly") /\ Good("plannerMonthly") /\ Good("storyboard")
        /\ Good("handwritingPractice") /\ Good("engineering") /\ Good("calligraphySlants")
    BY DEF G!Defaults
  <2> HIDE DEF Good
  <2>3. \A t \in TemplateNames : Good(t)
    BY <2>1, <2>2 DEF TemplateNames
  <2> QED
    BY <2>3 DEF Good
<1>2. StartsWithRoom("musicStaff") /\ StartsWithRoom("cornell") /\ StartsWithRoom("plannerDaily")
  BY DEF StartsWithRoom, G!Defaults, TemplateNames
<1>3. StartsWithRoom("plannerWeekly") /\ StartsWithRoom("storyboard")
  BY DEF StartsWithRoom, G!Defaults, TemplateNames
<1>4. \A t \in G!NeedRoom : StartsWithRoom(t)
  BY <1>2, <1>3 DEF G!NeedRoom
<1> QED
  BY <1>1, <1>4

\* The sides of a page of the system's templates are between those of an A6 and an A4.
SheetLike(x) == x \in Nat /\ 41953 <= x /\ x <= 84189

LEMMA SizesAre == /\ G!Presets["a6"][1] = 29764 /\ G!Presets["a6"][2] = 41953
                  /\ \A id \in {"a4", "a5", "letter"} : SheetLike(G!Presets[id][1]) /\ SheetLike(G!Presets[id][2])
<1>1. G!Presets["a6"][1] = 29764 /\ G!Presets["a6"][2] = 41953
  BY SMT DEF G!Presets, G!Mm
<1>2. SheetLike(G!Presets["a4"][1]) /\ SheetLike(G!Presets["a4"][2])
  BY SMT DEF G!Presets, G!Mm, SheetLike
<1>3. SheetLike(G!Presets["a5"][1]) /\ SheetLike(G!Presets["a5"][2])
  BY SMT DEF G!Presets, G!Mm, SheetLike
<1>4. SheetLike(G!Presets["letter"][1]) /\ SheetLike(G!Presets["letter"][2])
  BY SMT DEF G!Presets, G!Inch, SheetLike
<1>5. \A id \in {"a4", "a5", "letter"} : SheetLike(G!Presets[id][1]) /\ SheetLike(G!Presets[id][2])
  BY <1>2, <1>3, <1>4
<1> QED
  BY <1>1, <1>5

\* Each template of the system is drawn on the page.
LEMMA SystemDrawn == ASSUME NEW t \in G!SystemTemplates PROVE G!OnThePage(G!PaperPageSpec(t))
<1>1. t.size \in {"a4", "a5", "letter"} /\ t.template \in TemplateNames
  BY SystemFits
<1>2. PICK o : o = G!Orient(G!Presets[t.size], t.orientation)
  OBVIOUS
<1>3. SheetLike(o[1]) /\ SheetLike(o[2])
  <2>1. PICK X : X = {x \in Int : SheetLike(x)}
    OBVIOUS
  <2>2. X \in SUBSET Int /\ G!Presets[t.size][1] \in X /\ G!Presets[t.size][2] \in X
    BY <1>1, <2>1, SizesAre DEF SheetLike
  <2>3. o[1] \in X /\ o[2] \in X
    BY <1>2, <2>2, OrientFits
  <2> QED
    BY <2>1, <2>3
<1>4. PICK r : r = G!PaperPageSpec(t)
  OBVIOUS
<1>5. r.width = o[1] /\ r.height = o[2] /\ r.template = t.template /\ r.spacing = G!Defaults[t.template][1]
      /\ r.margin = G!Defaults[t.template][2]
  BY <1>2, <1>4 DEF G!PaperPageSpec
<1>6. r.spacing \in Nat /\ 200 <= r.spacing /\ r.margin \in Nat
  BY <1>1, <1>5, DefaultFits, DefaultsAre
<1>7. CASE r.template \notin G!NeedRoom
  <2>1. r.width \in Nat /\ r.height \in Nat /\ 7200 <= r.width /\ 7200 <= r.height
    BY <1>3, <1>5 DEF SheetLike
  <2> QED
    BY <1>1, <1>4, <1>5, <1>6, <1>7, <2>1, DrawnOnPage
<1>8. CASE r.template \in G!NeedRoom
  <2>1. AmpleResult(r)
    <3>1. r.spacing <= 2200 /\ 3600 <= r.margin /\ r.margin <= 4200
      BY <1>5, <1>8, DefaultsAre DEF StartsWithRoom
    <3> QED
      BY <1>3, <1>5, <1>6, <3>1 DEF AmpleResult, SheetLike
  <2>2. r.width <= 4 * r.height
    BY <1>3, <1>5 DEF SheetLike
  <2> QED
    BY <1>4, <1>8, <2>1, <2>2, DrawnWithRoom
<1> QED
  BY <1>7, <1>8

\* The page is one of the sizes that are not smaller than an A6, and the form has what its template starts with.
RoomFor(f, r) ==
  /\ G!Min({r.width, r.height}) >= G!Presets["a6"][1] /\ G!Max({r.width, r.height}) >= G!Presets["a6"][2]
  /\ f = G!WithTemplate(f, f.template)
  /\ r.template = "storyboard" => r.width <= 4 * r.height

\* What the form makes is drawn on the page, and named after the preset of its size.
LEMMA NotebookDrawn ==
  ASSUME NEW f \in FormRecords, NEW X \in SUBSET FormSizes, NEW r, r = G!NotebookSpec(f, X), r.ok
  PROVE /\ r.template \notin G!NeedRoom \/ RoomFor(f, r) => G!OnThePage(r)
        /\ r.preset # "custom" => G!MatchPreset(r.width, r.height) = {r.preset}
<1>1. /\ Fits(r.width) /\ Fits(r.height) /\ r.template = f.template /\ r.template \in TemplateNames
      /\ r.spacing \in Nat /\ 200 <= r.spacing /\ r.margin \in Nat
      /\ r.spacing = G!Round2(G!ToPoints(f.spacing, "mm")) /\ r.margin = G!Round2(G!ToPoints(f.margin, "mm"))
  BY NotebookIs
<1>2. ASSUME r.preset # "custom" PROVE G!MatchPreset(r.width, r.height) = {r.preset}
  <2>1. PICK x, w, h : x = r.preset /\ w = r.width /\ h = r.height
    OBVIOUS
  <2>2. x \in PresetNames /\ ((w = G!Presets[x][1] /\ h = G!Presets[x][2]) \/ (w = G!Presets[x][2] /\ h = G!Presets[x][1]))
    BY <1>2, <2>1, NotebookIs
  <2>3. G!MatchPreset(w, h) = {x}
    BY <2>2, NamedAfter
  <2> QED
    BY <2>1, <2>3
<1>3. ASSUME r.template \notin G!NeedRoom PROVE G!OnThePage(r)
  <2>1. r.width \in Nat /\ r.height \in Nat /\ 7200 <= r.width /\ 7200 <= r.height
    BY <1>1 DEF Fits
  <2> QED
    BY <1>1, <1>3, <2>1, DrawnOnPage
<1>4. ASSUME r.template \in G!NeedRoom, RoomFor(f, r) PROVE G!OnThePage(r)
  <2>1. PICK w, h : w = r.width /\ h = r.height
    OBVIOUS
  <2>2. w \in Nat /\ h \in Nat
    BY <1>1, <2>1 DEF Fits
  <2>3. G!Min({w, h}) = (IF w <= h THEN w ELSE h) /\ G!Max({w, h}) = IF w <= h THEN h ELSE w
    BY <2>2, MinOfPair, MaxOfPair
  <2>4. 29764 <= w /\ 29764 <= h /\ (41953 <= w \/ 41953 <= h)
    <3>1. G!Min({w, h}) >= 29764 /\ G!Max({w, h}) >= 41953
      BY <1>4, <2>1, SizesAre DEF RoomFor
    <3> QED
      BY <2>2, <2>3, <3>1
  <2>5. PICK t, y, z : t = f.template /\ y = G!Defaults[t][1] /\ z = G!Defaults[t][2]
    OBVIOUS
  <2>6. f.spacing = G!Displayed(y) /\ f.margin = G!Displayed(z)
    BY <1>4, <2>5 DEF RoomFor, G!WithTemplate, FormRecords
  <2>7. r.spacing = ReadAgain(y) /\ r.margin = ReadAgain(z)
    BY <1>1, <2>6 DEF ReadAgain
  <2>8. y \in Nat /\ z \in Nat /\ y <= 2200 /\ 3600 <= z /\ z <= 4200
    BY <1>1, <1>4, <2>5, DefaultFits, DefaultsAre DEF StartsWithRoom
  <2>9. r.spacing <= y + 15 /\ z - 15 <= r.margin /\ r.margin <= z + 15
    BY <2>7, <2>8, ReadAgainIs
  <2>10. AmpleResult(r)
    BY <1>1, <2>1, <2>2, <2>4, <2>8, <2>9 DEF AmpleResult
  <2> QED
    BY <1>4, <2>10, DrawnWithRoom DEF RoomFor
<1> QED
  BY <1>2, <1>3, <1>4

LEMMA SizesDrawn == ASSUME FormsInv PROVE G!DrawnAsChosen
<1>1. \A t \in G!SystemTemplates : G!OnThePage(G!PaperPageSpec(t))
  BY SystemDrawn
<1>2. \A x, y \in -1..3, s \in 2..3 : G!BoardIsCovered([x |-> x, y |-> y, width |-> 5, height |-> 4], s)
  BY BoardCovered
<1>3. ASSUME G!Result.ok
      PROVE /\ G!Result.template \notin G!NeedRoom \/ RoomFor(form, G!Result) => G!OnThePage(G!Result)
            /\ G!Result.preset # "custom" => G!MatchPreset(G!Result.width, G!Result.height) = {G!Result.preset}
  <2>1. PICK r : r = G!NotebookSpec(form, known)
    OBVIOUS
  <2>2. G!Result = r
    BY <2>1 DEF G!Result
  <2>3. form \in FormRecords /\ known \in SUBSET FormSizes
    BY DEF FormsInv
  <2>4. /\ r.template \notin G!NeedRoom \/ RoomFor(form, r) => G!OnThePage(r)
        /\ r.preset # "custom" => G!MatchPreset(r.width, r.height) = {r.preset}
    BY <1>3, <2>1, <2>2, <2>3, NotebookDrawn
  <2> QED
    BY <2>2, <2>4
<1> QED
  BY <1>1, <1>2, <1>3 DEF G!DrawnAsChosen, RoomFor

-----------------------------------------------------------------------------
\* The paper that the New dialog draws is that of the form.

\* The paper of F is that of G: no operator of it depends on what is typed or chosen.
LEMMA RuledSame == ASSUME NEW p PROVE F!Ruled(p) = G!Ruled(p)
  BY DEF F!Ruled, G!Ruled, F!HorizontalRules, G!HorizontalRules, F!Steps, G!Steps, F!Line, G!Line, F!Max, G!Max

LEMMA DotGridSame == ASSUME NEW p PROVE F!DotGrid(p) = G!DotGrid(p)
  BY DEF F!DotGrid, G!DotGrid, F!Dot, G!Dot, F!CentredSteps, G!CentredSteps

LEMMA GraphWithAxesSame == ASSUME NEW p PROVE F!GraphWithAxes(p) = G!GraphWithAxes(p)
  BY DEF F!GraphWithAxes, G!GraphWithAxes, F!Grid, G!Grid, F!Cardinality, G!Cardinality, F!Line, G!Line,
         F!Inset, G!Inset, F!Box, G!Box, F!CentredSteps, G!CentredSteps, F!Earliest, G!Earliest, F!Latest, G!Latest,
         F!Max, G!Max, F!Min, G!Min

LEMMA MusicStaffSame == ASSUME NEW p PROVE F!MusicStaff(p) = G!MusicStaff(p)
  BY DEF F!MusicStaff, G!MusicStaff, F!Line, G!Line, F!Max, G!Max

LEMMA CornellSame == ASSUME NEW p PROVE F!Cornell(p) = G!Cornell(p)
  BY DEF F!Cornell, G!Cornell, F!HorizontalRules, G!HorizontalRules, F!Steps, G!Steps, F!Line, G!Line, F!Dot, G!Dot,
         F!Pt, G!Pt, F!Max, G!Max

LEMMA PlannerDailySame == ASSUME NEW p PROVE F!PlannerDaily(p) = G!PlannerDaily(p)
  BY DEF F!PlannerDaily, G!PlannerDaily, F!HorizontalRules, G!HorizontalRules, F!Steps, G!Steps, F!Line, G!Line,
         F!Dot, G!Dot, F!Rect, G!Rect, F!Pt, G!Pt, F!Max, G!Max

LEMMA PlannerWeeklySame == ASSUME NEW p PROVE F!PlannerWeekly(p) = G!PlannerWeekly(p)
  BY DEF F!PlannerWeekly, G!PlannerWeekly, F!Steps, G!Steps, F!Line, G!Line, F!Dot, G!Dot, F!Rect, G!Rect,
         F!Pt, G!Pt, F!Max, G!Max

LEMMA PlannerMonthlySame == ASSUME NEW p PROVE F!PlannerMonthly(p) = G!PlannerMonthly(p)
  BY DEF F!PlannerMonthly, G!PlannerMonthly, F!Line, G!Line, F!Dot, G!Dot, F!Pt, G!Pt

LEMMA StoryboardSame == ASSUME NEW p PROVE F!Storyboard(p) = G!Storyboard(p)
  BY DEF F!Storyboard, G!Storyboard, F!Line, G!Line, F!Dot, G!Dot, F!Rect, G!Rect, F!Pt, G!Pt, F!Max, G!Max

LEMMA HandwritingPracticeSame == ASSUME NEW p PROVE F!HandwritingPractice(p) = G!HandwritingPractice(p)
  BY DEF F!HandwritingPractice, G!HandwritingPractice, F!Steps, G!Steps, F!Line, G!Line, F!Max, G!Max

LEMMA EngineeringSame == ASSUME NEW p PROVE F!Engineering(p) = G!Engineering(p)
  BY DEF F!Engineering, G!Engineering, F!Grid, G!Grid, F!Line, G!Line, F!Rect, G!Rect, F!Box, G!Box, F!Pt, G!Pt,
         F!CentredSteps, G!CentredSteps, F!Earliest, G!Earliest, F!Latest, G!Latest, F!Max, G!Max, F!Min, G!Min

LEMMA CalligraphySlantsSame == ASSUME NEW p PROVE F!CalligraphySlants(p) = G!CalligraphySlants(p)
  BY DEF F!CalligraphySlants, G!CalligraphySlants, F!ClipSegment, G!ClipSegment, F!ClipRange, G!ClipRange,
         F!Whole, G!Whole, F!Steps, G!Steps, F!Line, G!Line, F!Box, G!Box, F!Max, G!Max, F!Min, G!Min

LEMMA GridSame == ASSUME NEW p PROVE F!Grid(p, F!Inset(p)) = G!Grid(p, G!Inset(p))
  BY DEF F!Grid, G!Grid, F!Line, G!Line, F!Inset, G!Inset, F!Box, G!Box, F!CentredSteps, G!CentredSteps,
         F!Earliest, G!Earliest, F!Latest, G!Latest, F!Max, G!Max, F!Min, G!Min

LEMMA ClipSame ==
  ASSUME NEW x1, NEW y1, NEW x2, NEW y2, NEW box
  PROVE F!ClipSegment(x1, y1, x2, y2, box) = G!ClipSegment(x1, y1, x2, y2, box)
  BY DEF F!ClipSegment, G!ClipSegment, F!ClipRange, G!ClipRange, F!Whole, G!Whole, F!Line, G!Line, F!Max, G!Max,
         F!Min, G!Min

LEMMA LinesSame ==
  ASSUME NEW angle, NEW d, NEW box, NEW ox, NEW oy
  PROVE F!LineFamily(angle, d, box, ox, oy) = G!LineFamily(angle, d, box, ox, oy)
<1> DEFINE u == G!Direction[angle]
           projection(x, y) == ((y - oy) * u[1] - (x - ox) * u[2]) \div 1000
           ends == {projection(x, y) : x \in {box.left, box.right}, y \in {box.top, box.bottom}}
           reach == box.right - box.left + box.bottom - box.top + 10 * 1
           px(k) == ox - (u[2] * k * d) \div 1000
           py(k) == oy + (u[1] * k * d) \div 1000
           rx == (u[1] * reach) \div 1000
           ry == (u[2] * reach) \div 1000
           lineF(k) == F!ClipSegment(px(k) - rx, py(k) - ry, px(k) + rx, py(k) + ry, box)
           lineG(k) == G!ClipSegment(px(k) - rx, py(k) - ry, px(k) + rx, py(k) + ry, box)
           rangeF == -((-F!Min(ends)) \div d) .. F!Max(ends) \div d
           rangeG == -((-G!Min(ends)) \div d) .. G!Max(ends) \div d
<1>1. F!LineFamily(angle, d, box, ox, oy) = UNION {lineF(k) : k \in rangeF}
  BY DEF F!LineFamily, F!Pt, F!Direction, G!Direction
<1>2. G!LineFamily(angle, d, box, ox, oy) = UNION {lineG(k) : k \in rangeG}
  BY DEF G!LineFamily, G!Pt
<1>3. \A k : lineF(k) = lineG(k)
  BY ClipSame
<1> HIDE DEF lineF, lineG, ends
<1>4. F!Min(ends) = G!Min(ends) /\ F!Max(ends) = G!Max(ends)
  BY DEF F!Min, G!Min, F!Max, G!Max
<1>5. rangeF = rangeG
  BY <1>4
<1> HIDE DEF rangeF, rangeG
<1> QED
  BY <1>1, <1>2, <1>3, <1>5

LEMMA IsometricSame == ASSUME NEW p PROVE F!Isometric(p) = G!Isometric(p)
<1> DEFINE linesF(angle) == F!LineFamily(angle, (866 * p.s) \div 1000, G!Inset(p), p.w \div 2, p.h \div 2)
           linesG(angle) == G!LineFamily(angle, (866 * p.s) \div 1000, G!Inset(p), p.w \div 2, p.h \div 2)
<1>1. F!Isometric(p) = UNION {linesF(angle) : angle \in {30, 90, 150}}
  BY DEF F!Isometric, F!Inset, F!Box, G!Inset, G!Box
<1>2. G!Isometric(p) = UNION {linesG(angle) : angle \in {30, 90, 150}}
  BY DEF G!Isometric
<1>3. \A angle : linesF(angle) = linesG(angle)
  BY LinesSame
<1> HIDE DEF linesF, linesG
<1> QED
  BY <1>1, <1>2, <1>3

LEMMA HexSame == ASSUME NEW p PROVE F!Hex(p) = G!Hex(p)
<1> DEFINE box == G!Box(p.m, p.m, p.w - p.m, p.h - p.m)
           rowH == (1732 * p.s) \div 1000
           dx == <<p.s, p.s \div 2, -(p.s \div 2), -p.s, -(p.s \div 2), p.s \div 2>>
           dy == [i \in 1..6 |-> CASE i \in {2, 3} -> rowH \div 2 [] i \in {5, 6} -> -(rowH \div 2) [] OTHER -> 0]
           cols == -1 .. (2 * (box.right - box.left + p.s)) \div (3 * p.s)
           rows == -1 .. (box.bottom - box.top + rowH) \div rowH
           cx(col) == box.left + (3 * p.s * col) \div 2
           cy(col, rw) == box.top + rw * rowH + (IF col % 2 = 1 THEN rowH \div 2 ELSE 0)
           sideF(k, r, i) == F!ClipSegment(cx(k) + dx[i], cy(k, r) + dy[i], cx(k) + dx[(i % 6) + 1], cy(k, r) + dy[(i % 6) + 1], box)
           sideG(k, r, i) == G!ClipSegment(cx(k) + dx[i], cy(k, r) + dy[i], cx(k) + dx[(i % 6) + 1], cy(k, r) + dy[(i % 6) + 1], box)
<1>1. F!Hex(p) = UNION {sideF(k, r, i) : k \in cols, r \in rows, i \in 1..6}
  BY DEF F!Hex, F!Inset, F!Box, G!Box
<1>2. G!Hex(p) = UNION {sideG(k, r, i) : k \in cols, r \in rows, i \in 1..6}
  BY DEF G!Hex, G!Inset
<1>3. \A k, r, i : sideF(k, r, i) = sideG(k, r, i)
  BY ClipSame
<1> HIDE DEF sideF, sideG, cols, rows
<1> QED
  BY <1>1, <1>2, <1>3

LEMMA CommandsSame ==
  ASSUME NEW w, NEW h, NEW t \in TemplateNames, NEW s, NEW margin
  PROVE F!PaperCommands(w, h, t, s, margin) = G!PaperCommands(w, h, t, s, margin)
<1>1. PICK p : p = [w |-> w, h |-> h, s |-> s, m |-> G!Min({margin, w \div 3, h \div 3})]
  OBVIOUS
<1>2. F!Min({margin, w \div 3, h \div 3}) = G!Min({margin, w \div 3, h \div 3})
  BY DEF F!Min, G!Min
<1>3. p = [w |-> w, h |-> h, s |-> s, m |-> F!Min({margin, w \div 3, h \div 3})]
  BY <1>1, <1>2
<1>4. CASE t = "blank"
  BY <1>1, <1>3, <1>4 DEF F!PaperCommands, G!PaperCommands
<1>5. CASE t \in {"ruledCollege", "ruledWide", "ruledNarrow"}
  BY <1>1, <1>3, <1>5, RuledSame DEF F!PaperCommands, G!PaperCommands
<1>6. CASE t = "grid"
  BY <1>1, <1>3, <1>6, GridSame DEF F!PaperCommands, G!PaperCommands
<1>7. CASE t = "dotGrid"
  BY <1>1, <1>3, <1>7, DotGridSame DEF F!PaperCommands, G!PaperCommands
<1>8. CASE t = "isometric"
  BY <1>1, <1>3, <1>8, IsometricSame DEF F!PaperCommands, G!PaperCommands
<1>9. CASE t = "hex"
  BY <1>1, <1>3, <1>9, HexSame DEF F!PaperCommands, G!PaperCommands
<1>10. CASE t = "graphWithAxes"
  BY <1>1, <1>3, <1>10, GraphWithAxesSame DEF F!PaperCommands, G!PaperCommands
<1>11. CASE t = "musicStaff"
  BY <1>1, <1>3, <1>11, MusicStaffSame DEF F!PaperCommands, G!PaperCommands
<1>12. CASE t = "cornell"
  BY <1>1, <1>3, <1>12, CornellSame DEF F!PaperCommands, G!PaperCommands
<1>13. CASE t = "plannerDaily"
  BY <1>1, <1>3, <1>13, PlannerDailySame DEF F!PaperCommands, G!PaperCommands
<1>14. CASE t = "plannerWeekly"
  BY <1>1, <1>3, <1>14, PlannerWeeklySame DEF F!PaperCommands, G!PaperCommands
<1>15. CASE t = "plannerMonthly"
  BY <1>1, <1>3, <1>15, PlannerMonthlySame DEF F!PaperCommands, G!PaperCommands
<1>16. CASE t = "storyboard"
  BY <1>1, <1>3, <1>16, StoryboardSame DEF F!PaperCommands, G!PaperCommands
<1>17. CASE t = "handwritingPractice"
  BY <1>1, <1>3, <1>17, HandwritingPracticeSame DEF F!PaperCommands, G!PaperCommands
<1>18. CASE t = "engineering"
  BY <1>1, <1>3, <1>18, EngineeringSame DEF F!PaperCommands, G!PaperCommands
<1>19. CASE t = "calligraphySlants"
  BY <1>1, <1>3, <1>19, CalligraphySlantsSame DEF F!PaperCommands, G!PaperCommands
<1> QED
  BY <1>4, <1>5, <1>6, <1>7, <1>8, <1>9, <1>10, <1>11, <1>12, <1>13, <1>14, <1>15, <1>16, <1>17, <1>18, <1>19 DEF TemplateNames

LEMMA OnThePageSame == ASSUME NEW r, r.template \in TemplateNames PROVE F!OnThePage(r) = G!OnThePage(r)
<1>1. PICK X : X = F!PaperCommands(r.width \div 10, r.height \div 10, r.template, r.spacing \div 10, r.margin \div 10)
  OBVIOUS
<1>2. X = G!PaperCommands(r.width \div 10, r.height \div 10, r.template, r.spacing \div 10, r.margin \div 10)
  BY <1>1, CommandsSame
<1> QED
  BY <1>1, <1>2 DEF F!OnThePage, G!OnThePage

\* Nor does what the form makes of a given form depend on which of the two dialogs it is in.
LEMMA PresetsSame == F!Presets = G!Presets /\ F!Defaults = G!Defaults
<1>1. F!Presets = G!Presets
  BY DEF F!Presets, G!Presets, F!Mm, G!Mm, F!Inch, G!Inch
<1>2. F!Defaults = G!Defaults
  BY DEF F!Defaults, G!Defaults
<1> QED
  BY <1>1, <1>2

LEMMA EndsSame == ASSUME NEW X PROVE F!Min(X) = G!Min(X) /\ F!Max(X) = G!Max(X)
  BY DEF F!Min, G!Min, F!Max, G!Max

LEMMA OrientSame == ASSUME NEW s, NEW o PROVE F!Orient(s, o) = G!Orient(s, o)
  BY EndsSame DEF F!Orient, G!Orient

LEMMA LengthsSame == /\ F!Exact = G!Exact /\ F!MaxPage = G!MaxPage /\ F!Error = G!Error
                     /\ \A x, u : F!ToPoints(x, u) = G!ToPoints(x, u)
                     /\ \A x : F!Round2(x) = G!Round2(x) /\ F!Displayed(x) = G!Displayed(x)
<1>1. F!Exact = G!Exact /\ F!Error = G!Error
  BY DEF F!Exact, G!Exact, F!Error, G!Error
<1>2. F!MaxPage = G!MaxPage
  BY DEF F!MaxPage, G!MaxPage
<1>3. \A x, u : F!ToPoints(x, u) = G!ToPoints(x, u)
  BY DEF F!ToPoints, G!ToPoints, F!Unit, G!Unit
<1>4. \A x : F!Round2(x) = G!Round2(x) /\ F!Displayed(x) = G!Displayed(x)
  BY DEF F!Round2, G!Round2, F!Displayed, G!Displayed, F!Exact, G!Exact
<1> QED
  BY <1>1, <1>2, <1>3, <1>4

LEMMA FormSizeSame == ASSUME NEW f, NEW X PROVE F!FormSize(f, X) = G!FormSize(f, X)
<1>1. PICK w, h : w = G!ToPoints(f.width, f.unit) /\ h = G!ToPoints(f.height, f.unit)
  OBVIOUS
<1>2. F!Min({w, h}) = G!Min({w, h}) /\ F!Max({w, h}) = G!Max({w, h})
  BY EndsSame
<1>3. F!ToPoints(f.width, f.unit) = w /\ F!ToPoints(f.height, f.unit) = h
  BY <1>1, LengthsSame
<1> QED
  BY <1>1, <1>2, <1>3, PresetsSame, LengthsSame DEF F!FormSize, G!FormSize

LEMMA NotebookSame == ASSUME NEW f, NEW X PROVE F!NotebookSpec(f, X) = G!NotebookSpec(f, X)
<1>1. PICK z : z = G!FormSize(f, X)
  OBVIOUS
<1>2. PICK s, m, o : s = G!ToPoints(f.spacing, "mm") /\ m = G!ToPoints(f.margin, "mm")
                     /\ o = G!Orient(<<z.width, z.height>>, f.orientation)
  OBVIOUS
<1>3. G!NotebookSpec(f, X) =
        IF ~z.ok \/ None \in {f.spacing, f.margin, f.count} THEN G!Error
        ELSE IF s < 200 * G!Exact \/ s > 20000 * G!Exact THEN G!Error
        ELSE IF m < 0 \/ 3 * m > G!Min({z.width, z.height}) THEN G!Error
        ELSE IF f.count \notin 1..500 THEN G!Error
        ELSE [ok |-> TRUE, kind |-> "notebook", preset |-> z.preset, width |-> G!Round2(o[1]), height |-> G!Round2(o[2]),
              template |-> f.template, spacing |-> G!Round2(s), margin |-> G!Round2(m), count |-> f.count]
  BY <1>1, <1>2 DEF G!NotebookSpec
<1>4. z = F!FormSize(f, X) /\ s = F!ToPoints(f.spacing, "mm") /\ m = F!ToPoints(f.margin, "mm")
      /\ o = F!Orient(<<z.width, z.height>>, f.orientation)
  BY <1>1, <1>2, FormSizeSame, LengthsSame, OrientSame
<1>5. F!NotebookSpec(f, X) =
        IF ~z.ok \/ None \in {f.spacing, f.margin, f.count} THEN F!Error
        ELSE IF s < 200 * F!Exact \/ s > 20000 * F!Exact THEN F!Error
        ELSE IF m < 0 \/ 3 * m > F!Min({z.width, z.height}) THEN F!Error
        ELSE IF f.count \notin 1..500 THEN F!Error
        ELSE [ok |-> TRUE, kind |-> "notebook", preset |-> z.preset, width |-> F!Round2(o[1]), height |-> F!Round2(o[2]),
              template |-> f.template, spacing |-> F!Round2(s), margin |-> F!Round2(m), count |-> f.count]
  BY <1>4 DEF F!NotebookSpec
<1>6. F!Exact = G!Exact /\ F!Error = G!Error /\ F!Min({z.width, z.height}) = G!Min({z.width, z.height})
      /\ F!Round2(o[1]) = G!Round2(o[1]) /\ F!Round2(o[2]) = G!Round2(o[2]) /\ F!Round2(s) = G!Round2(s) /\ F!Round2(m) = G!Round2(m)
  BY LengthsSame, EndsSame
<1> QED
  BY <1>3, <1>5, <1>6

LEMMA BoardSame == ASSUME NEW window, NEW s PROVE F!BoardIsCovered(window, s) = G!BoardIsCovered(window, s)
<1>1. F!CanvasBackground("dots", s, window, 40) = G!CanvasBackground("dots", s, window, 40)
  BY DEF F!CanvasBackground, G!CanvasBackground, F!Steps, G!Steps, F!Max, G!Max, F!Dot, G!Dot, F!Line, G!Line
<1>2. PICK marks : marks = G!CanvasBackground("dots", s, window, 40)
  OBVIOUS
<1> QED
  BY <1>1, <1>2 DEF F!BoardIsCovered, G!BoardIsCovered, F!Dot, G!Dot

LEMMA SystemSame == /\ F!SystemTemplates = G!SystemTemplates
                    /\ \A t : F!PaperPageSpec(t) = G!PaperPageSpec(t)
                    /\ \A t : G!PaperPageSpec(t).template = t.template
<1>1. F!SystemTemplates = G!SystemTemplates
  BY DEF F!SystemTemplates, G!SystemTemplates
<1>2. \A t : F!PaperPageSpec(t) = G!PaperPageSpec(t)
  BY PresetsSame, OrientSame DEF F!PaperPageSpec, G!PaperPageSpec
<1>3. \A t : G!PaperPageSpec(t).template = t.template
  BY DEF G!PaperPageSpec
<1> QED
  BY <1>1, <1>2, <1>3

\* So what is drawn is as good in the one as in the other.
LEMMA PaperDrawn == ASSUME FormsInv PROVE F!DrawnAsChosen
<1>1. ASSUME NEW t \in F!SystemTemplates PROVE F!OnThePage(F!PaperPageSpec(t))
  <2>1. PICK r : r = G!PaperPageSpec(t)
    OBVIOUS
  <2>2. t \in G!SystemTemplates /\ r = F!PaperPageSpec(t) /\ r.template = t.template
    BY <2>1, SystemSame
  <2>3. r.template \in TemplateNames
    BY <2>2, SystemFits
  <2>4. G!OnThePage(r)
    BY <2>1, <2>2, SystemDrawn
  <2> QED
    BY <2>2, <2>3, <2>4, OnThePageSame
<1>2. \A x, y \in -1..3, s \in 2..3 : F!BoardIsCovered([x |-> x, y |-> y, width |-> 5, height |-> 4], s)
  BY BoardCovered, BoardSame
<1>3. ASSUME F!Result.ok
      PROVE LET r == F!Result
                room == /\ F!Min({r.width, r.height}) >= F!Presets["a6"][1] /\ F!Max({r.width, r.height}) >= F!Presets["a6"][2]
                        /\ form = F!WithTemplate(form, form.template)
                        /\ r.template = "storyboard" => r.width <= 4 * r.height
            IN /\ r.template \notin F!NeedRoom \/ room => F!OnThePage(r)
               /\ r.preset # "custom" => F!MatchPreset(r.width, r.height) = {r.preset}
  <2>1. PICK r : r = G!NotebookSpec(form, known)
    OBVIOUS
  <2>2. F!Result = r
    BY <2>1, NotebookSame DEF F!Result
  <2>3. form \in FormRecords /\ known \in SUBSET FormSizes
    BY DEF FormsInv
  <2>4. /\ r.template \notin G!NeedRoom \/ RoomFor(form, r) => G!OnThePage(r)
        /\ r.preset # "custom" => G!MatchPreset(r.width, r.height) = {r.preset}
    BY <1>3, <2>1, <2>2, <2>3, NotebookDrawn
  <2>5. r.template \in TemplateNames
    BY <1>3, <2>1, <2>2, <2>3, NotebookIs
  <2>6. F!OnThePage(r) = G!OnThePage(r)
    BY <2>5, OnThePageSame
  <2>7. F!NeedRoom = G!NeedRoom
    BY DEF F!NeedRoom, G!NeedRoom
  <2>8. F!MatchPreset(r.width, r.height) = G!MatchPreset(r.width, r.height)
    BY PresetsSame DEF F!MatchPreset, G!MatchPreset
  <2>9. F!WithTemplate(form, form.template) = G!WithTemplate(form, form.template)
    BY PresetsSame, LengthsSame DEF F!WithTemplate, G!WithTemplate
  <2>10. F!Min({r.width, r.height}) = G!Min({r.width, r.height}) /\ F!Max({r.width, r.height}) = G!Max({r.width, r.height})
    BY EndsSame
  <2>11. /\ F!Min({r.width, r.height}) >= F!Presets["a6"][1] /\ F!Max({r.width, r.height}) >= F!Presets["a6"][2]
         /\ form = F!WithTemplate(form, form.template)
         /\ (r.template = "storyboard" => r.width <= 4 * r.height)
         => RoomFor(form, r)
    BY <2>9, <2>10, PresetsSame DEF RoomFor
  <2> QED
    BY <2>2, <2>4, <2>6, <2>7, <2>8, <2>11
<1> QED
  BY <1>1, <1>2, <1>3 DEF F!DrawnAsChosen

\* Both dialogs.
LEMMA DrawnFromInv == FormsInv => (part = "paper" => F!DrawnAsChosen) /\ (part = "sizes" => G!DrawnAsChosen)
  BY PaperDrawn, SizesDrawn

-----------------------------------------------------------------------------
\* Whatever is added, fetched, moved, verified, purged or deleted while the dialog is open, and whatever is
\* typed in its form, a new document has the pages of the files that were listed, each of them verified,
\* or the pages of the template as the gallery showed it, or as many as the form showed, of a size that
\* the server takes; an image of any size makes a page of its shape (import-tab.tsx, templates-tab.tsx,
\* creation.ts, spec.ts, page.ts).
THEOREM CreatedStaysAsShown == MCSpec => []CreatedAsShown
<1>1. NewInv /\ TemplatesInv /\ FormsInv => CreatedAsShown
  BY ListedFromDocuments, MadeFromInv, AcceptedFromInv DEF CreatedAsShown
<1> QED
  BY <1>1, NewAlways, TemplatesAlways, FormsAlways, PTL

\* The preview of the form has every mark on its page, for whatever sizes, lengths and counts are typed
\* and whatever is chosen, with the room that the templates with parts need; so have the templates of the
\* system.  A page of a preset's size is named after that preset only, and a board shows all the marks of
\* its plane that are in view (templates.ts, spec.ts matchPreset, infinite.ts).
THEOREM DrawnStaysAsChosen == MCSpec => []DrawnAsChosen
<1>1. FormsInv => DrawnAsChosen
  BY DrawnFromInv DEF DrawnAsChosen
<1> QED
  BY <1>1, FormsAlways, PTL

\* Every variable of imports, the New dialog and its forms keeps its kind.
THEOREM CreationTyped == MCSpec => [](part \in {"jobs", "download", "new", "paper", "sizes", "copies"} => TypesOK)
<1>1. JobsInv /\ PullInv /\ NewInv /\ TemplatesInv /\ FormsInv
        => (part \in {"jobs", "download", "new", "paper", "sizes", "copies"} => TypesOK)
  <2> SUFFICES ASSUME JobsInv, PullInv, NewInv, TemplatesInv, FormsInv,
                      part \in {"jobs", "download", "new", "paper", "sizes", "copies"}
               PROVE TypesOK
    OBVIOUS
  <2>1. J!TypeOK /\ Y!TypeOK /\ N!TypeOK /\ K!TypeOK
    BY ImportedFromInv, PullTypesFit, NewTypesFit, TemplateTypesFit DEF PullInv, NewInv
  <2>2. (part = "sizes" => G!TypeOK) /\ (part = "paper" => F!TypeOK)
    BY FormsTypesFit
  <2> QED
    BY <2>1, <2>2 DEF TypesOK
<1> QED
  BY <1>1, JobsAlways, PullAlways, NewAlways, TemplatesAlways, FormsAlways, PTL

\* Every variable of every part keeps its kind.
THEOREM AllTyped == MCSpec => []TypesOK
<1> DEFINE OfRecords == part \in {"pages", "tags", "tagRaces", "spaces", "list", "cache", "bar", "db"}
           OfCreation == part \in {"jobs", "download", "new", "paper", "sizes", "copies"}
<1>1. MCInit => OfRecords \/ OfCreation
  BY DEF MCInit
<1>2. (OfRecords \/ OfCreation) /\ [MCNext]_allVars => (OfRecords \/ OfCreation)'
  <2>1. [MCNext]_allVars => part' = part
    BY DEF MCNext, allVars
  <2> QED
    BY <2>1
<1>3. MCSpec => [](OfRecords \/ OfCreation)
  BY <1>1, <1>2, PTL DEF MCSpec
<1> QED
  BY <1>3, RecordsTyped, CreationTyped, PTL
=============================================================================
