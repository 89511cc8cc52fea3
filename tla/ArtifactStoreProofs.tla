------------------------- MODULE ArtifactStoreProofs -------------------------
(* Proofs about ArtifactStore, for any savers, artifacts, contents, pool     *)
(* size and number of saves and crashes.                                     *)
EXTENDS ArtifactStore, FiniteSetTheorems, SequenceTheorems, TLAPS

-----------------------------------------------------------------------------
(* Types.                                                                    *)

LEMMA IdleFacts ==
    /\ Idle \notin Jobs
    /\ Idle.pc = "idle" /\ Idle.artifact = NoOne
    /\ \A j \in Jobs : /\ j.pc \in PostgresSteps \cup FileSteps
                       /\ j.artifact \in Artifacts
                       /\ j.content \in Contents
                       /\ j.version \in Nat
                       /\ j.artifact # NoOne
BY StoreAssumption DEF Idle, Jobs, PostgresSteps, FileSteps

(* A job that takes a step of its own is a job again. *)
LEMMA JobSteps ==
    ASSUME NEW j \in Jobs, NEW pc \in PostgresSteps \cup FileSteps, NEW n \in Nat
    PROVE  /\ [j EXCEPT !.pc = pc] \in Jobs
           /\ [j EXCEPT !.pc = pc, !.version = n] \in Jobs
           /\ [j EXCEPT !.pc = pc, !.version = n].pc = pc
           /\ [j EXCEPT !.pc = pc, !.version = n].version = n
           /\ [j EXCEPT !.pc = pc, !.version = n].artifact = j.artifact
           /\ [j EXCEPT !.pc = pc, !.version = n].content = j.content
BY DEF Jobs

(* The connections in use stay within the pool when one saver's step is no   *)
(* new connection, or a free one.                                            *)
LEMMA PoolBound ==
    ASSUME TypeOK, NEW w \in Savers,
           Connected' \subseteq Connected \cup {w},
           w \in Connected \/ w \notin Connected' \/ ConnectionFree
    PROVE  Cardinality(Connected') <= PoolSize
<1>1. Connected \subseteq Savers
  BY DEF Connected, At
<1>2. IsFiniteSet(Connected) /\ Cardinality(Connected) \in Nat
  BY <1>1, StoreAssumption, FS_Subset, FS_CardinalityType
<1>3. PoolSize \in Nat /\ Cardinality(Connected) <= PoolSize
  BY StoreAssumption DEF TypeOK
<1>4. CASE Connected' \subseteq Connected
  <2>1. IsFiniteSet(Connected') /\ Cardinality(Connected') <= Cardinality(Connected)
    BY <1>2, <1>4, FS_Subset
  <2>2. Cardinality(Connected') \in Nat
    BY <2>1, FS_CardinalityType
  <2> QED
    BY <1>2, <1>3, <2>1, <2>2
<1>5. CASE w \notin Connected /\ ConnectionFree
  <2>1. /\ IsFiniteSet(Connected \cup {w})
        /\ Cardinality(Connected \cup {w}) = Cardinality(Connected) + 1
    BY <1>2, <1>5, FS_AddElement
  <2>2. IsFiniteSet(Connected') /\ Cardinality(Connected') <= Cardinality(Connected) + 1
    BY <2>1, FS_Subset
  <2>3. Cardinality(Connected') \in Nat
    BY <2>2, FS_CardinalityType
  <2> QED
    BY <1>2, <1>3, <1>5, <2>2, <2>3 DEF ConnectionFree
<1> QED
  BY <1>4, <1>5

LEMMA TypeInit == Init => TypeOK
<1> SUFFICES ASSUME Init PROVE TypeOK
  OBVIOUS
<1>1. Connected = {}
  BY IdleFacts DEF Init, Connected, At
<1>2. Cardinality(Connected) <= PoolSize
  BY <1>1, FS_EmptySet, StoreAssumption
<1>3. \A w \in Savers : ~(lock = w) /\ job[w].pc # "apply"
  BY StoreAssumption, IdleFacts DEF Init
<1>4. versions \in [Artifacts -> Seq(Contents \cup {Torn})] /\ pointer \in [Artifacts -> Nat \cup {Torn}]
  BY DEF Init
<1>5. job \in [Savers -> Jobs \cup {Idle}]
  BY DEF Init
<1>6. saves \in 0..MaxSaves /\ crashes \in 0..MaxCrashes
  BY StoreAssumption DEF Init
<1>7. lock \in Savers \cup {NoOne} /\ runRow \in Connected \cup {"absent", "present"}
  BY DEF Init
<1>8. overlap \in BOOLEAN /\ schema \in BOOLEAN /\ backend \in {"postgres", "files"}
  BY DEF Init
<1>9. answers \subseteq [artifact : Artifacts, content : Contents, version : Nat]
  BY DEF Init
<1> QED
  BY <1>2, <1>3, <1>4, <1>5, <1>6, <1>7, <1>8, <1>9 DEF TypeOK

(* What an update of one saver's job does to the rest of the state.          *)
LEMMA JobUpdate ==
    ASSUME TypeOK, NEW w \in Savers, NEW x \in Jobs \cup {Idle},
           job' = [job EXCEPT ![w] = x]
    PROVE  /\ job' \in [Savers -> Jobs \cup {Idle}]
           /\ job'[w] = x
           /\ \A u \in Savers : u # w => job'[u] = job[u]
           /\ \A u \in Savers : u # w => (u \in Connected' <=> u \in Connected)
           /\ w \in Connected' <=> x.pc \in {"ensure", "select", "insert", "commit"}
           /\ Connected' \subseteq Connected \cup {w}
<1>1. job' \in [Savers -> Jobs \cup {Idle}] /\ job'[w] = x
  BY DEF TypeOK
<1>2. \A u \in Savers : u # w => job'[u] = job[u]
  BY DEF TypeOK
<1> QED
  BY <1>1, <1>2 DEF Connected, At

(* TypeOK after a step of saver w, from what the step does to each variable. *)
LEMMA TypeAfter ==
    ASSUME TypeOK, NEW w \in Savers, NEW x \in Jobs \cup {Idle},
           job' = [job EXCEPT ![w] = x],
           x.pc \in {"ensure", "select", "insert", "commit"}
               => w \in Connected \/ ConnectionFree,
           lock' \in Savers \cup {NoOne},
           lock' = w <=> x.pc = "apply",
           \A u \in Savers \ {w} : lock' = u <=> lock = u,
           \/ runRow' \in {"absent", "present"}
           \/ runRow' = runRow /\ runRow # w
           \/ runRow' \in {w, runRow} /\ x.pc \in {"ensure", "select", "insert", "commit"},
           versions' \in [Artifacts -> Seq(Contents \cup {Torn})],
           pointer' \in [Artifacts -> Nat \cup {Torn}],
           answers' \subseteq [artifact : Artifacts, content : Contents, version : Nat],
           backend' = backend, overlap' = overlap, schema' \in BOOLEAN,
           saves' \in 0..MaxSaves, crashes' \in 0..MaxCrashes
    PROVE  TypeOK'
<1>1. /\ job' \in [Savers -> Jobs \cup {Idle}]
      /\ job'[w] = x
      /\ \A u \in Savers : u # w => job'[u] = job[u]
      /\ \A u \in Savers : u # w => (u \in Connected' <=> u \in Connected)
      /\ w \in Connected' <=> x.pc \in {"ensure", "select", "insert", "commit"}
      /\ Connected' \subseteq Connected \cup {w}
  BY JobUpdate
<1>2. Cardinality(Connected') <= PoolSize
  BY <1>1, PoolBound
<1>3. \A u \in Savers : lock' = u <=> job'[u].pc = "apply"
  BY <1>1 DEF TypeOK
<1>4. runRow' \in Connected' \cup {"absent", "present"}
  <2>1. runRow \in Connected \cup {"absent", "present"} /\ Connected \subseteq Savers
    BY DEF TypeOK, Connected, At
  <2> QED
    BY <1>1, <2>1
<1>5. backend' \in {"postgres", "files"} /\ overlap' \in BOOLEAN
  BY DEF TypeOK
<1> QED
  BY <1>1, <1>2, <1>3, <1>4, <1>5 DEF TypeOK

(* The saver at work has a job, and what it is known of it. *)
LEMMA AtWork ==
    ASSUME TypeOK, NEW w \in Savers, job[w].pc # "idle"
    PROVE  /\ job[w] \in Jobs
           /\ job[w].artifact \in Artifacts /\ job[w].content \in Contents
           /\ job[w].version \in Nat
           /\ Len(versions[job[w].artifact]) \in Nat
           /\ versions[job[w].artifact] \in Seq(Contents \cup {Torn})
<1>1. job[w] \in Jobs
  BY IdleFacts DEF TypeOK
<1>2. job[w].artifact \in Artifacts /\ job[w].content \in Contents /\ job[w].version \in Nat
  BY <1>1, IdleFacts
<1> QED
  BY <1>1, <1>2 DEF TypeOK

LEMMA BeginTypes ==
    ASSUME TypeOK, NEW w \in Savers, NEW k \in Artifacts, NEW c \in Contents, Begin(w, k, c)
    PROVE  TypeOK'
<1> DEFINE x == [pc |-> IF backend = "postgres" THEN "schema" ELSE "scan",
                 artifact |-> k, content |-> c, version |-> 0]
<1>1. x \in Jobs /\ x.pc \in {"schema", "scan"}
  BY DEF Jobs, PostgresSteps, FileSteps
<1>2. job' = [job EXCEPT ![w] = x] /\ job[w] = Idle
  BY DEF Begin
<1>3. lock # w /\ runRow # w
  BY <1>2, IdleFacts, StoreAssumption DEF TypeOK, Connected, At
<1>4. saves' \in 0..MaxSaves
  BY StoreAssumption DEF Begin, TypeOK
<1> HIDE DEF x
<1> QED
  BY <1>1, <1>2, <1>3, <1>4, TypeAfter DEF Begin, TypeOK

(* The same for a step that goes on to pc.                                   *)
LEMMA GoesTypes ==
    ASSUME TypeOK, NEW w \in Savers, job[w].pc # "idle",
           NEW pc \in PostgresSteps \cup FileSteps, Goes(w, pc),
           pc \in {"ensure", "select", "insert", "commit"}
               => w \in Connected \/ ConnectionFree,
           lock' \in Savers \cup {NoOne},
           lock' = w <=> pc = "apply",
           \A u \in Savers \ {w} : lock' = u <=> lock = u,
           \/ runRow' \in {"absent", "present"}
           \/ runRow' = runRow /\ runRow # w
           \/ runRow' \in {w, runRow} /\ pc \in {"ensure", "select", "insert", "commit"},
           versions' \in [Artifacts -> Seq(Contents \cup {Torn})],
           pointer' \in [Artifacts -> Nat \cup {Torn}],
           schema' \in BOOLEAN,
           UNCHANGED <<answers, backend, overlap, saves, crashes>>
    PROVE  TypeOK'
<1> DEFINE x == [job[w] EXCEPT !.pc = pc]
<1>1. x \in Jobs /\ x.pc = pc
  BY AtWork, JobSteps DEF Jobs
<1>2. job' = [job EXCEPT ![w] = x]
  BY DEF Goes, TypeOK
<1>3. /\ answers' \subseteq [artifact : Artifacts, content : Contents, version : Nat]
      /\ saves' \in 0..MaxSaves /\ crashes' \in 0..MaxCrashes
  BY DEF TypeOK
<1> HIDE DEF x
<1> QED
  BY <1>1, <1>2, <1>3, TypeAfter

LEMMA EnsureSchemaTypes == ASSUME TypeOK, NEW w \in Savers, EnsureSchema(w) PROVE TypeOK'
<1>1. CASE schema
  <2>1. Goes(w, "connect") /\ UNCHANGED lock
    BY <1>1 DEF EnsureSchema
  <2>2. job[w].pc = "schema" /\ runRow # w /\ lock # w
    BY StoreAssumption DEF EnsureSchema, TypeOK, Connected, At
  <2> QED
    BY <2>1, <2>2, GoesTypes, TypeAfter DEF EnsureSchema, TypeOK, PostgresSteps, FileSteps
<1>2. CASE ~schema
  <2>1. Goes(w, "apply") /\ lock' = w
    BY <1>2 DEF EnsureSchema
  <2>2. job[w].pc = "schema" /\ runRow # w /\ lock = NoOne
    BY StoreAssumption DEF EnsureSchema, TypeOK, Connected, At
  <2>3. \A u \in Savers \ {w} : lock' = u <=> lock = u
    BY <2>1, <2>2, StoreAssumption
  <2> QED
    BY <2>1, <2>2, <2>3, GoesTypes, TypeAfter
    DEF EnsureSchema, TypeOK, PostgresSteps, FileSteps
<1> QED
  BY <1>1, <1>2

LEMMA ApplySchemaTypes == ASSUME TypeOK, NEW w \in Savers, ApplySchema(w) PROVE TypeOK'
<1>1. job[w].pc = "apply" /\ lock = w /\ lock' = NoOne /\ Goes(w, "connect")
  BY DEF ApplySchema, TypeOK
<1>2. runRow # w
  BY <1>1, StoreAssumption DEF TypeOK, Connected, At
<1>3. NoOne # w /\ \A u \in Savers \ {w} : lock' = u <=> lock = u
  BY <1>1, StoreAssumption
<1> QED
  BY <1>1, <1>2, <1>3, GoesTypes, TypeAfter DEF ApplySchema, TypeOK, PostgresSteps, FileSteps

LEMMA ConnectTypes == ASSUME TypeOK, NEW w \in Savers, Connect(w) PROVE TypeOK'
<1>1. job[w].pc = "connect" /\ lock # w /\ Goes(w, "ensure") /\ ConnectionFree
  BY StoreAssumption DEF Connect
<1>2. runRow # w
  BY <1>1, StoreAssumption DEF TypeOK, Connected, At
<1> QED
  BY <1>1, <1>2, GoesTypes, TypeAfter DEF Connect, TypeOK, PostgresSteps, FileSteps

LEMMA EnsureRunTypes == ASSUME TypeOK, NEW w \in Savers, EnsureRun(w) PROVE TypeOK'
<1>1. job[w].pc = "ensure" /\ lock # w /\ Goes(w, "select") /\ w \in Connected
  BY DEF EnsureRun, TypeOK, Connected, At
<1>2. runRow' \in {w, runRow}
  BY DEF EnsureRun
<1> QED
  BY <1>1, <1>2, GoesTypes, TypeAfter DEF EnsureRun, TypeOK, PostgresSteps, FileSteps

(* The row of the run when a transaction ends. *)
LEMMA RunRowTypes ==
    ASSUME TypeOK, NEW w \in Savers, NEW r \in {"absent", "present"},
           runRow' = RunRowAfter(w, r)
    PROVE  runRow' \in {"absent", "present"} \/ (runRow' = runRow /\ runRow # w)
BY DEF RunRowAfter

(* A save returns. *)
LEMMA ReturnsTypes ==
    ASSUME TypeOK, NEW w \in Savers, job[w].pc \notin {"idle", "apply"},
           NEW n \in Nat, Returns(w, n),
           runRow' \in {"absent", "present"} \/ (runRow' = runRow /\ runRow # w),
           versions' \in [Artifacts -> Seq(Contents \cup {Torn})],
           pointer' \in [Artifacts -> Nat \cup {Torn}],
           UNCHANGED <<backend, overlap, schema, lock, saves, crashes>>
    PROVE  TypeOK'
<1>1. answers' \subseteq [artifact : Artifacts, content : Contents, version : Nat]
  <2>1. [artifact |-> job[w].artifact, content |-> job[w].content, version |-> n]
            \in [artifact : Artifacts, content : Contents, version : Nat]
    BY AtWork
  <2> QED
    BY <2>1 DEF Returns, TypeOK
<1>2. job' = [job EXCEPT ![w] = Idle]
  BY DEF Returns
<1>3. lock # w /\ lock' \in Savers \cup {NoOne} /\ schema' \in BOOLEAN
  BY DEF TypeOK
<1>4. saves' \in 0..MaxSaves /\ crashes' \in 0..MaxCrashes
  BY DEF TypeOK
<1>5. Idle.pc \notin {"ensure", "select", "insert", "commit", "apply"}
  BY IdleFacts
<1> QED
  BY <1>1, <1>2, <1>3, <1>4, <1>5, TypeAfter

LEMMA SelectTypes == ASSUME TypeOK, NEW w \in Savers, Select(w) PROVE TypeOK'
<1> DEFINE s == versions[job[w].artifact]
<1>1. job[w].pc = "select" /\ w \in Connected /\ lock # w
  BY DEF Select, TypeOK, Connected, At
<1>2. job[w] \in Jobs /\ Len(s) \in Nat
  BY <1>1, AtWork
<1>3. CASE SameContent(s, job[w].content)
  <2>1. Returns(w, Len(s)) /\ runRow' = RunRowAfter(w, "present")
    BY <1>3 DEF Select
  <2> HIDE DEF s
  <2> QED
    BY <1>1, <1>2, <2>1, RunRowTypes, ReturnsTypes DEF Select, TypeOK
<1>4. CASE ~SameContent(s, job[w].content)
  <2> DEFINE x == [job[w] EXCEPT !.pc = "insert", !.version = Len(s) + 1]
  <2>1. job' = [job EXCEPT ![w] = x] /\ UNCHANGED <<runRow, answers>>
    BY <1>4 DEF Select, TypeOK
  <2>2. x \in Jobs /\ x.pc = "insert"
    <3>1. "insert" \in PostgresSteps \cup FileSteps /\ Len(s) + 1 \in Nat
      BY <1>2 DEF PostgresSteps
    <3> HIDE DEF s
    <3> QED
      BY <1>2, <3>1, JobSteps
  <2>3. UNCHANGED <<backend, overlap, schema, lock, versions, pointer, saves, crashes>>
    BY DEF Select
  <2>4. /\ lock' \in Savers \cup {NoOne} /\ lock' # w /\ schema' \in BOOLEAN
        /\ versions' \in [Artifacts -> Seq(Contents \cup {Torn})]
        /\ pointer' \in [Artifacts -> Nat \cup {Torn}]
        /\ answers' \subseteq [artifact : Artifacts, content : Contents, version : Nat]
        /\ saves' \in 0..MaxSaves /\ crashes' \in 0..MaxCrashes
    BY <1>1, <2>1, <2>3 DEF TypeOK
  <2> HIDE DEF x
  <2> QED
    BY <1>1, <2>1, <2>2, <2>3, <2>4, TypeAfter
<1> QED
  BY <1>3, <1>4

LEMMA InsertTypes == ASSUME TypeOK, NEW w \in Savers, Insert(w) PROVE TypeOK'
<1>1. job[w].pc = "insert" /\ w \in Connected /\ lock # w
  BY DEF Insert, TypeOK, Connected, At
<1>2. CASE Taken(job[w].artifact, job[w].version)
  <2>1. job' = [job EXCEPT ![w] = Idle] /\ runRow' = RunRowAfter(w, "absent")
    BY <1>2 DEF Insert
  <2>2. UNCHANGED <<backend, overlap, schema, lock, versions, pointer, answers, saves, crashes>>
    BY DEF Insert
  <2> QED
    BY <1>1, <2>1, <2>2, RunRowTypes, IdleFacts, TypeAfter DEF TypeOK
<1>3. CASE ~Taken(job[w].artifact, job[w].version)
  <2>1. Goes(w, "commit") /\ UNCHANGED runRow
    BY <1>3 DEF Insert
  <2> QED
    BY <1>1, <2>1, GoesTypes DEF Insert, TypeOK, PostgresSteps, FileSteps
<1> QED
  BY <1>2, <1>3

(* Versions that are added, filled or replaced are versions. *)
LEMMA VersionTypes ==
    ASSUME TypeOK, NEW k \in Artifacts, NEW n \in Nat, NEW c \in Contents \cup {Torn}
    PROVE  /\ Append(versions[k], c) \in Seq(Contents \cup {Torn})
           /\ WithVersion(versions[k], n, c) \in Seq(Contents \cup {Torn})
           /\ [versions EXCEPT ![k] = Append(@, c)] \in [Artifacts -> Seq(Contents \cup {Torn})]
           /\ [versions EXCEPT ![k] = WithVersion(@, n, c)]
                  \in [Artifacts -> Seq(Contents \cup {Torn})]
<1>1. versions \in [Artifacts -> Seq(Contents \cup {Torn})]
      /\ versions[k] \in Seq(Contents \cup {Torn})
  BY DEF TypeOK
<1>2. Append(versions[k], c) \in Seq(Contents \cup {Torn})
  BY <1>1
<1>3. n \in 1..Len(versions[k]) => [versions[k] EXCEPT ![n] = c] \in Seq(Contents \cup {Torn})
  BY <1>1, ExceptSeq
<1>4. WithVersion(versions[k], n, c) \in Seq(Contents \cup {Torn})
  BY <1>2, <1>3 DEF WithVersion
<1> DEFINE S == Seq(Contents \cup {Torn})
           a == Append(versions[k], c)
           b == WithVersion(versions[k], n, c)
<1>5. versions \in [Artifacts -> S] /\ a \in S /\ b \in S
  BY <1>1, <1>2, <1>4
<1>6. /\ [versions EXCEPT ![k] = Append(@, c)] = [versions EXCEPT ![k] = a]
      /\ [versions EXCEPT ![k] = WithVersion(@, n, c)] = [versions EXCEPT ![k] = b]
  OBVIOUS
<1>7. [versions EXCEPT ![k] = a] \in [Artifacts -> S] /\ [versions EXCEPT ![k] = b] \in [Artifacts -> S]
  <2> HIDE DEF S, a, b
  <2> QED
    BY <1>5
<1> QED
  BY <1>2, <1>4, <1>6, <1>7

LEMMA CommitTypes == ASSUME TypeOK, NEW w \in Savers, Commit(w) PROVE TypeOK'
<1>1. job[w].pc = "commit" /\ Returns(w, job[w].version) /\ runRow' = RunRowAfter(w, "present")
  BY DEF Commit
<1>2. versions' \in [Artifacts -> Seq(Contents \cup {Torn})] /\ job[w].version \in Nat
  BY <1>1, AtWork, VersionTypes DEF Commit
<1> QED
  BY <1>1, <1>2, RunRowTypes, ReturnsTypes DEF Commit, TypeOK

(* A saver of files holds neither the lock nor the row. *)
LEMMA FileSaver ==
    ASSUME TypeOK, NEW w \in Savers, job[w].pc \in FileSteps
    PROVE  lock # w /\ runRow # w /\ job[w].pc # "idle"
BY StoreAssumption DEF TypeOK, Connected, At, FileSteps

LEMMA ScanTypes == ASSUME TypeOK, NEW w \in Savers, Scan(w) PROVE TypeOK'
<1> DEFINE x == [job[w] EXCEPT !.pc = "create", !.version = Len(versions[job[w].artifact]) + 1]
<1>1. job[w].pc = "scan" /\ lock # w /\ runRow # w
  BY FileSaver DEF Scan, FileSteps
<1>2. job[w] \in Jobs /\ Len(versions[job[w].artifact]) \in Nat
  BY <1>1, AtWork
<1>3. x \in Jobs /\ x.pc = "create"
  <2>1. "create" \in PostgresSteps \cup FileSteps /\ Len(versions[job[w].artifact]) + 1 \in Nat
    BY <1>2 DEF FileSteps
  <2> QED
    BY <1>2, <2>1, JobSteps
<1>4. job' = [job EXCEPT ![w] = x]
  BY DEF Scan, TypeOK
<1> HIDE DEF x
<1> QED
  BY <1>1, <1>3, <1>4, TypeAfter DEF Scan, TypeOK

LEMMA CreateTypes == ASSUME TypeOK, NEW w \in Savers, Create(w) PROVE TypeOK'
<1>1. job[w].pc = "create" /\ lock # w /\ runRow # w /\ Goes(w, "fill")
  BY FileSaver DEF Create, FileSteps
<1>2. versions' \in [Artifacts -> Seq(Contents \cup {Torn})]
  BY <1>1, AtWork, VersionTypes DEF Create
<1> QED
  BY <1>1, <1>2, GoesTypes DEF Create, TypeOK, FileSteps, PostgresSteps

LEMMA FillTypes == ASSUME TypeOK, NEW w \in Savers, Fill(w) PROVE TypeOK'
<1>1. job[w].pc = "fill" /\ lock # w /\ runRow # w /\ Goes(w, "point")
  BY FileSaver DEF Fill, FileSteps
<1>2. versions' \in [Artifacts -> Seq(Contents \cup {Torn})]
  BY <1>1, AtWork, VersionTypes DEF Fill
<1> QED
  BY <1>1, <1>2, GoesTypes DEF Fill, TypeOK, FileSteps, PostgresSteps

LEMMA PointTypes == ASSUME TypeOK, NEW w \in Savers, Point(w) PROVE TypeOK'
<1>1. job[w].pc = "point" /\ lock # w /\ runRow # w /\ Goes(w, "name")
  BY FileSaver DEF Point, FileSteps
<1> QED
  BY <1>1, GoesTypes DEF Point, TypeOK, FileSteps, PostgresSteps

LEMMA NameTypes == ASSUME TypeOK, NEW w \in Savers, Name(w) PROVE TypeOK'
<1>1. job[w].pc = "name" /\ lock # w /\ runRow # w /\ Returns(w, job[w].version)
  BY FileSaver DEF Name, FileSteps
<1>2. job[w].version \in Nat
  BY <1>1, AtWork
<1> QED
  BY <1>1, <1>2, ReturnsTypes DEF Name, TypeOK

LEMMA CrashTypes == ASSUME TypeOK, NEW w \in Savers, Crash(w) PROVE TypeOK'
<1>1. job' = [job EXCEPT ![w] = Idle] /\ runRow' = RunRowAfter(w, "absent")
  BY DEF Crash
<1>2. lock' \in Savers \cup {NoOne} /\ lock' # w /\ \A u \in Savers \ {w} : lock' = u <=> lock = u
  BY StoreAssumption DEF Crash, TypeOK
<1>3. crashes' \in 0..MaxCrashes
  BY StoreAssumption DEF Crash, TypeOK
<1>4. UNCHANGED <<backend, overlap, schema, versions, pointer, answers, saves>>
  BY DEF Crash
<1> QED
  BY <1>1, <1>2, <1>3, <1>4, RunRowTypes, IdleFacts, TypeAfter DEF TypeOK

(* TypeOK holds, crashes and overlapping saves included: connections stay    *)
(* within the pool, _pool_lock is held just while the tables are made, and   *)
(* an uncommitted row of the run belongs to an open transaction.             *)
THEOREM TypeCorrect == Spec => []TypeOK
<1>1. TypeOK /\ [Next]_vars => TypeOK'
  <2> SUFFICES ASSUME TypeOK, [Next]_vars PROVE TypeOK'
    OBVIOUS
  <2>1. CASE UNCHANGED vars
    BY <2>1 DEF vars, TypeOK, Connected, At
  <2>2. CASE Next
    <3>1. PICK w \in Savers : \/ \E k \in Artifacts, c \in Contents : Begin(w, k, c)
                              \/ SaverStep(w) \/ Crash(w)
      BY <2>2 DEF Next
    <3> QED
      BY <3>1, BeginTypes, EnsureSchemaTypes, ApplySchemaTypes, ConnectTypes, EnsureRunTypes,
         SelectTypes, InsertTypes, CommitTypes, ScanTypes, CreateTypes, FillTypes,
         PointTypes, NameTypes, CrashTypes DEF SaverStep
  <2> QED
    BY <2>1, <2>2
<1> QED
  BY <1>1, TypeInit, PTL DEF Spec

-----------------------------------------------------------------------------
(* Versions: what save promised is kept.                                     *)

LEMMA SequenceFacts ==
    ASSUME NEW S, NEW s \in Seq(S)
    PROVE  /\ Len(s) \in Nat
           /\ s # <<>> <=> Len(s) >= 1
           /\ \A i \in 1..Len(s) : s[i] \in S
           /\ \A c \in S : /\ Append(s, c) \in Seq(S)
                           /\ Len(Append(s, c)) = Len(s) + 1
                           /\ Append(s, c) # <<>>
                           /\ \A i \in 1..Len(s) : Append(s, c)[i] = s[i]
                           /\ Append(s, c)[Len(s) + 1] = c
<1>1. Len(s) \in Nat /\ (s # <<>> <=> Len(s) >= 1) /\ \A i \in 1..Len(s) : s[i] \in S
  BY EmptySeq
<1>2. ASSUME NEW c \in S
      PROVE  /\ Append(s, c) \in Seq(S)
             /\ Len(Append(s, c)) = Len(s) + 1
             /\ Append(s, c) # <<>>
             /\ \A i \in 1..Len(s) : Append(s, c)[i] = s[i]
             /\ Append(s, c)[Len(s) + 1] = c
  <2>1. /\ Append(s, c) \in Seq(S)
        /\ Len(Append(s, c)) = Len(s) + 1
        /\ \A i \in 1..Len(s) : Append(s, c)[i] = s[i]
        /\ Append(s, c)[Len(s) + 1] = c
    BY AppendProperties
  <2> QED
    BY <2>1, <1>1, EmptySeq
<1> QED
  BY <1>1, <1>2

LEMMA InvInit == Init => IInv
<1> SUFFICES ASSUME Init PROVE IInv
  OBVIOUS
<1>1. \A w \in Savers : job[w] = Idle
  BY DEF Init
<1>2. \A k \in Artifacts : versions[k] = <<>> /\ pointer[k] = 0
  BY DEF Init
<1>3. answers = {}
  BY DEF Init
<1>4. Len(<<>>) = 0 /\ <<>> \in Seq(Contents)
  OBVIOUS
<1>5. PostgresInv
  BY <1>1, <1>2, <1>4, IdleFacts DEF PostgresInv, At
<1>6. FilesInv
  BY <1>1, <1>2, <1>4 DEF FilesInv
<1>7. AnswersKept /\ (Ordered => \A a \in answers : a.version # 0)
  BY <1>3 DEF AnswersKept
<1>8. ReadsFollowSaves
  BY <1>2, <1>3, <1>4, StoreAssumption DEF ReadsFollowSaves, Found
<1>9. NoRepeatedVersion
  <2> SUFFICES ASSUME NEW k \in Artifacts, NEW i \in 1..(Len(versions[k]) - 1) PROVE FALSE
    BY DEF NoRepeatedVersion
  <2> QED
    BY <1>2, <1>4
<1> QED
  BY <1>5, <1>6, <1>7, <1>8, <1>9 DEF IInv

(* A step that touches neither versions nor pointers nor answers keeps IInv  *)
(* if it leaves the saver a job that fits.                                   *)
LEMMA QuietStep ==
    ASSUME TypeOK, IInv, NEW w \in Savers, NEW x \in Jobs \cup {Idle},
           job' = [job EXCEPT ![w] = x],
           UNCHANGED <<backend, overlap, versions, pointer, answers>>,
           backend = "postgres" /\ x # Idle => PostgresFits(x),
           backend = "postgres" /\ x.pc = "commit" =>
               \A u \in At({"commit"}) : job[u].artifact = x.artifact => u = w,
           backend = "files" /\ ~overlap /\ x # Idle =>
               FileFits(x) /\ \A u \in Savers : job[u].artifact = x.artifact => u = w
    PROVE  IInv'
<1>1. job'[w] = x /\ \A u \in Savers : u # w => job'[u] = job[u]
  BY DEF TypeOK
<1>2. PostgresInv'
  <2> SUFFICES ASSUME backend = "postgres" PROVE PostgresInv'
    BY DEF PostgresInv
  <2>2. \A u \in Savers : job'[u] # Idle => PostgresFits(job'[u])
    BY <1>1 DEF IInv, PostgresInv
  <2>3. \A u \in Savers : (job[u] # Idle => PostgresFits(job[u]))'
    BY <2>2 DEF PostgresFits
  <2>4. (\A u, v \in At({"commit"}) : job[u].artifact = job[v].artifact => u = v)'
    BY <1>1 DEF IInv, PostgresInv, At
  <2> QED
    BY <2>3, <2>4 DEF IInv, PostgresInv
<1>3. FilesInv'
  <2> SUFFICES ASSUME backend = "files", ~overlap PROVE FilesInv'
    BY DEF FilesInv
  <2>1. \A u \in Savers : job'[u] # Idle => FileFits(job'[u])
    BY <1>1 DEF IInv, FilesInv
  <2>2. \A u \in Savers : (job[u] # Idle => FileFits(job[u]))'
    BY <2>1 DEF FileFits
  <2>3. Idle.artifact = NoOne /\ \A u \in Savers : job[u] # Idle => job[u].artifact # NoOne
    BY IdleFacts DEF TypeOK
  <2>4. (\A u, v \in Savers : job[v] # Idle /\ job[u].artifact = job[v].artifact => u = v)'
    <3> SUFFICES ASSUME NEW u \in Savers, NEW v \in Savers,
                        job'[v] # Idle, job'[u].artifact = job'[v].artifact
                 PROVE  u = v
      OBVIOUS
    <3>1. CASE v = w
      BY <3>1, <1>1
    <3>2. CASE v # w /\ u = w
      <4>1. job[v] # Idle /\ job[v].artifact = x.artifact
        BY <3>2, <1>1
      <4>2. x # Idle
        BY <4>1, <2>3
      <4> QED
        BY <4>1, <4>2
    <3>3. CASE v # w /\ u # w
      BY <3>3, <1>1 DEF IInv, FilesInv
    <3> QED
      BY <3>1, <3>2, <3>3
  <2> QED
    BY <2>2, <2>4 DEF IInv, FilesInv
<1> QED
  BY <1>2, <1>3 DEF IInv, AnswersKept, ReadsFollowSaves, NoRepeatedVersion, Ordered, Found

(* The same for a step that goes on to pc.                                   *)
LEMMA QuietGoes ==
    ASSUME TypeOK, IInv, NEW w \in Savers, job[w].pc # "idle",
           NEW pc \in PostgresSteps \cup FileSteps, Goes(w, pc),
           UNCHANGED <<backend, overlap, versions, pointer, answers>>,
           backend = "postgres" => pc \in PostgresSteps \ {"insert", "commit"},
           backend = "files" /\ ~overlap => FileFits([job[w] EXCEPT !.pc = pc])
    PROVE  IInv'
<1> DEFINE x == [job[w] EXCEPT !.pc = pc]
<1>1. x \in Jobs /\ x.pc = pc /\ x.artifact = job[w].artifact /\ job[w] # Idle
  BY AtWork, JobSteps, IdleFacts DEF Jobs
<1>2. job' = [job EXCEPT ![w] = x]
  BY DEF Goes, TypeOK
<1>3. backend = "postgres" => PostgresFits(x) /\ x.pc # "commit"
  BY <1>1 DEF PostgresFits
<1>4. backend = "files" /\ ~overlap =>
          FileFits(x) /\ \A u \in Savers : job[u].artifact = x.artifact => u = w
  BY <1>1 DEF IInv, FilesInv
<1> HIDE DEF x
<1> QED
  BY <1>1, <1>2, <1>3, <1>4, QuietStep

(* ... and for a save that ends without an answer.                           *)
LEMMA QuietEnd ==
    ASSUME TypeOK, IInv, NEW w \in Savers, job' = [job EXCEPT ![w] = Idle],
           UNCHANGED <<backend, overlap, versions, pointer, answers>>
    PROVE  IInv'
BY QuietStep, IdleFacts

LEMMA BeginKeeps ==
    ASSUME TypeOK, IInv, NEW w \in Savers, NEW k \in Artifacts, NEW c \in Contents, Begin(w, k, c)
    PROVE  IInv'
<1> DEFINE x == [pc |-> IF backend = "postgres" THEN "schema" ELSE "scan",
                 artifact |-> k, content |-> c, version |-> 0]
<1>1. x \in Jobs /\ x.pc \in {"schema", "scan"} /\ x.artifact = k
  BY DEF Jobs, PostgresSteps, FileSteps
<1>2. job' = [job EXCEPT ![w] = x]
  BY DEF Begin
<1>3. backend = "postgres" => PostgresFits(x)
  BY DEF PostgresFits, PostgresSteps
<1>4. backend = "files" /\ ~overlap =>
          FileFits(x) /\ \A u \in Savers : job[u].artifact # x.artifact
  BY DEF FileFits, FileSteps, Begin, SaversOf
<1>5. UNCHANGED <<backend, overlap, versions, pointer, answers>>
  BY DEF Begin
<1> HIDE DEF x
<1> QED
  BY <1>1, <1>2, <1>3, <1>4, <1>5, QuietStep

(* What a step of a saver's own store tells about the other store.           *)
LEMMA StoreOfJob ==
    ASSUME TypeOK, IInv, NEW w \in Savers, job[w].pc # "idle"
    PROVE  /\ job[w] # Idle
           /\ job[w].pc \in PostgresSteps => ~(backend = "files" /\ ~overlap)
           /\ job[w].pc \in FileSteps => backend # "postgres"
           /\ backend = "postgres" => PostgresFits(job[w])
           /\ backend = "files" /\ ~overlap => FileFits(job[w])
BY IdleFacts DEF IInv, PostgresInv, FilesInv, PostgresFits, FileFits, PostgresSteps, FileSteps

LEMMA EarlyStepsKeep ==
    ASSUME TypeOK, IInv, NEW w \in Savers,
           EnsureSchema(w) \/ ApplySchema(w) \/ Connect(w) \/ EnsureRun(w)
    PROVE  IInv'
<1>1. job[w].pc \in {"schema", "apply", "connect", "ensure"}
  BY DEF EnsureSchema, ApplySchema, Connect, EnsureRun
<1>2. PICK pc \in {"apply", "connect", "ensure", "select"} : Goes(w, pc)
  BY DEF EnsureSchema, ApplySchema, Connect, EnsureRun
<1>3. UNCHANGED <<backend, overlap, versions, pointer, answers>>
  BY DEF EnsureSchema, ApplySchema, Connect, EnsureRun
<1>4. ~(backend = "files" /\ ~overlap)
  BY <1>1, StoreOfJob DEF PostgresSteps
<1> QED
  BY <1>1, <1>2, <1>3, <1>4, QuietGoes DEF PostgresSteps

LEMMA InsertKeeps == ASSUME TypeOK, IInv, NEW w \in Savers, Insert(w) PROVE IInv'
<1> DEFINE k == job[w].artifact
           n == job[w].version
<1>1. job[w].pc = "insert" /\ ~Pending(k, n)
      /\ UNCHANGED <<backend, overlap, versions, pointer, answers>>
  BY DEF Insert
<1>2. CASE Taken(k, n)
  BY <1>1, <1>2, QuietEnd DEF Insert
<1>3. CASE ~Taken(k, n)
  <2> DEFINE x == [job[w] EXCEPT !.pc = "commit"]
  <2>1. job[w] \in Jobs /\ Len(versions[k]) \in Nat /\ n \in Nat
    BY <1>1, AtWork
  <2>2. /\ x \in Jobs /\ x.pc = "commit" /\ x.artifact = k
        /\ x.version = n /\ x.content = job[w].content
    BY <2>1, JobSteps DEF Jobs, PostgresSteps
  <2>3. job' = [job EXCEPT ![w] = x]
    BY <1>3 DEF Insert, Goes, TypeOK
  <2>4. ~(backend = "files" /\ ~overlap)
    BY <1>1, StoreOfJob DEF PostgresSteps
  <2>5. backend = "postgres" => /\ n = Len(versions[k]) + 1
                                /\ ~SameContent(versions[k], job[w].content)
    BY <1>1, <1>3, <2>1, StoreOfJob DEF PostgresFits, Taken
  <2>6. backend = "postgres" => PostgresFits(x)
    <3> HIDE DEF x
    <3> QED
      BY <2>1, <2>2, <2>5 DEF PostgresFits, PostgresSteps
  <2>7. backend = "postgres" =>
            \A u \in At({"commit"}) : job[u].artifact = x.artifact => u = w
    <3> SUFFICES ASSUME backend = "postgres", NEW u \in At({"commit"}), job[u].artifact = k
                 PROVE  FALSE
      BY <2>2
    <3>1. PostgresFits(job[u])
      BY StoreOfJob DEF At
    <3>2. job[u].version = n
      BY <3>1, <2>5 DEF PostgresFits, At
    <3> QED
      BY <3>2, <1>1 DEF Pending
  <2> HIDE DEF x
  <2> QED
    BY <1>1, <2>2, <2>3, <2>4, <2>6, <2>7, QuietStep
<1> QED
  BY <1>2, <1>3

(* Nothing is said of files with overlapping saves. *)
LEMMA Unordered ==
    ASSUME ~Ordered, TypeOK, UNCHANGED <<backend, overlap>>
    PROVE  IInv'
BY DEF Ordered, TypeOK, IInv, PostgresInv, FilesInv, AnswersKept, ReadsFollowSaves, NoRepeatedVersion

(* In an ordered store every answer is a version that is there.              *)
LEMMA AnswerFacts ==
    ASSUME TypeOK, IInv, Ordered, NEW a \in answers
    PROVE  /\ a.artifact \in Artifacts /\ a.content \in Contents
           /\ a.version \in 1..Len(versions[a.artifact])
           /\ versions[a.artifact][a.version] = a.content
<1>1. a.artifact \in Artifacts /\ a.content \in Contents /\ a.version \in Nat
  BY DEF TypeOK
<1>2. /\ a.version <= Len(versions[a.artifact]) /\ a.version # 0
      /\ versions[a.artifact][a.version] = a.content
  BY DEF IInv, AnswersKept
<1>3. Len(versions[a.artifact]) \in Nat
  BY <1>1 DEF TypeOK
<1> QED
  BY <1>1, <1>2, <1>3

LEMMA SelectKeeps == ASSUME TypeOK, IInv, NEW w \in Savers, Select(w) PROVE IInv'
<1> DEFINE k == job[w].artifact
           c == job[w].content
           s == versions[k]
<1>1. job[w].pc = "select" /\ UNCHANGED <<backend, overlap, versions, pointer>>
  BY DEF Select
<1>2. /\ job[w] \in Jobs /\ Len(s) \in Nat /\ s \in Seq(Contents \cup {Torn})
      /\ k \in Artifacts /\ c \in Contents
  BY <1>1, AtWork
<1>3. ~(backend = "files" /\ ~overlap)
  BY <1>1, StoreOfJob DEF PostgresSteps
<1>4. CASE SameContent(s, c)
  <2>1. Returns(w, Len(s))
    BY <1>4 DEF Select
  <2>2. s # <<>> /\ s[Len(s)] = c /\ Len(s) # 0
    BY <1>2, <1>4, SequenceFacts DEF SameContent
  <2>3. job' = [job EXCEPT ![w] = Idle]
    BY <2>1 DEF Returns
  <2> DEFINE new == [artifact |-> k, content |-> c, version |-> Len(s)]
  <2>4. answers' = answers \cup {new}
    BY <2>1 DEF Returns
  <2> HIDE DEF s
  <2>5. PostgresInv'
    <3> SUFFICES ASSUME backend = "postgres" PROVE PostgresInv'
      BY <1>1 DEF PostgresInv
    <3>1. job'[w] = Idle /\ \A u \in Savers : u # w => job'[u] = job[u]
      BY <2>3 DEF TypeOK
    <3>2. \A u \in Savers : (job[u] # Idle => PostgresFits(job[u]))'
      BY <1>1, <3>1 DEF IInv, PostgresInv, PostgresFits
    <3>3. (\A u, v \in At({"commit"}) : job[u].artifact = job[v].artifact => u = v)'
      BY <3>1, IdleFacts DEF IInv, PostgresInv, At
    <3> QED
      BY <1>1, <3>2, <3>3 DEF IInv, PostgresInv
  <2>6. FilesInv'
    BY <1>1, <1>3 DEF FilesInv
  <2>7. (Ordered => \A a \in answers : a.version # 0)' /\ AnswersKept'
    <3>1. new.version # 0 /\ new.version <= Len(versions[new.artifact])
          /\ versions[new.artifact][new.version] = new.content
      BY <1>2, <2>2 DEF s
    <3> HIDE DEF new
    <3> QED
      BY <1>1, <2>4, <3>1 DEF IInv, AnswersKept, Ordered
  <2>8. ReadsFollowSaves'
    <3> SUFFICES ASSUME backend = "postgres" PROVE ReadsFollowSaves'
      BY <1>1, <1>3 DEF ReadsFollowSaves, Ordered, TypeOK
    <3>1. \A h \in Artifacts : Found(h)' = Found(h) /\ Found(h) = Len(versions[h]) /\ Found(h) \in Nat
      BY <1>1 DEF Found, TypeOK
    <3>2. Ordered /\ new.artifact = k /\ new.version = Found(k)
      BY <1>2 DEF Ordered, Found, s
    <3>3. Torn \notin Nat
      BY StoreAssumption
    <3>4. ASSUME NEW h \in Artifacts
          PROVE  (/\ \A a \in answers : a.artifact = h => a.version <= Found(h)
                  /\ Found(h) # 0 => versions[h][Found(h)] \in Contents)'
      <4>1. /\ \A a \in answers : a.artifact = h => a.version <= Found(h)
            /\ Found(h) # 0 => versions[h][Found(h)] \in Contents
        BY <3>1, <3>2, <3>3 DEF IInv, ReadsFollowSaves
      <4>2. new.artifact = h => new.version <= Found(h)
        BY <3>1, <3>2
      <4> HIDE DEF new
      <4> QED
        BY <1>1, <2>4, <3>1, <4>1, <4>2
    <3> QED
      BY <3>4 DEF ReadsFollowSaves
  <2>9. NoRepeatedVersion'
    BY <1>1 DEF IInv, NoRepeatedVersion
  <2> QED
    BY <2>5, <2>6, <2>7, <2>8, <2>9 DEF IInv
<1>5. CASE ~SameContent(s, c)
  <2> DEFINE x == [job[w] EXCEPT !.pc = "insert", !.version = Len(s) + 1]
  <2>1. job' = [job EXCEPT ![w] = x] /\ UNCHANGED answers
    BY <1>5 DEF Select, TypeOK
  <2>2. /\ x \in Jobs /\ x.pc = "insert" /\ x.version = Len(s) + 1
        /\ x.artifact = k /\ x.content = c
    <3> DEFINE j == job[w]
               n == Len(s) + 1
    <3>1. "insert" \in PostgresSteps \cup FileSteps /\ n \in Nat /\ j \in Jobs
      BY <1>2 DEF PostgresSteps
    <3> HIDE DEF n, j
    <3>2. LET y == [j EXCEPT !.pc = "insert", !.version = n] IN
          /\ y \in Jobs /\ y.pc = "insert" /\ y.version = n
          /\ y.artifact = j.artifact /\ y.content = j.content
      BY <3>1 DEF Jobs
    <3> QED
      BY <3>2 DEF n, j
  <2> HIDE DEF x
  <2>3. PostgresFits(x)
    BY <1>2, <1>5, <2>2 DEF PostgresFits, PostgresSteps
  <2>4. x.pc # "commit"
    BY <2>2
  <2> HIDE DEF s
  <2> QED
    BY <1>1, <1>3, <2>1, <2>2, <2>3, <2>4, QuietStep
<1> QED
  BY <1>4, <1>5

LEMMA CommitKeeps == ASSUME TypeOK, IInv, NEW w \in Savers, Commit(w) PROVE IInv'
<1> DEFINE k == job[w].artifact
           c == job[w].content
           s == versions[k]
           new == [artifact |-> k, content |-> c, version |-> Len(s) + 1]
<1>1. job[w].pc = "commit" /\ UNCHANGED <<backend, overlap, pointer>>
  BY DEF Commit
<1>2. ~(backend = "files" /\ ~overlap) /\ (backend = "postgres" => PostgresFits(job[w]))
  BY <1>1, StoreOfJob DEF PostgresSteps
<1>3. CASE ~Ordered
  BY <1>1, <1>3, Unordered
<1>4. CASE backend = "postgres"
  <2>1. /\ job[w] \in Jobs /\ Len(s) \in Nat /\ k \in Artifacts /\ c \in Contents
        /\ s \in Seq(Contents)
    BY <1>1, <1>4, AtWork DEF IInv, PostgresInv
  <2>2. job[w].version = Len(s) + 1 /\ ~SameContent(s, c)
    BY <1>1, <1>2, <1>4 DEF PostgresFits
  <2>3. /\ versions' = [versions EXCEPT ![k] = Append(s, c)]
        /\ job' = [job EXCEPT ![w] = Idle]
        /\ answers' = answers \cup {new}
    BY <2>2 DEF Commit, Returns
  <2>4. /\ versions'[k] = Append(s, c)
        /\ \A h \in Artifacts : h # k => versions'[h] = versions[h]
    BY <2>1, <2>3 DEF TypeOK
  <2> HIDE DEF s
  <2>5. /\ versions'[k] \in Seq(Contents) /\ Len(versions'[k]) = Len(s) + 1
        /\ versions'[k] # <<>>
        /\ \A i \in 1..Len(s) : versions'[k][i] = s[i]
        /\ versions'[k][Len(s) + 1] = c
    BY <2>1, <2>4, SequenceFacts
  <2>6. job'[w] = Idle /\ \A u \in Savers : u # w => job'[u] = job[u]
    BY <2>3 DEF TypeOK
  <2>7. PostgresInv'
    <3>1. ASSUME NEW u \in Savers, job'[u] # Idle
          PROVE  PostgresFits(job[u])'
      <4>1. u # w /\ job'[u] = job[u] /\ PostgresFits(job[u])
        BY <1>4, <2>6, <3>1 DEF IInv, PostgresInv
      <4>2. job[u].artifact \in Artifacts /\ job[u].version \in Nat
        BY <3>1, <4>1, IdleFacts DEF TypeOK
      <4>3. CASE job[u].artifact # k
        BY <2>4, <4>1, <4>2, <4>3 DEF PostgresFits
      <4>4. CASE job[u].artifact = k
        <5>1. job[u].pc # "commit"
          BY <1>1, <1>4, <4>1, <4>4 DEF IInv, PostgresInv, At
        <5>2. job[u].pc = "insert" => job[u].version \in 1..(Len(s) + 1)
          BY <4>1, <4>4 DEF PostgresFits, s
        <5> QED
          BY <2>1, <2>5, <4>1, <4>2, <4>4, <5>1, <5>2 DEF PostgresFits
      <4> QED
        BY <4>3, <4>4
    <3>2. (\A u, v \in At({"commit"}) : job[u].artifact = job[v].artifact => u = v)'
      BY <1>4, <2>6, IdleFacts DEF IInv, PostgresInv, At
    <3>3. \A h \in Artifacts : versions'[h] \in Seq(Contents)
      BY <1>4, <2>4, <2>5 DEF IInv, PostgresInv
    <3> QED
      BY <3>1, <3>2, <3>3 DEF PostgresInv
  <2>8. FilesInv'
    BY <1>1, <1>2 DEF FilesInv
  <2>9. (Ordered => \A a \in answers : a.version # 0)' /\ AnswersKept'
    <3>1. ASSUME NEW a \in answers'
          PROVE  /\ a.version # 0 /\ a.version <= Len(versions'[a.artifact])
                 /\ versions'[a.artifact][a.version] = a.content
      <4>1. CASE a \in answers
        <5>1. /\ a.artifact \in Artifacts
              /\ a.version \in 1..Len(versions[a.artifact])
              /\ versions[a.artifact][a.version] = a.content
          BY <1>4, <4>1, AnswerFacts DEF Ordered
        <5>2. CASE a.artifact # k
          BY <2>4, <5>1, <5>2
        <5>3. CASE a.artifact = k
          <6>1. a.version \in 1..Len(s) /\ s[a.version] = a.content
            BY <5>1, <5>3 DEF s
          <6>2. versions'[a.artifact] = versions'[k]
            BY <5>3
          <6> QED
            BY <2>1, <2>5, <6>1, <6>2
        <5> QED
          BY <5>2, <5>3
      <4>2. CASE a = new
        <5>1. a.artifact = k /\ a.content = c /\ a.version = Len(s) + 1
          BY <4>2
        <5> QED
          BY <2>1, <2>5, <5>1
      <4> QED
        BY <2>3, <3>1, <4>1, <4>2
    <3> QED
      BY <3>1 DEF AnswersKept
  <2>10. ReadsFollowSaves'
    <3>1. ASSUME NEW h \in Artifacts
          PROVE  (/\ \A a \in answers : a.artifact = h => a.version <= Found(h)
                  /\ Found(h) # 0 => versions[h][Found(h)] \in Contents)'
      <4>1. Found(h)' = Len(versions'[h]) /\ versions'[h] \in Seq(Contents)
        BY <1>1, <1>4, <2>7 DEF Found, PostgresInv
      <4>2. Found(h)' # 0 => versions'[h][Found(h)'] \in Contents
        BY <4>1
      <4>3. \A a \in answers' : a.artifact = h => a.version <= Found(h)'
        BY <1>1, <1>4, <2>9, <4>1 DEF AnswersKept, Ordered
      <4> QED
        BY <4>2, <4>3
    <3> QED
      BY <3>1 DEF ReadsFollowSaves
  <2>11. NoRepeatedVersion'
    <3> SUFFICES ASSUME NEW h \in Artifacts, NEW i \in 1..(Len(versions'[h]) - 1)
                 PROVE  versions'[h][i] # versions'[h][i + 1]
      BY DEF NoRepeatedVersion
    <3>1. CASE h # k
      BY <1>4, <2>4, <3>1 DEF IInv, NoRepeatedVersion
    <3>2. CASE h = k /\ i = Len(s)
      <4>1. s # <<>> /\ versions'[k][i] = s[Len(s)] /\ versions'[k][i + 1] = c
        BY <2>1, <2>5, <3>2, SequenceFacts
      <4> QED
        BY <2>2, <3>2, <4>1 DEF SameContent
    <3>3. CASE h = k /\ i # Len(s)
      <4>1. i \in 1..(Len(s) - 1)
        BY <2>1, <2>5, <3>3
      <4>2. s[i] # s[i + 1]
        BY <1>4, <2>1, <4>1 DEF IInv, NoRepeatedVersion, s
      <4> QED
        BY <2>1, <2>5, <3>3, <4>1, <4>2
    <3> QED
      BY <3>1, <3>2, <3>3
  <2> QED
    BY <2>7, <2>8, <2>9, <2>10, <2>11 DEF IInv
<1> QED
  BY <1>3, <1>4, <1>2 DEF Ordered, TypeOK

-----------------------------------------------------------------------------
(* Files with one saver at a time for each artifact.                         *)

(* A step that concerns one artifact keeps FilesInv if it does for that one. *)
LEMMA FileStep ==
    ASSUME TypeOK, IInv, backend = "files", ~overlap, UNCHANGED <<backend, overlap>>,
           NEW w \in Savers, job[w] # Idle, NEW x \in Jobs \cup {Idle},
           job' = [job EXCEPT ![w] = x], x # Idle => x.artifact = job[w].artifact,
           \A h \in Artifacts : h # job[w].artifact =>
               versions'[h] = versions[h] /\ pointer'[h] = pointer[h],
           (job[w] # Idle => FileFits(job[w]))',
           \/ pointer'[job[w].artifact] = Torn
           \/ pointer'[job[w].artifact] <= Len(versions'[job[w].artifact])
    PROVE  PostgresInv' /\ FilesInv' /\ NoRepeatedVersion'
<1>1. job'[w] = x /\ \A u \in Savers : u # w => job'[u] = job[u]
  BY DEF TypeOK
<1>2. \A u \in Savers : u # w => job[u].artifact # job[w].artifact
  BY DEF IInv, FilesInv
<1>3. \A u \in Savers : job[u] # Idle => job[u].artifact \in Artifacts
  BY IdleFacts DEF TypeOK
<1>4. ASSUME NEW u \in Savers, u # w, job'[u] # Idle
      PROVE  FileFits(job[u])'
  <2>1. FileFits(job[u]) /\ job'[u] = job[u] /\ versions'[job[u].artifact] = versions[job[u].artifact]
    BY <1>1, <1>2, <1>3, <1>4 DEF IInv, FilesInv
  <2> QED
    BY <2>1 DEF FileFits
<1>5. ASSUME NEW u \in Savers, NEW v \in Savers,
             job'[v] # Idle, job'[u].artifact = job'[v].artifact
      PROVE  u = v
  <2>1. \A z \in Savers : job[z] # Idle => job[z].artifact # NoOne
    BY <1>3, StoreAssumption
  <2>2. Idle.artifact = NoOne
    BY IdleFacts
  <2>3. CASE v = w
    BY <1>1, <1>2, <1>5, <2>1, <2>2, <2>3
  <2>4. CASE v # w
    <3>1. job'[v] = job[v] /\ job[v] # Idle /\ job[v].artifact # NoOne
      BY <1>1, <1>5, <2>1, <2>4
    <3>2. CASE u = w
      BY <1>1, <1>2, <1>5, <2>2, <2>4, <3>1, <3>2
    <3>3. CASE u # w
      BY <1>1, <1>5, <3>1, <3>3 DEF IInv, FilesInv
    <3> QED
      BY <3>2, <3>3
  <2> QED
    BY <2>3, <2>4
<1>6. \A h \in Artifacts : pointer'[h] # Torn => pointer'[h] <= Len(versions'[h])
  BY DEF IInv, FilesInv
<1>7. FilesInv'
  BY <1>4, <1>5, <1>6 DEF FilesInv
<1> QED
  BY <1>7 DEF PostgresInv, NoRepeatedVersion

(* Writes that spare whole versions keep what was answered and pointed to.   *)
LEMMA WritesKeep ==
    ASSUME TypeOK, IInv, backend = "files", ~overlap,
           UNCHANGED <<backend, overlap, answers, pointer>>,
           \A h \in Artifacts : \A i \in 1..Len(versions[h]) :
               versions[h][i] \in Contents =>
                   i <= Len(versions'[h]) /\ versions'[h][i] = versions[h][i]
    PROVE  /\ AnswersKept' /\ ReadsFollowSaves'
           /\ (Ordered => \A a \in answers : a.version # 0)'
<1>1. Ordered /\ Ordered'
  BY DEF Ordered
<1>2. AnswersKept'
  <2> SUFFICES ASSUME NEW a \in answers
               PROVE  /\ a.version <= Len(versions'[a.artifact])
                      /\ versions'[a.artifact][a.version] = a.content
    BY DEF AnswersKept
  <2> QED
    BY <1>1, AnswerFacts
<1>3. ReadsFollowSaves'
  <2> SUFFICES ASSUME NEW h \in Artifacts, pointer[h] # Torn
               PROVE  /\ \A a \in answers : a.artifact = h => a.version <= pointer[h]
                      /\ pointer[h] # 0 => versions'[h][pointer[h]] \in Contents
    BY DEF ReadsFollowSaves, Found
  <2>1. /\ \A a \in answers : a.artifact = h => a.version <= pointer[h]
        /\ pointer[h] # 0 => versions[h][pointer[h]] \in Contents
    BY <1>1 DEF IInv, ReadsFollowSaves, Found
  <2>2. pointer[h] \in Nat /\ pointer[h] <= Len(versions[h]) /\ Len(versions[h]) \in Nat
    BY DEF IInv, FilesInv, TypeOK
  <2> QED
    BY <2>1, <2>2
<1> QED
  BY <1>1, <1>2, <1>3 DEF IInv

(* The saver of an artifact, its job and its artifact's versions. *)
LEMMA FileFacts ==
    ASSUME TypeOK, IInv, backend = "files", ~overlap, NEW w \in Savers, job[w].pc # "idle"
    PROVE  /\ job[w] # Idle /\ job[w] \in Jobs /\ FileFits(job[w])
           /\ job[w].artifact \in Artifacts /\ job[w].content \in Contents
           /\ job[w].version \in Nat
           /\ versions[job[w].artifact] \in Seq(Contents \cup {Torn})
           /\ Len(versions[job[w].artifact]) \in Nat
           /\ \/ pointer[job[w].artifact] = Torn
              \/ /\ pointer[job[w].artifact] \in Nat
                 /\ pointer[job[w].artifact] <= Len(versions[job[w].artifact])
<1>1. job[w] # Idle /\ job[w] \in Jobs /\ FileFits(job[w])
  BY StoreOfJob, AtWork
<1>2. /\ job[w].artifact \in Artifacts /\ job[w].content \in Contents
      /\ job[w].version \in Nat
      /\ versions[job[w].artifact] \in Seq(Contents \cup {Torn})
      /\ Len(versions[job[w].artifact]) \in Nat
  BY AtWork
<1>3. pointer[job[w].artifact] \in Nat \cup {Torn}
  BY <1>2 DEF TypeOK
<1> QED
  BY <1>1, <1>2, <1>3 DEF IInv, FilesInv

(* The job after a step, when it goes on to pc. *)
LEMMA FileGoes ==
    ASSUME TypeOK, NEW w \in Savers, job[w] \in Jobs, NEW pc \in FileSteps, Goes(w, pc)
    PROVE  /\ [job[w] EXCEPT !.pc = pc] \in Jobs
           /\ job' = [job EXCEPT ![w] = [job[w] EXCEPT !.pc = pc]]
           /\ job'[w] # Idle
           /\ job'[w].pc = pc
           /\ job'[w].artifact = job[w].artifact
           /\ job'[w].content = job[w].content
           /\ job'[w].version = job[w].version
           /\ [job[w] EXCEPT !.pc = pc].artifact = job[w].artifact
<1> DEFINE x == [job[w] EXCEPT !.pc = pc]
<1>1. /\ x \in Jobs /\ x.pc = pc /\ x.artifact = job[w].artifact
      /\ x.content = job[w].content /\ x.version = job[w].version
  BY DEF Jobs
<1>2. job' = [job EXCEPT ![w] = x]
  BY DEF Goes, TypeOK
<1> HIDE DEF x
<1>3. job'[w] = x
  BY <1>2 DEF TypeOK
<1>4. x # Idle
  BY <1>1, IdleFacts
<1>5. /\ x \in Jobs /\ job' = [job EXCEPT ![w] = x] /\ job'[w] # Idle
      /\ job'[w].pc = pc /\ job'[w].artifact = job[w].artifact
      /\ job'[w].content = job[w].content /\ job'[w].version = job[w].version
      /\ x.artifact = job[w].artifact
  BY <1>1, <1>2, <1>3, <1>4
<1> QED
  BY <1>5 DEF x

LEMMA ScanKeeps == ASSUME TypeOK, IInv, NEW w \in Savers, Scan(w) PROVE IInv'
<1> DEFINE j == job[w]
           n == Len(versions[job[w].artifact]) + 1
           x == [j EXCEPT !.pc = "create", !.version = n]
<1>1. job[w].pc = "scan" /\ UNCHANGED <<backend, overlap, versions, pointer, answers>>
  BY DEF Scan
<1>2. backend # "postgres"
  BY <1>1, StoreOfJob DEF FileSteps
<1>3. j \in Jobs /\ n \in Nat /\ "create" \in FileSteps
  BY <1>1, AtWork DEF FileSteps
<1>4. job' = [job EXCEPT ![w] = x]
  BY DEF Scan, TypeOK
<1>5. x \in Jobs /\ x.pc = "create" /\ x.version = n /\ x.artifact = job[w].artifact
  <2> HIDE DEF n, j
  <2>1. x \in Jobs /\ x.pc = "create" /\ x.version = n /\ x.artifact = j.artifact
    BY <1>3 DEF Jobs
  <2> QED
    BY <2>1 DEF j
<1> HIDE DEF x
<1>6. FileFits(x)
  BY <1>5 DEF FileFits, FileSteps
<1>7. backend = "files" /\ ~overlap => \A u \in Savers : job[u].artifact = x.artifact => u = w
  BY <1>1, <1>5, StoreOfJob DEF IInv, FilesInv
<1> QED
  BY <1>1, <1>2, <1>4, <1>5, <1>6, <1>7, QuietStep

LEMMA CreateKeeps == ASSUME TypeOK, IInv, NEW w \in Savers, Create(w) PROVE IInv'
<1> DEFINE k == job[w].artifact
           s == versions[k]
<1>1. /\ job[w].pc = "create" /\ Goes(w, "fill") /\ "fill" \in FileSteps
      /\ UNCHANGED <<backend, overlap, pointer, answers>>
  BY DEF Create, FileSteps
<1>2. CASE ~Ordered
  BY <1>1, <1>2, Unordered
<1>3. CASE Ordered
  <2>1. backend = "files" /\ ~overlap
    BY <1>1, <1>3, StoreOfJob DEF Ordered, FileSteps, TypeOK
  <2>2. /\ job[w] # Idle /\ job[w] \in Jobs /\ k \in Artifacts
        /\ s \in Seq(Contents \cup {Torn}) /\ Len(s) \in Nat
        /\ job[w].version = Len(s) + 1
        /\ pointer[k] = Torn \/ (pointer[k] \in Nat /\ pointer[k] <= Len(s))
    BY <1>1, <2>1, FileFacts DEF FileFits
  <2>3. versions' = [versions EXCEPT ![k] = Append(s, Torn)]
    <3>1. versions' = [versions EXCEPT ![k] = WithVersion(s, job[w].version, Torn)]
      BY DEF Create
    <3>2. ~(job[w].version <= Len(s))
      BY <2>2
    <3>3. WithVersion(s, job[w].version, Torn) = Append(s, Torn)
      BY <3>2 DEF WithVersion
    <3> QED
      BY <3>1, <3>3
  <2>4. /\ versions'[k] = Append(s, Torn)
        /\ \A h \in Artifacts : h # k => versions'[h] = versions[h]
    BY <2>2, <2>3 DEF TypeOK
  <2>5. /\ versions'[k] # <<>> /\ Len(versions'[k]) = Len(s) + 1
        /\ versions'[k][Len(s) + 1] = Torn
        /\ \A i \in 1..Len(s) : versions'[k][i] = s[i]
    <3>1. Torn \in Contents \cup {Torn}
      OBVIOUS
    <3> HIDE DEF s
    <3> QED
      BY <2>2, <2>4, <3>1, SequenceFacts
  <2>6. /\ [job[w] EXCEPT !.pc = "fill"] \in Jobs
        /\ job' = [job EXCEPT ![w] = [job[w] EXCEPT !.pc = "fill"]]
        /\ job'[w] # Idle /\ job'[w].pc = "fill" /\ job'[w].artifact = k
        /\ job'[w].version = job[w].version
        /\ [job[w] EXCEPT !.pc = "fill"].artifact = k
    BY <1>1, <2>2, FileGoes
  <2>7. (job[w] # Idle => FileFits(job[w]))'
    BY <1>1, <2>2, <2>5, <2>6 DEF FileFits
  <2>8. PostgresInv' /\ FilesInv' /\ NoRepeatedVersion'
    <3>1. pointer'[k] = Torn \/ pointer'[k] <= Len(versions'[k])
      BY <1>1, <2>2, <2>5
    <3> QED
      BY <1>1, <2>1, <2>2, <2>4, <2>6, <2>7, <3>1, FileStep
  <2>9. \A h \in Artifacts : \A i \in 1..Len(versions[h]) :
            i <= Len(versions'[h]) /\ versions'[h][i] = versions[h][i]
    <3> SUFFICES ASSUME NEW h \in Artifacts, NEW i \in 1..Len(versions[h])
                 PROVE  i <= Len(versions'[h]) /\ versions'[h][i] = versions[h][i]
      OBVIOUS
    <3>1. Len(versions[h]) \in Nat
      BY DEF TypeOK
    <3>2. CASE h = k
      BY <2>2, <2>5, <3>2
    <3>3. CASE h # k
      BY <2>4, <3>1, <3>3
    <3> QED
      BY <3>2, <3>3
  <2> QED
    BY <1>1, <2>1, <2>8, <2>9, WritesKeep DEF IInv
<1> QED
  BY <1>2, <1>3

LEMMA FillKeeps == ASSUME TypeOK, IInv, NEW w \in Savers, Fill(w) PROVE IInv'
<1> DEFINE k == job[w].artifact
           c == job[w].content
           s == versions[k]
<1>1. /\ job[w].pc = "fill" /\ Goes(w, "point") /\ "point" \in FileSteps
      /\ UNCHANGED <<backend, overlap, pointer, answers>>
  BY DEF Fill, FileSteps
<1>2. CASE ~Ordered
  BY <1>1, <1>2, Unordered
<1>3. CASE Ordered
  <2>1. backend = "files" /\ ~overlap
    BY <1>1, <1>3, StoreOfJob DEF Ordered, FileSteps, TypeOK
  <2>2. /\ job[w] # Idle /\ job[w] \in Jobs /\ k \in Artifacts /\ c \in Contents
        /\ s \in Seq(Contents \cup {Torn}) /\ Len(s) \in Nat /\ s # <<>>
        /\ job[w].version = Len(s) /\ s[Len(s)] = Torn
        /\ pointer[k] = Torn \/ (pointer[k] \in Nat /\ pointer[k] <= Len(s))
    BY <1>1, <2>1, FileFacts DEF FileFits
  <2>3. versions' = [versions EXCEPT ![k] = [s EXCEPT ![Len(s)] = c]]
    BY <2>2 DEF Fill, WithVersion
  <2>4. /\ versions'[k] = [s EXCEPT ![Len(s)] = c]
        /\ \A h \in Artifacts : h # k => versions'[h] = versions[h]
    BY <2>2, <2>3 DEF TypeOK
  <2>5. /\ versions'[k] # <<>> /\ Len(versions'[k]) = Len(s)
        /\ versions'[k][Len(s)] = c
        /\ \A i \in 1..Len(s) : i # Len(s) => versions'[k][i] = s[i]
    <3>1. Len(s) \in 1..Len(s) /\ c \in Contents \cup {Torn}
      BY <2>2, SequenceFacts
    <3>2. /\ [s EXCEPT ![Len(s)] = c] \in Seq(Contents \cup {Torn})
          /\ Len([s EXCEPT ![Len(s)] = c]) = Len(s)
          /\ \A i \in 1..Len(s) :
                [s EXCEPT ![Len(s)] = c][i] = IF i = Len(s) THEN c ELSE s[i]
      BY <2>2, <3>1, ExceptSeq
    <3>3. [s EXCEPT ![Len(s)] = c] # <<>>
      BY <3>1, <3>2, SequenceFacts
    <3> QED
      BY <2>4, <3>1, <3>2, <3>3
  <2>6. /\ [job[w] EXCEPT !.pc = "point"] \in Jobs
        /\ job' = [job EXCEPT ![w] = [job[w] EXCEPT !.pc = "point"]]
        /\ job'[w] # Idle /\ job'[w].pc = "point" /\ job'[w].artifact = k
        /\ job'[w].version = job[w].version /\ job'[w].content = c
        /\ [job[w] EXCEPT !.pc = "point"].artifact = k
    BY <1>1, <2>2, FileGoes
  <2>7. (job[w] # Idle => FileFits(job[w]))'
    BY <1>1, <2>2, <2>5, <2>6 DEF FileFits
  <2>8. PostgresInv' /\ FilesInv' /\ NoRepeatedVersion'
    <3>1. pointer'[k] = Torn \/ pointer'[k] <= Len(versions'[k])
      BY <1>1, <2>2, <2>5
    <3> QED
      BY <1>1, <2>1, <2>2, <2>4, <2>6, <2>7, <3>1, FileStep
  <2>9. \A h \in Artifacts : \A i \in 1..Len(versions[h]) :
            versions[h][i] \in Contents =>
                i <= Len(versions'[h]) /\ versions'[h][i] = versions[h][i]
    <3> SUFFICES ASSUME NEW h \in Artifacts, NEW i \in 1..Len(versions[h]),
                        versions[h][i] \in Contents
                 PROVE  i <= Len(versions'[h]) /\ versions'[h][i] = versions[h][i]
      OBVIOUS
    <3>1. Len(versions[h]) \in Nat
      BY DEF TypeOK
    <3>2. CASE h = k
      <4>1. i # Len(s)
        BY <2>2, <3>2, StoreAssumption
      <4> QED
        BY <2>2, <2>5, <3>2, <4>1
    <3>3. CASE h # k
      BY <2>4, <3>1, <3>3
    <3> QED
      BY <3>2, <3>3
  <2> QED
    BY <1>1, <2>1, <2>8, <2>9, WritesKeep DEF IInv
<1> QED
  BY <1>2, <1>3

LEMMA PointKeeps == ASSUME TypeOK, IInv, NEW w \in Savers, Point(w) PROVE IInv'
<1> DEFINE k == job[w].artifact
<1>1. /\ job[w].pc = "point" /\ Goes(w, "name") /\ "name" \in FileSteps
      /\ UNCHANGED <<backend, overlap, versions, answers>>
      /\ pointer' = [pointer EXCEPT ![k] = Torn]
  BY DEF Point, FileSteps
<1>2. CASE ~Ordered
  BY <1>1, <1>2, Unordered
<1>3. CASE Ordered
  <2>1. backend = "files" /\ ~overlap
    BY <1>1, <1>3, StoreOfJob DEF Ordered, FileSteps, TypeOK
  <2>2. job[w] # Idle /\ job[w] \in Jobs /\ k \in Artifacts /\ FileFits(job[w])
    BY <1>1, <2>1, FileFacts
  <2>3. pointer'[k] = Torn /\ \A h \in Artifacts : h # k => pointer'[h] = pointer[h]
    BY <1>1, <2>2 DEF TypeOK
  <2>4. /\ [job[w] EXCEPT !.pc = "name"] \in Jobs
        /\ job' = [job EXCEPT ![w] = [job[w] EXCEPT !.pc = "name"]]
        /\ job'[w] # Idle /\ job'[w].pc = "name" /\ job'[w].artifact = k
        /\ job'[w].version = job[w].version /\ job'[w].content = job[w].content
        /\ [job[w] EXCEPT !.pc = "name"].artifact = k
    BY <1>1, <2>2, FileGoes
  <2>5. (job[w] # Idle => FileFits(job[w]))'
    BY <1>1, <2>2, <2>4 DEF FileFits
  <2>6. PostgresInv' /\ FilesInv' /\ NoRepeatedVersion'
    BY <1>1, <2>1, <2>2, <2>3, <2>4, <2>5, FileStep
  <2>7. ReadsFollowSaves'
    <3>1. \A h \in Artifacts : Found(h)' = pointer'[h] /\ Found(h) = pointer[h]
      BY <1>1, <2>1 DEF Found
    <3> QED
      BY <1>1, <1>3, <2>3, <3>1 DEF IInv, ReadsFollowSaves
  <2>8. AnswersKept' /\ (Ordered => \A a \in answers : a.version # 0)'
    BY <1>1 DEF IInv, AnswersKept, Ordered
  <2> QED
    BY <2>6, <2>7, <2>8 DEF IInv
<1> QED
  BY <1>2, <1>3

LEMMA NameKeeps == ASSUME TypeOK, IInv, NEW w \in Savers, Name(w) PROVE IInv'
<1> DEFINE k == job[w].artifact
           c == job[w].content
           s == versions[k]
           new == [artifact |-> k, content |-> c, version |-> job[w].version]
<1>1. /\ job[w].pc = "name"
      /\ UNCHANGED <<backend, overlap, versions>>
      /\ pointer' = [pointer EXCEPT ![k] = job[w].version]
      /\ job' = [job EXCEPT ![w] = Idle]
      /\ answers' = answers \cup {new}
  BY DEF Name, Returns
<1>2. CASE ~Ordered
  BY <1>1, <1>2, Unordered
<1>3. CASE Ordered
  <2>1. backend = "files" /\ ~overlap
    BY <1>1, <1>3, StoreOfJob DEF Ordered, FileSteps, TypeOK
  <2>2. /\ job[w] # Idle /\ k \in Artifacts /\ c \in Contents
        /\ s \in Seq(Contents \cup {Torn}) /\ Len(s) \in Nat /\ s # <<>>
        /\ job[w].version = Len(s) /\ s[Len(s)] = c
    BY <1>1, <2>1, FileFacts DEF FileFits
  <2>3. /\ pointer'[k] = Len(s) /\ Len(s) # 0
        /\ \A h \in Artifacts : h # k => pointer'[h] = pointer[h]
    BY <1>1, <2>2, SequenceFacts DEF TypeOK
  <2>4. (job[w] # Idle => FileFits(job[w]))'
    BY <1>1 DEF TypeOK
  <2>5. PostgresInv' /\ FilesInv' /\ NoRepeatedVersion'
    <3>1. pointer'[k] <= Len(versions'[k])
      BY <1>1, <2>2, <2>3
    <3> QED
      BY <1>1, <2>1, <2>2, <2>3, <2>4, <3>1, FileStep
  <2>6. new.artifact = k /\ new.content = c /\ new.version = Len(s)
    BY <2>2
  <2> HIDE DEF new
  <2>7. AnswersKept' /\ (Ordered => \A a \in answers : a.version # 0)'
    <3>1. /\ new.version # 0 /\ new.version <= Len(versions[new.artifact])
          /\ versions[new.artifact][new.version] = new.content
      BY <2>2, <2>3, <2>6
    <3> QED
      BY <1>1, <3>1 DEF IInv, AnswersKept, Ordered
  <2>8. ReadsFollowSaves'
    <3>1. \A h \in Artifacts : Found(h)' = pointer'[h] /\ Found(h) = pointer[h]
      BY <1>1, <2>1 DEF Found
    <3>2. ASSUME NEW h \in Artifacts, h # k
          PROVE  (\/ Found(h) = Torn
                  \/ /\ \A a \in answers : a.artifact = h => a.version <= Found(h)
                     /\ Found(h) # 0 => versions[h][Found(h)] \in Contents)'
      <4>1. \/ Found(h) = Torn
            \/ /\ \A a \in answers : a.artifact = h => a.version <= Found(h)
               /\ Found(h) # 0 => versions[h][Found(h)] \in Contents
        BY <1>3 DEF IInv, ReadsFollowSaves
      <4> QED
        BY <1>1, <2>3, <2>6, <3>1, <3>2, <4>1
    <3>3. pointer'[k] = Len(s) /\ versions'[k] = s /\ s[Len(s)] \in Contents
      BY <1>1, <2>2, <2>3
    <3>4. \A a \in answers' : a.artifact = k => a.version <= Len(s)
      <4>1. \A a \in answers : a.artifact = k => a.version <= Len(s)
        BY <1>3, <2>2, AnswerFacts
      <4> QED
        BY <1>1, <2>2, <2>6, <4>1
    <3> HIDE DEF s
    <3>5. ASSUME NEW h \in Artifacts
          PROVE  (\/ Found(h) = Torn
                  \/ /\ \A a \in answers : a.artifact = h => a.version <= Found(h)
                     /\ Found(h) # 0 => versions[h][Found(h)] \in Contents)'
      <4>1. CASE h # k
        BY <3>2, <4>1
      <4>2. CASE h = k
        BY <3>1, <3>3, <3>4, <4>2
      <4> QED
        BY <4>1, <4>2
    <3> QED
      BY <3>5 DEF ReadsFollowSaves
  <2> QED
    BY <2>5, <2>7, <2>8 DEF IInv
<1> QED
  BY <1>2, <1>3

LEMMA CrashKeeps == ASSUME TypeOK, IInv, NEW w \in Savers, Crash(w) PROVE IInv'
BY QuietEnd DEF Crash

THEOREM InvCorrect == Spec => []IInv
<1>1. TypeOK /\ IInv /\ [Next]_vars => IInv'
  <2> SUFFICES ASSUME TypeOK, IInv, [Next]_vars PROVE IInv'
    OBVIOUS
  <2>1. CASE UNCHANGED vars
    BY <2>1 DEF vars, IInv, PostgresInv, PostgresFits, FilesInv, FileFits, AnswersKept,
                ReadsFollowSaves, NoRepeatedVersion, Ordered, Found, At
  <2>2. CASE Next
    <3>1. PICK w \in Savers : \/ \E k \in Artifacts, c \in Contents : Begin(w, k, c)
                              \/ SaverStep(w) \/ Crash(w)
      BY <2>2 DEF Next
    <3> QED
      BY <3>1, BeginKeeps, EarlyStepsKeep, SelectKeeps, InsertKeeps, CommitKeeps,
         ScanKeeps, CreateKeeps, FillKeeps, PointKeeps, NameKeeps, CrashKeeps DEF SaverStep
  <2> QED
    BY <2>1, <2>2
<1> QED
  BY <1>1, InvInit, TypeCorrect, PTL DEF Spec

(* The version that save returned holds, for good, what was saved: in        *)
(* Postgres however saves overlap, in files as long as they do not.          *)
THEOREM AnswersAreKept == Spec => []AnswersKept
<1>1. IInv => AnswersKept
  BY DEF IInv
<1> QED
  BY <1>1, InvCorrect, PTL

(* A read after a save finds its version or a newer one, whole, or raises.   *)
THEOREM ReadsAreFresh == Spec => []ReadsFollowSaves
<1>1. IInv => ReadsFollowSaves
  BY DEF IInv
<1> QED
  BY <1>1, InvCorrect, PTL

(* Postgres never holds the same content twice in a row: a retried save      *)
(* leaves no trace (the hash comparison and the unique constraint together). *)
THEOREM RepeatsLeaveNoTrace == Spec => []NoRepeatedVersion
<1>1. IInv => NoRepeatedVersion
  BY DEF IInv
<1> QED
  BY <1>1, InvCorrect, PTL

-----------------------------------------------------------------------------
(* Both stores implement VersionedStore.                                     *)

(* What VersionedStore sees of the versions and of the pointers. *)
Log == [k \in Artifacts |-> IF Ordered THEN SubSeq(versions[k], 1, Written(k)) ELSE <<>>]
Latest == [k \in Artifacts |-> IF ~Ordered THEN 0
                               ELSE IF Found(k) = Torn THEN Written(k) ELSE Found(k)]

NobodyFills(k) == \A w \in Savers : job[w].pc = "fill" => job[w].artifact # k

-----------------------------------------------------------------------------
(* Beginnings of sequences.                                                  *)

LEMMA PrefixFacts ==
    ASSUME NEW S, NEW s \in Seq(S), NEW c \in S
    PROVE  /\ SubSeq(s, 1, Len(s)) = s
           /\ SubSeq(Append(s, c), 1, Len(s)) = s
           /\ s # <<>> =>
                 /\ SubSeq(s, 1, Len(s) - 1) \in Seq(S)
                 /\ Len(SubSeq(s, 1, Len(s) - 1)) = Len(s) - 1
                 /\ [s EXCEPT ![Len(s)] = c] = Append(SubSeq(s, 1, Len(s) - 1), c)
                 /\ s = Append(SubSeq(s, 1, Len(s) - 1), s[Len(s)])
<1> DEFINE n == Len(s)
           p == SubSeq(s, 1, n - 1)
           q == [s EXCEPT ![n] = c]
<1>1. n \in Nat /\ \A i \in 1..n : s[i] \in S
  BY LenProperties, ElementOfSeq
<1>2. SubSeq(s, 1, n) = s
  BY SubSeqFull
<1>3. SubSeq(Append(s, c), 1, n) = s
  <2> DEFINE t == SubSeq(Append(s, c), 1, n)
  <2>1. \A i \in 1..n : Append(s, c)[i] = s[i]
    BY AppendProperties
  <2>2. /\ t \in Seq(S) /\ Len(t) = (IF 1 <= n THEN n - 1 + 1 ELSE 0)
        /\ \A i \in 1..(n - 1 + 1) : t[i] = Append(s, c)[1 + i - 1]
    <3> DEFINE a == Append(s, c)
    <3>1. 1 \in Int /\ n \in Int /\ \A i \in 1..n : a[i] \in S
      BY <1>1, <2>1
    <3> HIDE DEF n, a
    <3>2. /\ SubSeq(a, 1, n) \in Seq(S)
          /\ Len(SubSeq(a, 1, n)) = (IF 1 <= n THEN n - 1 + 1 ELSE 0)
          /\ \A i \in 1..(n - 1 + 1) : SubSeq(a, 1, n)[i] = a[1 + i - 1]
      BY <3>1, SubSeqProperties
    <3> QED
      BY <3>2 DEF a
  <2> HIDE DEF t
  <2>3. Len(t) = Len(s) /\ \A i \in 1..Len(t) : t[i] = s[i]
    BY <1>1, <2>1, <2>2
  <2> QED
    BY <2>2, <2>3, SeqEqual DEF t
<1>4. ASSUME s # <<>>
      PROVE  p \in Seq(S) /\ Len(p) = n - 1 /\ q = Append(p, c) /\ s = Append(p, s[n])
  <2>1. n \in Nat \ {0}
    BY <1>4, EmptySeq
  <2>2. p \in Seq(S) /\ Len(p) = n - 1 /\ \A i \in 1..(n - 1) : p[i] = s[i]
    <3>1. /\ p \in Seq(S) /\ Len(p) = (IF 1 <= n - 1 THEN n - 1 - 1 + 1 ELSE 0)
          /\ \A i \in 1..(n - 1 - 1 + 1) : p[i] = s[1 + i - 1]
      <4> HIDE DEF n
      <4>1. n - 1 \in Int /\ \A i \in 1..(n - 1) : s[i] \in S
        BY <1>1, <2>1
      <4> QED
        BY <4>1, SubSeqProperties
    <3> HIDE DEF p, n
    <3> QED
      BY <2>1, <3>1
  <2>3. \A d \in S : /\ Append(p, d) \in Seq(S) /\ Len(Append(p, d)) = n
                     /\ \A i \in 1..(n - 1) : Append(p, d)[i] = s[i]
                     /\ Append(p, d)[n] = d
    <3> HIDE DEF p, n
    <3> QED
      BY <2>1, <2>2, AppendProperties
  <2>4. /\ q \in Seq(S) /\ Len(q) = n
        /\ \A i \in 1..n : q[i] = IF i = n THEN c ELSE s[i]
    BY <2>1, ExceptSeq
  <2>5. s[n] \in S
    BY <1>1, <2>1
  <2> HIDE DEF p, q
  <2>6. q = Append(p, c)
    <3>1. \A i \in 1..Len(q) : q[i] = Append(p, c)[i]
      BY <2>1, <2>3, <2>4
    <3> QED
      BY <2>3, <2>4, <3>1, SeqEqual
  <2>7. s = Append(p, s[n])
    <3>1. \A i \in 1..Len(s) : s[i] = Append(p, s[n])[i]
      BY <2>1, <2>3, <2>5
    <3> QED
      BY <2>3, <2>5, <3>1, SeqEqual
  <2> QED
    BY <2>2, <2>6, <2>7
<1> QED
  BY <1>2, <1>3, <1>4

-----------------------------------------------------------------------------
(* How many versions are whole, and what that makes of log and latest.       *)

WrittenFits ==
    \A k \in Artifacts :
        /\ versions[k] \in Seq(Contents \cup {Torn}) /\ Len(versions[k]) \in Nat
        /\ NobodyFills(k) => Written(k) = Len(versions[k])
        /\ \A w \in Savers : job[w].pc = "fill" /\ job[w].artifact = k =>
               /\ versions[k] # <<>> /\ Written(k) = Len(versions[k]) - 1
               /\ backend = "files" /\ job[w].version = Len(versions[k])

LEMMA WrittenFacts == TypeOK /\ IInv /\ Ordered => WrittenFits
<1> SUFFICES ASSUME TypeOK, IInv, Ordered, NEW k \in Artifacts
             PROVE  /\ versions[k] \in Seq(Contents \cup {Torn}) /\ Len(versions[k]) \in Nat
                    /\ NobodyFills(k) => Written(k) = Len(versions[k])
                    /\ \A w \in Savers : job[w].pc = "fill" /\ job[w].artifact = k =>
                           /\ versions[k] # <<>> /\ Written(k) = Len(versions[k]) - 1
                           /\ backend = "files" /\ job[w].version = Len(versions[k])
  BY DEF WrittenFits
<1>1. versions[k] \in Seq(Contents \cup {Torn}) /\ Len(versions[k]) \in Nat
  BY DEF TypeOK
<1>2. NobodyFills(k) => Written(k) = Len(versions[k])
  BY DEF NobodyFills, Written, At
<1>3. ASSUME NEW w \in Savers, job[w].pc = "fill", job[w].artifact = k
      PROVE  /\ versions[k] # <<>> /\ Written(k) = Len(versions[k]) - 1
             /\ backend = "files" /\ job[w].version = Len(versions[k])
  <2>1. job[w] # Idle
    BY <1>3 DEF Idle
  <2>2. backend = "files" /\ ~overlap
    BY <1>3, <2>1 DEF TypeOK, IInv, PostgresInv, PostgresFits, PostgresSteps, Ordered
  <2>3. FileFits(job[w])
    BY <2>1, <2>2 DEF IInv, FilesInv
  <2>4. versions[k] # <<>> /\ job[w].version = Len(versions[k])
    BY <1>3, <2>3 DEF FileFits
  <2> QED
    BY <1>3, <2>2, <2>4 DEF Written, At
<1> QED
  BY <1>1, <1>2, <1>3

(* The state after a step is a state like the one before. *)
LEMMA WrittenFactsAfter == TypeOK' /\ IInv' /\ Ordered' => WrittenFits'
BY WrittenFacts, PTL

(* Where artifact k and its savers are left alone, so are log and latest. *)
LEMMA LeftAlone ==
    ASSUME TypeOK, IInv, TypeOK', IInv', UNCHANGED <<backend, overlap>>,
           NEW k \in Artifacts, versions'[k] = versions[k], pointer'[k] = pointer[k],
           \A u \in Savers : (job[u].pc = "fill" /\ job[u].artifact = k)
                               <=> (job'[u].pc = "fill" /\ job'[u].artifact = k)
    PROVE  Log'[k] = Log[k] /\ Latest'[k] = Latest[k]
<1>1. Ordered' = Ordered
  BY DEF Ordered
<1>2. CASE ~Ordered
  BY <1>1, <1>2 DEF Log, Latest
<1>3. CASE Ordered
  <2>1. WrittenFits /\ WrittenFits'
    BY <1>1, <1>3, WrittenFacts, WrittenFactsAfter
  <2>2. NobodyFills(k)' <=> NobodyFills(k)
    BY DEF NobodyFills
  <2>3. Written(k)' = Written(k)
    <3>1. CASE NobodyFills(k)
      BY <2>1, <2>2, <3>1 DEF WrittenFits
    <3>2. CASE ~NobodyFills(k)
      <4>1. PICK w \in Savers : job[w].pc = "fill" /\ job[w].artifact = k
        BY <3>2 DEF NobodyFills
      <4>2. job'[w].pc = "fill" /\ job'[w].artifact = k
        BY <4>1
      <4>3. Written(k) = Len(versions[k]) - 1
        BY <2>1, <4>1 DEF WrittenFits
      <4>4. Written(k)' = Len(versions'[k]) - 1
        BY <2>1, <4>2 DEF WrittenFits
      <4> QED
        BY <4>3, <4>4
    <3> QED
      BY <3>1, <3>2
  <2>4. Found(k)' = Found(k)
    BY DEF Found
  <2> QED
    BY <1>1, <2>3, <2>4 DEF Log, Latest
<1> QED
  BY <1>2, <1>3

(* So a step of saver w concerns its own artifact, k, at most. *)
LEMMA OneArtifact ==
    ASSUME TypeOK, IInv, TypeOK', IInv', UNCHANGED <<backend, overlap>>,
           NEW w \in Savers, NEW k \in Artifacts,
           \A h \in Artifacts : h # k => versions'[h] = versions[h] /\ pointer'[h] = pointer[h],
           \A u \in Savers : u # w => job'[u] = job[u],
           job[w].pc = "fill" => job[w].artifact = k,
           job'[w].pc = "fill" => job'[w].artifact = k
    PROVE  \A h \in Artifacts : h # k => Log'[h] = Log[h] /\ Latest'[h] = Latest[h]
<1> SUFFICES ASSUME NEW h \in Artifacts, h # k PROVE Log'[h] = Log[h] /\ Latest'[h] = Latest[h]
  OBVIOUS
<1>1. \A u \in Savers : (job[u].pc = "fill" /\ job[u].artifact = h)
                        <=> (job'[u].pc = "fill" /\ job'[u].artifact = h)
  OBVIOUS
<1> QED
  BY <1>1, LeftAlone

(* Steps before a version or pointer is touched leave everything alone. *)
LEMMA LeaveAlone ==
    ASSUME TypeOK, IInv, TypeOK', IInv', UNCHANGED <<backend, overlap, versions, pointer>>,
           NEW w \in Savers, job[w].pc # "fill", job'[w].pc # "fill",
           \A u \in Savers : u # w => job'[u] = job[u]
    PROVE  Log' = Log /\ Latest' = Latest
<1>1. \A k \in Artifacts : Log'[k] = Log[k] /\ Latest'[k] = Latest[k]
  BY LeftAlone
<1> QED
  BY <1>1 DEF Log, Latest

-----------------------------------------------------------------------------
(* What a step is to VersionedStore.                                         *)

Abstract == V!Next \/ UNCHANGED V!vars

LEMMA AbstractSame == ASSUME Log' = Log, Latest' = Latest PROVE Abstract
BY DEF Abstract, V!vars, Log, Latest

LEMMA AbstractStep ==
    ASSUME NEW k \in Artifacts,
           \A h \in Artifacts : h # k => Log'[h] = Log[h] /\ Latest'[h] = Latest[h],
           \/ Log'[k] = Log[k] /\ Latest'[k] \in Latest[k]..Len(Log[k])
           \/ \E c \in Contents \cup {Torn} :
                 Log'[k] = Append(Log[k], c) /\ Latest'[k] \in {Latest[k], Len(Log[k]) + 1}
    PROVE  Abstract
<1>1. CASE Log'[k] = Log[k] /\ Latest'[k] \in Latest[k]..Len(Log[k])
  <2>1. Log' = Log
    BY <1>1 DEF Log
  <2>2. Latest' = [Latest EXCEPT ![k] = Latest'[k]]
    BY <1>1 DEF Latest
  <2>3. V!Publish(k)
    BY <1>1, <2>1, <2>2 DEF V!Publish, Log, Latest
  <2> QED
    BY <2>3 DEF Abstract, V!Next
<1>2. ASSUME NEW c \in Contents \cup {Torn},
             Log'[k] = Append(Log[k], c), Latest'[k] \in {Latest[k], Len(Log[k]) + 1}
      PROVE  Abstract
  <2>1. Log' = [Log EXCEPT ![k] = Append(Log[k], c)]
    BY <1>2 DEF Log
  <2>2. Latest' \in {Latest, [Latest EXCEPT ![k] = Len(Log[k]) + 1]}
    BY <1>2 DEF Latest
  <2>3. V!AddVersion(k, c)
    BY <1>2, <2>1, <2>2 DEF V!AddVersion, Log, Latest
  <2> QED
    BY <2>3 DEF Abstract, V!Next
<1> QED
  BY <1>1, <1>2

-----------------------------------------------------------------------------
(* The steps of the stores.                                                  *)

LEMMA EarlySteps ==
    ASSUME TypeOK, IInv, TypeOK', IInv', NEW w \in Savers,
           \/ \E k \in Artifacts, c \in Contents : Begin(w, k, c)
           \/ EnsureSchema(w) \/ ApplySchema(w) \/ Connect(w) \/ EnsureRun(w)
           \/ Select(w) \/ Insert(w) \/ Scan(w)
    PROVE  Abstract
<1>1. UNCHANGED <<backend, overlap, versions, pointer>> /\ job[w].pc # "fill"
  BY DEF Begin, EnsureSchema, ApplySchema, Connect, EnsureRun, Select, Insert, Scan, Idle
<1>2. (\A u \in Savers : u # w => job'[u] = job[u]) /\ job'[w].pc # "fill"
  BY DEF Begin, EnsureSchema, ApplySchema, Connect, EnsureRun, Select, Insert, Scan,
         Goes, Returns, Idle, TypeOK, Jobs
<1> QED
  BY <1>1, <1>2, LeaveAlone, AbstractSame

(* Where saves of an artifact may overlap in files nothing is promised. *)
LEMMA UnorderedSteps ==
    ASSUME ~Ordered, UNCHANGED <<backend, overlap>>
    PROVE  Abstract
<1>1. ~Ordered'
  BY DEF Ordered
<1>2. Log' = Log /\ Latest' = Latest
  BY <1>1 DEF Log, Latest
<1> QED
  BY <1>2, AbstractSame

(* A saver of files that is not filling a version has its artifact to itself. *)
LEMMA AloneInFiles ==
    ASSUME TypeOK, IInv, backend = "files", ~overlap, NEW w \in Savers,
           job[w].pc # "idle"
    PROVE  \A u \in Savers : u # w => job[u].artifact # job[w].artifact
BY FileFacts DEF IInv, FilesInv

(* Log and latest of an artifact whose versions are all whole, or all but    *)
(* the newest, before a step and after it.                                   *)
LogFits ==
    \A k \in Artifacts :
        /\ NobodyFills(k) =>
              /\ Log[k] = versions[k] /\ Len(Log[k]) = Len(versions[k])
              /\ Latest[k] = IF Found(k) = Torn THEN Len(versions[k]) ELSE Found(k)
        /\ \A w \in Savers : job[w].pc = "fill" /\ job[w].artifact = k =>
              /\ Log[k] = SubSeq(versions[k], 1, Len(versions[k]) - 1)
              /\ Len(Log[k]) = Len(versions[k]) - 1
              /\ Latest[k] = IF Found(k) = Torn THEN Len(versions[k]) - 1 ELSE Found(k)

LEMMA LogFitsNow == TypeOK /\ IInv /\ Ordered => LogFits
<1> SUFFICES ASSUME TypeOK, IInv, Ordered, NEW k \in Artifacts
             PROVE  /\ NobodyFills(k) =>
                          /\ Log[k] = versions[k] /\ Len(Log[k]) = Len(versions[k])
                          /\ Latest[k] = IF Found(k) = Torn THEN Len(versions[k]) ELSE Found(k)
                    /\ \A w \in Savers : job[w].pc = "fill" /\ job[w].artifact = k =>
                          /\ Log[k] = SubSeq(versions[k], 1, Len(versions[k]) - 1)
                          /\ Len(Log[k]) = Len(versions[k]) - 1
                          /\ Latest[k] = IF Found(k) = Torn THEN Len(versions[k]) - 1 ELSE Found(k)
  BY DEF LogFits
<1>1. versions[k] \in Seq(Contents \cup {Torn}) /\ Torn \in Contents \cup {Torn}
  BY DEF TypeOK
<1>2. /\ Log[k] = SubSeq(versions[k], 1, Written(k))
      /\ Latest[k] = IF Found(k) = Torn THEN Written(k) ELSE Found(k)
  BY DEF Log, Latest
<1>3. WrittenFits
  BY WrittenFacts
<1>4. ASSUME NobodyFills(k)
      PROVE  /\ Log[k] = versions[k]
             /\ Latest[k] = IF Found(k) = Torn THEN Len(versions[k]) ELSE Found(k)
  <2>1. Written(k) = Len(versions[k])
    BY <1>3, <1>4 DEF WrittenFits
  <2>2. SubSeq(versions[k], 1, Len(versions[k])) = versions[k]
    BY <1>1, SubSeqFull
  <2> QED
    BY <1>2, <2>1, <2>2
<1>5. ASSUME NEW w \in Savers, job[w].pc = "fill", job[w].artifact = k
      PROVE  /\ Log[k] = SubSeq(versions[k], 1, Len(versions[k]) - 1)
             /\ Len(Log[k]) = Len(versions[k]) - 1
             /\ Latest[k] = IF Found(k) = Torn THEN Len(versions[k]) - 1 ELSE Found(k)
  <2>1. versions[k] # <<>> /\ Written(k) = Len(versions[k]) - 1
    BY <1>3, <1>5 DEF WrittenFits
  <2>2. Len(SubSeq(versions[k], 1, Len(versions[k]) - 1)) = Len(versions[k]) - 1
    BY <1>1, <2>1, PrefixFacts
  <2> QED
    BY <1>2, <2>1, <2>2
<1> QED
  BY <1>4, <1>5

LEMMA LogFitsAfter == TypeOK' /\ IInv' /\ Ordered' => LogFits'
BY LogFitsNow, PTL

(* What the steps of one saver of files have in common. *)
LEMMA FileStepFacts ==
    ASSUME TypeOK, IInv, TypeOK', IInv', Ordered, UNCHANGED <<backend, overlap>>,
           NEW w \in Savers, job[w].pc \in FileSteps, NEW k, k = job[w].artifact,
           \A u \in Savers : u # w => job'[u] = job[u],
           job'[w].pc = "fill" => job'[w].artifact = k,
           \A h \in Artifacts : h # k => versions'[h] = versions[h] /\ pointer'[h] = pointer[h]
    PROVE  /\ k \in Artifacts /\ FileFits(job[w])
           /\ backend = "files" /\ backend' = "files"
           /\ LogFits /\ LogFits'
           /\ job[w].pc # "fill" => NobodyFills(k)
           /\ job'[w].pc # "fill" => NobodyFills(k)'
           /\ \A h \in Artifacts : h # k => Log'[h] = Log[h] /\ Latest'[h] = Latest[h]
<1>1. job[w].pc # "idle"
  BY DEF FileSteps
<1>2. backend = "files" /\ ~overlap /\ Ordered'
  BY <1>1, StoreOfJob DEF Ordered, TypeOK
<1>3. k \in Artifacts /\ FileFits(job[w])
  BY <1>1, <1>2, FileFacts
<1>4. LogFits /\ LogFits'
  BY <1>2, LogFitsNow, LogFitsAfter
<1>5. \A u \in Savers : u # w => job[u].artifact # k
  BY <1>1, <1>2, AloneInFiles
<1>6. job[w].pc # "fill" => NobodyFills(k)
  BY <1>5 DEF NobodyFills
<1>7. job'[w].pc # "fill" => NobodyFills(k)'
  BY <1>5 DEF NobodyFills
<1>8. \A h \in Artifacts : h # k => Log'[h] = Log[h] /\ Latest'[h] = Latest[h]
  BY <1>3, OneArtifact
<1> QED
  BY <1>2, <1>3, <1>4, <1>6, <1>7, <1>8

LEMMA CreateStep ==
    ASSUME TypeOK, IInv, TypeOK', IInv', Ordered, NEW w \in Savers, Create(w)
    PROVE  Abstract
<1> DEFINE k == job[w].artifact
           s == versions[k]
<1>1. /\ job[w].pc = "create" /\ job[w].pc \in FileSteps /\ Goes(w, "fill") /\ "fill" \in FileSteps
      /\ UNCHANGED <<backend, overlap, pointer>>
      /\ versions' = [versions EXCEPT ![k] = WithVersion(s, job[w].version, Torn)]
  BY DEF Create, FileSteps
<1>2. job[w] \in Jobs /\ k \in Artifacts
  BY <1>1, AtWork
<1>3. job'[w].pc = "fill" /\ job'[w].artifact = k
  BY <1>1, <1>2, FileGoes
<1>4. /\ \A u \in Savers : u # w => job'[u] = job[u]
      /\ \A h \in Artifacts : h # k => versions'[h] = versions[h]
  BY <1>1 DEF Goes, TypeOK
<1>5. /\ FileFits(job[w]) /\ backend' = "files" /\ backend = "files"
      /\ LogFits /\ LogFits' /\ NobodyFills(k)
      /\ \A h \in Artifacts : h # k => Log'[h] = Log[h] /\ Latest'[h] = Latest[h]
  BY <1>1, <1>3, <1>4, FileStepFacts
<1>6. s \in Seq(Contents \cup {Torn}) /\ Len(s) \in Nat /\ job[w].version = Len(s) + 1
  BY <1>1, <1>2, <1>5 DEF FileFits, TypeOK
<1>7. versions'[k] = Append(s, Torn)
  <2>1. ~(job[w].version <= Len(s))
    BY <1>6
  <2> QED
    BY <1>1, <1>2, <2>1 DEF WithVersion, TypeOK
<1>8. Len(versions'[k]) - 1 = Len(s) /\ SubSeq(versions'[k], 1, Len(s)) = s
  BY <1>6, <1>7, PrefixFacts, SequenceFacts
<1>9. Log[k] = s /\ Latest[k] = IF pointer[k] = Torn THEN Len(s) ELSE pointer[k]
  BY <1>2, <1>5 DEF LogFits, Found
<1>10. Log'[k] = s /\ Latest'[k] = IF pointer[k] = Torn THEN Len(s) ELSE pointer[k]
  BY <1>1, <1>2, <1>3, <1>5, <1>8 DEF LogFits, Found
<1>11. \A h \in Artifacts : Log'[h] = Log[h] /\ Latest'[h] = Latest[h]
  BY <1>5, <1>9, <1>10
<1>12. Log' = Log /\ Latest' = Latest
  BY <1>11 DEF Log, Latest
<1> QED
  BY <1>12, AbstractSame

LEMMA FillStep ==
    ASSUME TypeOK, IInv, TypeOK', IInv', Ordered, NEW w \in Savers, Fill(w)
    PROVE  Abstract
<1> SUFFICES ASSUME NEW k, k = job[w].artifact, NEW c, c = job[w].content,
                    NEW s, s = versions[k]
             PROVE  Abstract
  OBVIOUS
<1>1. /\ job[w].pc = "fill" /\ job[w].pc \in FileSteps /\ Goes(w, "point") /\ "point" \in FileSteps
      /\ UNCHANGED <<backend, overlap, pointer>>
      /\ versions' = [versions EXCEPT ![k] = WithVersion(s, job[w].version, c)]
  BY DEF Fill, FileSteps
<1>2. job[w] \in Jobs /\ k \in Artifacts /\ c \in Contents
  BY <1>1, AtWork
<1>3. job'[w].pc = "point" /\ job'[w].pc # "fill"
  BY <1>1, <1>2, FileGoes
<1>4. /\ \A u \in Savers : u # w => job'[u] = job[u]
      /\ \A h \in Artifacts : h # k => versions'[h] = versions[h]
  BY <1>1 DEF Goes, TypeOK
<1>5. /\ FileFits(job[w]) /\ backend' = "files" /\ backend = "files"
      /\ LogFits /\ LogFits' /\ NobodyFills(k)'
      /\ \A h \in Artifacts : h # k => Log'[h] = Log[h] /\ Latest'[h] = Latest[h]
  BY <1>1, <1>3, <1>4, FileStepFacts
<1>6. s # <<>> /\ job[w].version = Len(s)
  BY <1>1, <1>5 DEF FileFits
<1>7. s \in Seq(Contents \cup {Torn}) /\ Len(s) \in Nat
  BY <1>2 DEF TypeOK
<1>8. versions'[k] = [s EXCEPT ![Len(s)] = c]
  <2>1. job[w].version <= Len(s)
    BY <1>6, <1>7
  <2> QED
    BY <1>1, <1>2, <1>6, <2>1 DEF WithVersion, TypeOK
<1>9. /\ Len(versions'[k]) = Len(s)
      /\ versions'[k] = Append(SubSeq(s, 1, Len(s) - 1), c)
  <2>1. Len(s) \in 1..Len(s)
    BY <1>6, <1>7, SequenceFacts
  <2>2. /\ Len([s EXCEPT ![Len(s)] = c]) = Len(s)
        /\ [s EXCEPT ![Len(s)] = c] = Append(SubSeq(s, 1, Len(s) - 1), c)
    BY <1>2, <1>6, <1>7, <2>1, PrefixFacts, ExceptSeq
  <2> QED
    BY <1>8, <2>2
<1>10. /\ Log[k] = SubSeq(s, 1, Len(s) - 1) /\ Len(Log[k]) = Len(s) - 1
       /\ Latest[k] = IF pointer[k] = Torn THEN Len(s) - 1 ELSE pointer[k]
  BY <1>1, <1>2, <1>5 DEF LogFits, Found
<1>11. /\ Log'[k] = versions'[k]
       /\ Latest'[k] = IF pointer[k] = Torn THEN Len(s) ELSE pointer[k]
  BY <1>1, <1>2, <1>5, <1>9 DEF LogFits, Found
<1>12. Log'[k] = Append(Log[k], c)
  BY <1>9, <1>10, <1>11
<1>13. Len(Log[k]) + 1 = Len(s)
  BY <1>7, <1>10
<1>14. Latest'[k] \in {Latest[k], Len(Log[k]) + 1}
  BY <1>10, <1>11, <1>13
<1> QED
  BY <1>2, <1>5, <1>12, <1>14, AbstractStep

LEMMA PointStep ==
    ASSUME TypeOK, IInv, TypeOK', IInv', Ordered, NEW w \in Savers, Point(w)
    PROVE  Abstract
<1> SUFFICES ASSUME NEW k, k = job[w].artifact, NEW s, s = versions[k]
             PROVE  Abstract
  OBVIOUS
<1>1. /\ job[w].pc = "point" /\ job[w].pc \in FileSteps /\ Goes(w, "name") /\ "name" \in FileSteps
      /\ UNCHANGED <<backend, overlap, versions>>
      /\ pointer' = [pointer EXCEPT ![k] = Torn]
  BY DEF Point, FileSteps
<1>2. job[w] \in Jobs /\ k \in Artifacts
  BY <1>1, AtWork
<1>3. job'[w].pc = "name" /\ job'[w].pc # "fill" /\ job[w].pc # "fill"
  BY <1>1, <1>2, FileGoes
<1>4. /\ \A u \in Savers : u # w => job'[u] = job[u]
      /\ \A h \in Artifacts : h # k => pointer'[h] = pointer[h]
  BY <1>1 DEF Goes, TypeOK
<1>5. /\ FileFits(job[w]) /\ backend' = "files" /\ backend = "files"
      /\ LogFits /\ LogFits' /\ NobodyFills(k) /\ NobodyFills(k)'
      /\ \A h \in Artifacts : h # k => Log'[h] = Log[h] /\ Latest'[h] = Latest[h]
  BY <1>1, <1>3, <1>4, FileStepFacts
<1>6. /\ Len(s) \in Nat
      /\ pointer[k] = Torn \/ (pointer[k] \in Nat /\ pointer[k] <= Len(s))
  BY <1>1, <1>2, <1>5 DEF TypeOK, IInv, FilesInv, Ordered
<1>7. /\ Log[k] = s /\ Len(Log[k]) = Len(s)
      /\ Latest[k] = IF pointer[k] = Torn THEN Len(s) ELSE pointer[k]
  BY <1>2, <1>5 DEF LogFits, Found
<1>8. Log'[k] = s /\ Latest'[k] = Len(s)
  <2>1. pointer'[k] = Torn
    BY <1>1, <1>2 DEF TypeOK
  <2> QED
    BY <1>1, <1>2, <1>5, <2>1 DEF LogFits, Found
<1>9. Log'[k] = Log[k] /\ Latest'[k] \in Latest[k]..Len(Log[k])
  BY <1>6, <1>7, <1>8
<1> QED
  BY <1>2, <1>5, <1>9, AbstractStep

LEMMA NameStep ==
    ASSUME TypeOK, IInv, TypeOK', IInv', Ordered, NEW w \in Savers, Name(w)
    PROVE  Abstract
<1> SUFFICES ASSUME NEW k, k = job[w].artifact, NEW s, s = versions[k]
             PROVE  Abstract
  OBVIOUS
<1>1. /\ job[w].pc = "name" /\ job[w].pc \in FileSteps
      /\ UNCHANGED <<backend, overlap, versions>>
      /\ job' = [job EXCEPT ![w] = Idle]
      /\ pointer' = [pointer EXCEPT ![k] = job[w].version]
  BY DEF Name, Returns, FileSteps
<1>2. job[w] \in Jobs /\ k \in Artifacts
  BY <1>1, AtWork
<1>3. job'[w].pc # "fill" /\ job[w].pc # "fill"
  BY <1>1 DEF TypeOK, Idle
<1>4. /\ \A u \in Savers : u # w => job'[u] = job[u]
      /\ \A h \in Artifacts : h # k => pointer'[h] = pointer[h]
  BY <1>1 DEF TypeOK
<1>5. /\ FileFits(job[w]) /\ backend' = "files" /\ backend = "files"
      /\ LogFits /\ LogFits' /\ NobodyFills(k) /\ NobodyFills(k)'
      /\ \A h \in Artifacts : h # k => Log'[h] = Log[h] /\ Latest'[h] = Latest[h]
  BY <1>1, <1>3, <1>4, FileStepFacts
<1>6. /\ Len(s) \in Nat
      /\ pointer[k] = Torn \/ (pointer[k] \in Nat /\ pointer[k] <= Len(s))
  BY <1>1, <1>2, <1>5 DEF TypeOK, IInv, FilesInv, Ordered
<1>7. /\ Log[k] = s /\ Len(Log[k]) = Len(s)
      /\ Latest[k] = IF pointer[k] = Torn THEN Len(s) ELSE pointer[k]
  BY <1>2, <1>5 DEF LogFits, Found
<1>8. Log'[k] = s /\ Latest'[k] = Len(s)
  <2>1. pointer'[k] = Len(s)
    BY <1>1, <1>2, <1>5 DEF TypeOK, FileFits
  <2> QED
    BY <1>1, <1>2, <1>5, <2>1 DEF LogFits, Found
<1>9. Log'[k] = Log[k] /\ Latest'[k] \in Latest[k]..Len(Log[k])
  BY <1>6, <1>7, <1>8
<1> QED
  BY <1>2, <1>5, <1>9, AbstractStep

(* In Postgres nobody fills a version. *)
LEMMA CommitStep ==
    ASSUME TypeOK, IInv, TypeOK', IInv', Ordered, NEW w \in Savers, Commit(w)
    PROVE  Abstract
<1> SUFFICES ASSUME NEW k, k = job[w].artifact, NEW c, c = job[w].content,
                    NEW s, s = versions[k]
             PROVE  Abstract
  OBVIOUS
<1>1. /\ job[w].pc = "commit" /\ job[w].pc # "idle" /\ UNCHANGED <<backend, overlap, pointer>>
      /\ job' = [job EXCEPT ![w] = Idle]
      /\ versions' = [versions EXCEPT ![k] = Append(s, c)]
  BY DEF Commit, Returns
<1>2. job[w] \in Jobs /\ k \in Artifacts /\ c \in Contents /\ s \in Seq(Contents \cup {Torn})
  BY <1>1, AtWork
<1>3. job'[w].pc # "fill" /\ job[w].pc # "fill"
  BY <1>1 DEF TypeOK, Idle
<1>4. /\ \A u \in Savers : u # w => job'[u] = job[u]
      /\ \A h \in Artifacts : h # k => versions'[h] = versions[h] /\ pointer'[h] = pointer[h]
  BY <1>1 DEF TypeOK
<1>5. backend = "postgres" /\ backend' = "postgres" /\ Ordered'
  BY <1>1, StoreOfJob DEF Ordered, TypeOK, FileFits, FileSteps
<1>6. \A u \in Savers : job[u].pc # "fill" /\ job'[u].pc # "fill"
  <2>1. \A u \in Savers : job[u] # Idle => job[u].pc \in PostgresSteps
    BY <1>5 DEF IInv, PostgresInv, PostgresFits
  <2>2. \A u \in Savers : job[u].pc # "fill"
    BY <2>1 DEF PostgresSteps, Idle
  <2> QED
    BY <1>3, <1>4, <2>2
<1>7. NobodyFills(k) /\ NobodyFills(k)'
  BY <1>6 DEF NobodyFills
<1>8. LogFits /\ LogFits'
  BY <1>5, LogFitsNow, LogFitsAfter
<1>9. \A h \in Artifacts : h # k => Log'[h] = Log[h] /\ Latest'[h] = Latest[h]
  BY <1>1, <1>4, <1>6, LeftAlone
<1>10. versions'[k] = Append(s, c) /\ Len(versions'[k]) = Len(s) + 1 /\ Len(s) \in Nat
  BY <1>1, <1>2, SequenceFacts, AppendProperties DEF TypeOK
<1>11. Log[k] = s /\ Latest[k] = Len(s)
  BY <1>2, <1>5, <1>7, <1>8, <1>10, StoreAssumption DEF LogFits, Found
<1>12. Log'[k] = Append(s, c) /\ Latest'[k] = Len(s) + 1
  BY <1>2, <1>5, <1>7, <1>8, <1>10, StoreAssumption DEF LogFits, Found
<1>13. Log'[k] = Append(Log[k], c) /\ Latest'[k] = Len(Log[k]) + 1
  BY <1>11, <1>12
<1> QED
  BY <1>2, <1>9, <1>13, AbstractStep

(* A saver that dies filling a version leaves it as the newest one, torn. *)
LEMMA CrashStep ==
    ASSUME TypeOK, IInv, TypeOK', IInv', Ordered, NEW w \in Savers, Crash(w)
    PROVE  Abstract
<1>1. /\ UNCHANGED <<backend, overlap, versions, pointer>>
      /\ job' = [job EXCEPT ![w] = Idle]
  BY DEF Crash
<1>2. job'[w].pc # "fill" /\ \A u \in Savers : u # w => job'[u] = job[u]
  BY <1>1 DEF TypeOK, Idle
<1>3. CASE job[w].pc # "fill"
  BY <1>1, <1>2, <1>3, LeaveAlone, AbstractSame
<1>4. CASE job[w].pc = "fill"
  <2> SUFFICES ASSUME NEW k, k = job[w].artifact, NEW s, s = versions[k]
               PROVE  Abstract
    OBVIOUS
  <2>1. job[w] \in Jobs /\ k \in Artifacts
    BY <1>4, AtWork
  <2>2. job[w].pc \in FileSteps
    BY <1>4 DEF FileSteps
  <2>3. /\ FileFits(job[w]) /\ backend' = "files" /\ backend = "files"
        /\ LogFits /\ LogFits' /\ NobodyFills(k)'
        /\ \A h \in Artifacts : h # k => Log'[h] = Log[h] /\ Latest'[h] = Latest[h]
    BY <1>1, <1>2, <2>2, FileStepFacts
  <2>4. s # <<>> /\ s[Len(s)] = Torn
    BY <1>4, <2>3 DEF FileFits
  <2>5. s \in Seq(Contents \cup {Torn}) /\ Len(s) \in Nat /\ Torn \in Contents \cup {Torn}
    BY <2>1 DEF TypeOK
  <2>6. s = Append(SubSeq(s, 1, Len(s) - 1), Torn)
    BY <2>4, <2>5, PrefixFacts
  <2>7. /\ Log[k] = SubSeq(s, 1, Len(s) - 1) /\ Len(Log[k]) = Len(s) - 1
        /\ Latest[k] = IF pointer[k] = Torn THEN Len(s) - 1 ELSE pointer[k]
    BY <1>4, <2>1, <2>3 DEF LogFits, Found
  <2>8. /\ Log'[k] = s
        /\ Latest'[k] = IF pointer[k] = Torn THEN Len(s) ELSE pointer[k]
    BY <1>1, <2>1, <2>3 DEF LogFits, Found
  <2>9. Log'[k] = Append(Log[k], Torn)
    BY <2>6, <2>7, <2>8
  <2>10. Len(Log[k]) + 1 = Len(s)
    BY <2>5, <2>7
  <2>11. Latest'[k] \in {Latest[k], Len(Log[k]) + 1}
    BY <2>7, <2>8, <2>10
  <2> QED
    BY <2>1, <2>3, <2>5, <2>9, <2>11, AbstractStep
<1> QED
  BY <1>3, <1>4

-----------------------------------------------------------------------------

LEMMA NextStep ==
    ASSUME TypeOK, IInv, TypeOK', IInv', Next
    PROVE  Abstract
<1>1. PICK w \in Savers : \/ \E k \in Artifacts, c \in Contents : Begin(w, k, c)
                          \/ SaverStep(w) \/ Crash(w)
  BY DEF Next
<1>2. UNCHANGED <<backend, overlap>>
  BY <1>1 DEF Begin, SaverStep, EnsureSchema, ApplySchema, Connect, EnsureRun, Select,
              Insert, Commit, Scan, Create, Fill, Point, Name, Crash
<1>3. CASE ~Ordered
  BY <1>2, <1>3, UnorderedSteps
<1>4. CASE Ordered
  BY <1>1, <1>4, EarlySteps, CommitStep, CreateStep, FillStep, PointStep, NameStep,
     CrashStep DEF SaverStep
<1> QED
  BY <1>3, <1>4

LEMMA StoreInit == Init => V!Init
<1> SUFFICES ASSUME Init PROVE V!Init
  OBVIOUS
<1>1. \A k \in Artifacts : versions[k] = <<>> /\ pointer[k] = 0 /\ Len(versions[k]) = 0
  BY DEF Init
<1>2. \A k \in Artifacts : NobodyFills(k)
  BY DEF Init, NobodyFills, Idle
<1>3. TypeOK /\ IInv
  BY TypeInit, InvInit
<1>4. \A k \in Artifacts : Log[k] = <<>>
  BY <1>1, <1>2, <1>3, LogFitsNow DEF LogFits, Log
<1>5. \A k \in Artifacts : Latest[k] = 0
  BY <1>1, <1>2, <1>3, LogFitsNow DEF LogFits, Latest, Found
<1> QED
  BY <1>4, <1>5 DEF V!Init, Log, Latest

(* Both artifact stores are a VersionedStore, dying savers included, as long *)
(* as files have one saver of an artifact at a time; Postgres needs no such  *)
(* care (save of FileArtifactStore and of PostgresArtifactStore).            *)
THEOREM StoreImplementsVersionedStore == Spec => ImplementsVersionedStore
<1>1. Init => V!Init
  BY StoreInit
<1>2. TypeOK /\ TypeOK' /\ IInv /\ IInv' /\ [Next]_vars => [V!Next]_(V!vars)
  <2>1. ASSUME TypeOK, TypeOK', IInv, IInv', Next PROVE [V!Next]_(V!vars)
    BY <2>1, NextStep DEF Abstract
  <2>2. ASSUME UNCHANGED vars PROVE UNCHANGED V!vars
    BY <2>2 DEF vars, V!vars, Ordered, Written, Found, At
  <2> QED
    BY <2>1, <2>2
<1> QED
  BY <1>1, <1>2, TypeCorrect, InvCorrect, PTL DEF Spec, ImplementsVersionedStore, V!Spec
=============================================================================
