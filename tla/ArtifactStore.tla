---------------------------- MODULE ArtifactStore ----------------------------
(* The two artifact stores: versions in files, with a pointer to the latest  *)
(* one, and versions in a Postgres table.  Savers are the threads that run   *)
(* nodes; an attempt that was given up and its successor, or two processes   *)
(* that execute one run, save the same artifact at the same time.            *)
(*                                                                           *)
(* Postgres is external: statements see what is committed (READ COMMITTED),  *)
(* an insert that meets another one's uncommitted row of the same unique key *)
(* waits for its end, and a transaction that fails or dies leaves no trace.  *)
EXTENDS Naturals, Sequences, FiniteSets

CONSTANTS
    Savers,         \* threads that may save
    Artifacts,      \* names of artifacts
    Contents,       \* what may be saved
    Torn,           \* a file that was truncated and is not written yet
    PoolSize,       \* connections of the pool (psycopg_pool: 4)
    MaxSaves,       \* bound on calls of save
    MaxCrashes      \* bound on saves that die half-way

NoOne == "no one"

ASSUME StoreAssumption ==
    /\ IsFiniteSet(Savers)
    /\ Torn \notin Contents \cup Nat
    /\ NoOne \notin Artifacts
    /\ {"absent", "present", NoOne} \cap Savers = {}
    /\ PoolSize \in Nat \ {0}
    /\ MaxSaves \in Nat /\ MaxCrashes \in Nat

VARIABLES
    backend,    \* where AIDLC_DATABASE_URL sends saves
    overlap,    \* saves of one artifact may overlap
    schema,     \* the tables are known to exist
    lock,       \* who holds _pool_lock while the tables are made
    runRow,     \* the run's row in runs: absent, present, or its inserter's
    versions,   \* the versions of each artifact, as committed or on disk
    pointer,    \* files: the version named by each .latest file, 0 for no file
    job,        \* what each saver is doing
    answers,    \* what save returned, with what had been saved (history)
    saves,      \* calls of save
    crashes     \* saves that died

vars == <<backend, overlap, schema, lock, runRow, versions, pointer, job,
          answers, saves, crashes>>

Idle == [pc |-> "idle", artifact |-> NoOne, content |-> NoOne, version |-> 0]

(* One transaction in Postgres, five writes to the disk in files. *)
PostgresSteps == {"schema", "apply", "connect", "ensure", "select", "insert", "commit"}
FileSteps == {"scan", "create", "fill", "point", "name"}

Jobs == [pc : PostgresSteps \cup FileSteps, artifact : Artifacts,
         content : Contents, version : Nat]

SaversOf(k) == {w \in Savers : job[w].artifact = k}
At(steps) == {w \in Savers : job[w].pc \in steps}
Connected == At({"ensure", "select", "insert", "commit"})

TypeOK ==
    /\ backend \in {"postgres", "files"}
    /\ overlap \in BOOLEAN
    /\ schema \in BOOLEAN
    /\ lock \in Savers \cup {NoOne}
    /\ Cardinality(Connected) <= PoolSize
    /\ \A w \in Savers : lock = w <=> job[w].pc = "apply"
    /\ runRow \in Connected \cup {"absent", "present"}
    /\ versions \in [Artifacts -> Seq(Contents \cup {Torn})]
    /\ pointer \in [Artifacts -> Nat \cup {Torn}]
    /\ job \in [Savers -> Jobs \cup {Idle}]
    /\ answers \subseteq [artifact : Artifacts, content : Contents, version : Nat]
    /\ saves \in 0..MaxSaves
    /\ crashes \in 0..MaxCrashes

Init ==
    /\ backend \in {"postgres", "files"}
    /\ overlap \in BOOLEAN
    /\ schema = FALSE
    /\ lock = NoOne
    /\ runRow \in {"absent", "present"}
    /\ versions = [k \in Artifacts |-> <<>>]
    /\ pointer = [k \in Artifacts |-> 0]
    /\ job = [w \in Savers |-> Idle]
    /\ answers = {}
    /\ saves = 0
    /\ crashes = 0

(* A node saves its artifact; the factory has chosen the store. *)
Begin(w, k, c) ==
    /\ job[w] = Idle
    /\ overlap \/ SaversOf(k) = {}
    /\ saves < MaxSaves
    /\ saves' = saves + 1
    /\ job' = [job EXCEPT ![w] =
                 [pc |-> IF backend = "postgres" THEN "schema" ELSE "scan",
                  artifact |-> k, content |-> c, version |-> 0]]
    /\ UNCHANGED <<backend, overlap, schema, lock, runRow, versions, pointer, answers, crashes>>

(* Saver w goes on to step pc. *)
Goes(w, pc) == job' = [job EXCEPT ![w].pc = pc]

(* save returns version n. *)
Returns(w, n) ==
    /\ answers' = answers \cup
         {[artifact |-> job[w].artifact, content |-> job[w].content, version |-> n]}
    /\ job' = [job EXCEPT ![w] = Idle]

-----------------------------------------------------------------------------
(* Postgres.                                                                 *)

(* Savers that connect on their own. *)
ConnectionAlways == Connected \subseteq Savers

(* _pool hands out a connection while there is one. *)
ConnectionFree == Cardinality(Connected) < PoolSize

(* _ensure_schema takes the lock, unless the tables are known. *)
EnsureSchema(w) ==
    /\ job[w].pc = "schema"
    /\ lock = NoOne
    /\ IF schema THEN Goes(w, "connect") /\ UNCHANGED lock
       ELSE Goes(w, "apply") /\ lock' = w
    /\ UNCHANGED <<backend, overlap, schema, runRow, versions, pointer, answers, saves, crashes>>

(* It makes them over a connection of its own, with the lock in hand. *)
ApplySchema(w) ==
    /\ job[w].pc = "apply"
    /\ ConnectionFree
    /\ schema' = TRUE
    /\ lock' = NoOne
    /\ Goes(w, "connect")
    /\ UNCHANGED <<backend, overlap, runRow, versions, pointer, answers, saves, crashes>>

(* save waits for _pool, and then for a connection. *)
Connect(w) ==
    /\ job[w].pc = "connect"
    /\ lock = NoOne
    /\ ConnectionFree
    /\ Goes(w, "ensure")
    /\ UNCHANGED <<backend, overlap, schema, lock, runRow, versions, pointer, answers, saves, crashes>>

(* _ensure_run inserts the run's row if there is none, and waits for         *)
(* whoever else is inserting it.                                             *)
EnsureRun(w) ==
    /\ job[w].pc = "ensure"
    /\ runRow \in {"absent", "present"}
    /\ runRow' = IF runRow = "absent" THEN w ELSE runRow
    /\ Goes(w, "select")
    /\ UNCHANGED <<backend, overlap, schema, lock, versions, pointer, answers, saves, crashes>>

(* At the end of a transaction of w the run's row stays, or it goes again. *)
RunRowAfter(w, row) == IF runRow = w THEN row ELSE runRow

(* A save that takes any earlier version of the same content for the newest. *)
SameContentAsAny(s, c) == \E i \in 1..Len(s) : s[i] = c

(* Does the newest version hold what is to be saved? *)
SameContent(s, c) == s # <<>> /\ s[Len(s)] = c

(* The newest version is looked up.  If it holds the same content, it is the *)
(* answer and nothing is added.                                              *)
Select(w) ==
    LET s == versions[job[w].artifact] IN
    /\ job[w].pc = "select"
    /\ IF SameContent(s, job[w].content)
       THEN /\ Returns(w, Len(s))
            /\ runRow' = RunRowAfter(w, "present")
       ELSE /\ job' = [job EXCEPT ![w].pc = "insert", ![w].version = Len(s) + 1]
            /\ UNCHANGED <<runRow, answers>>
    /\ UNCHANGED <<backend, overlap, schema, lock, versions, pointer, saves, crashes>>

(* A table without the unique constraint, or with one that tells savers apart. *)
NeverTaken(k, n) == n = 0 /\ k \in Artifacts

(* Is there a committed version n of artifact k, or an uncommitted one? *)
Taken(k, n) == n <= Len(versions[k])
Pending(k, n) == \E w \in At({"commit"}) : job[w].artifact = k /\ job[w].version = n

(* A save that tries the same version again when it is taken. *)
InsertAgain(w) ==
    LET k == job[w].artifact
        n == job[w].version
    IN
    /\ job[w].pc = "insert"
    /\ ~Pending(k, n)
    /\ ~Taken(k, n)
    /\ Goes(w, "commit")
    /\ UNCHANGED <<backend, overlap, schema, lock, runRow, versions, pointer, answers, saves, crashes>>

(* The version is inserted, once no other transaction has it pending.  If it *)
(* is taken the unique constraint fails the transaction, and save raises.    *)
Insert(w) ==
    LET k == job[w].artifact
        n == job[w].version
    IN
    /\ job[w].pc = "insert"
    /\ ~Pending(k, n)
    /\ IF Taken(k, n)
       THEN /\ job' = [job EXCEPT ![w] = Idle]
            /\ runRow' = RunRowAfter(w, "absent")
       ELSE Goes(w, "commit") /\ UNCHANGED runRow
    /\ UNCHANGED <<backend, overlap, schema, lock, versions, pointer, answers, saves, crashes>>

Commit(w) ==
    /\ job[w].pc = "commit"
    /\ versions' = [versions EXCEPT ![job[w].artifact] = Append(@, job[w].content)]
    /\ runRow' = RunRowAfter(w, "present")
    /\ Returns(w, job[w].version)
    /\ UNCHANGED <<backend, overlap, schema, lock, pointer, saves, crashes>>

-----------------------------------------------------------------------------
(* Files.                                                                    *)

(* A scan that reuses the number of a version nobody points to. *)
ScanPointer(w) ==
    /\ job[w].pc = "scan"
    /\ job' = [job EXCEPT ![w].pc = "create",
                 ![w].version = IF pointer[job[w].artifact] = Torn THEN 1
                                ELSE pointer[job[w].artifact] + 1]
    /\ UNCHANGED <<backend, overlap, schema, lock, runRow, versions, pointer, answers, saves, crashes>>

(* The version is the greatest in the directory plus one. *)
Scan(w) ==
    /\ job[w].pc = "scan"
    /\ job' = [job EXCEPT ![w].pc = "create",
                          ![w].version = Len(versions[job[w].artifact]) + 1]
    /\ UNCHANGED <<backend, overlap, schema, lock, runRow, versions, pointer, answers, saves, crashes>>

(* s with c as version n, in place of one there may be. *)
WithVersion(s, n, c) == IF n <= Len(s) THEN [s EXCEPT ![n] = c] ELSE Append(s, c)

(* A pointer that is written before the version it names. *)
CreateAndName(w) ==
    /\ job[w].pc = "create"
    /\ versions' = [versions EXCEPT ![job[w].artifact] = WithVersion(@, job[w].version, Torn)]
    /\ pointer' = [pointer EXCEPT ![job[w].artifact] = job[w].version]
    /\ Goes(w, "fill")
    /\ UNCHANGED <<backend, overlap, schema, lock, runRow, answers, saves, crashes>>

(* write_text creates or truncates the file of the version, then fills it. *)
Create(w) ==
    /\ job[w].pc = "create"
    /\ versions' = [versions EXCEPT ![job[w].artifact] = WithVersion(@, job[w].version, Torn)]
    /\ Goes(w, "fill")
    /\ UNCHANGED <<backend, overlap, schema, lock, runRow, pointer, answers, saves, crashes>>

Fill(w) ==
    /\ job[w].pc = "fill"
    /\ versions' = [versions EXCEPT
                      ![job[w].artifact] = WithVersion(@, job[w].version, job[w].content)]
    /\ Goes(w, "point")
    /\ UNCHANGED <<backend, overlap, schema, lock, runRow, pointer, answers, saves, crashes>>

(* The same for the pointer, after which save returns. *)
Point(w) ==
    /\ job[w].pc = "point"
    /\ pointer' = [pointer EXCEPT ![job[w].artifact] = Torn]
    /\ Goes(w, "name")
    /\ UNCHANGED <<backend, overlap, schema, lock, runRow, versions, answers, saves, crashes>>

Name(w) ==
    /\ job[w].pc = "name"
    /\ pointer' = [pointer EXCEPT ![job[w].artifact] = job[w].version]
    /\ Returns(w, job[w].version)
    /\ UNCHANGED <<backend, overlap, schema, lock, runRow, versions, saves, crashes>>

-----------------------------------------------------------------------------

(* A saver dies: its transaction is rolled back and its lock released; its   *)
(* files stay as they are.                                                   *)
Crash(w) ==
    /\ job[w] # Idle
    /\ crashes < MaxCrashes
    /\ crashes' = crashes + 1
    /\ job' = [job EXCEPT ![w] = Idle]
    /\ lock' = IF lock = w THEN NoOne ELSE lock
    /\ runRow' = RunRowAfter(w, "absent")
    /\ UNCHANGED <<backend, overlap, schema, versions, pointer, answers, saves>>

SaverStep(w) ==
    \/ EnsureSchema(w) \/ ApplySchema(w) \/ Connect(w) \/ EnsureRun(w)
    \/ Select(w) \/ Insert(w) \/ Commit(w)
    \/ Scan(w) \/ Create(w) \/ Fill(w) \/ Point(w) \/ Name(w)

Next ==
    \E w \in Savers :
        \/ \E k \in Artifacts, c \in Contents : Begin(w, k, c)
        \/ SaverStep(w)
        \/ Crash(w)

Spec == Init /\ [][Next]_vars

(* Threads go on, and so does the database. *)
FairSpec == Spec /\ \A w \in Savers : WF_vars(SaverStep(w))

-----------------------------------------------------------------------------
(* What holds.                                                               *)

(* Postgres orders overlapping saves; files need somebody else to. *)
Ordered == backend = "postgres" \/ ~overlap

(* The versions of k that no saver is still writing. *)
Written(k) ==
    IF \E w \in At({"fill"}) : job[w].artifact = k /\ job[w].version = Len(versions[k])
    THEN Len(versions[k]) - 1 ELSE Len(versions[k])

(* What read finds: the version the pointer names, or Torn, when it raises;  *)
(* in Postgres the newest one.                                               *)
Found(k) == IF backend = "postgres" THEN Len(versions[k]) ELSE pointer[k]

V == INSTANCE VersionedStore WITH
       Contents <- Contents \cup {Torn},
       log <- [k \in Artifacts |-> IF Ordered THEN SubSeq(versions[k], 1, Written(k)) ELSE <<>>],
       latest <- [k \in Artifacts |-> IF ~Ordered THEN 0
                                      ELSE IF Found(k) = Torn THEN Written(k) ELSE Found(k)]

(* As long as files have one saver at a time, both stores are a              *)
(* VersionedStore, dying savers included; Postgres is one under overlapping  *)
(* saves as well (save in files.py and in postgres.py).                      *)
ImplementsVersionedStore == V!Spec

(* The version that save returned holds, for good, what was saved.           *)
AnswersKept ==
    Ordered => \A a \in answers :
        /\ a.version <= Len(versions[a.artifact])
        /\ versions[a.artifact][a.version] = a.content

(* Whoever reads after a save has returned gets its version or a newer one,  *)
(* a whole one, or an exception: a saver that is writing the pointer, or     *)
(* died doing so, leaves it empty (read in both stores).                     *)
ReadsFollowSaves ==
    Ordered => \A k \in Artifacts :
        \/ Found(k) = Torn
        \/ /\ \A a \in answers : a.artifact = k => a.version <= Found(k)
           /\ Found(k) # 0 => versions[k][Found(k)] \in Contents

(* A save that repeats the newest version adds none, so a retry that makes   *)
(* the same artifact again leaves no trace, even one that overlaps with the  *)
(* attempt it replaces (the hash comparison in PostgresArtifactStore.save).  *)
NoRepeatedVersion ==
    backend = "postgres" =>
        \A k \in Artifacts : \A i \in 1..(Len(versions[k]) - 1) :
            versions[k][i] # versions[k][i + 1]

(* Every save ends: nobody waits for a connection, for the lock or for an    *)
(* uncommitted row of somebody who waits for them (_ensure_schema holds      *)
(* _pool_lock while it waits for a connection).                              *)
SavesEnd == \A w \in Savers : job[w] # Idle ~> job[w] = Idle

-----------------------------------------------------------------------------
(* What makes it so, by induction on the steps.                              *)

(* A transaction that has looked up the newest version is about to add one   *)
(* that differs from it, if it still is the newest.                          *)
PostgresFits(j) ==
    LET s == versions[j.artifact] IN
    /\ j.pc \in PostgresSteps
    /\ j.pc \in {"insert", "commit"} =>
          /\ j.version \in 1..(Len(s) + 1)
          /\ j.version = Len(s) + 1 => ~SameContent(s, j.content)
    /\ j.pc = "commit" => j.version = Len(s) + 1

PostgresInv ==
    backend = "postgres" =>
        /\ \A w \in Savers : job[w] # Idle => PostgresFits(job[w])
        /\ \A u, w \in At({"commit"}) : job[u].artifact = job[w].artifact => u = w
        /\ \A k \in Artifacts : versions[k] \in Seq(Contents)

(* A lone saver of files is about to add a version, or has just added one.   *)
FileFits(j) ==
    LET s == versions[j.artifact] IN
    /\ j.pc \in FileSteps
    /\ j.pc = "create" => j.version = Len(s) + 1
    /\ j.pc \in {"fill", "point", "name"} => s # <<>> /\ j.version = Len(s)
    /\ j.pc = "fill" => s[Len(s)] = Torn
    /\ j.pc \in {"point", "name"} => s[Len(s)] = j.content

FilesInv ==
    backend = "files" /\ ~overlap =>
        /\ \A w \in Savers : job[w] # Idle => FileFits(job[w])
        /\ \A u, w \in Savers :
              job[w] # Idle /\ job[u].artifact = job[w].artifact => u = w
        /\ \A k \in Artifacts : pointer[k] # Torn => pointer[k] <= Len(versions[k])

IInv ==
    /\ PostgresInv
    /\ FilesInv
    /\ Ordered => \A a \in answers : a.version # 0
    /\ AnswersKept
    /\ ReadsFollowSaves
    /\ NoRepeatedVersion
=============================================================================
