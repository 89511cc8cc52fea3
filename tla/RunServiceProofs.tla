--------------------------- MODULE RunServiceProofs ---------------------------
(* Proofs about RunService, for any number of calls, gates and failures.     *)
EXTENDS RunService, FiniteSetTheorems, TLAPS

-----------------------------------------------------------------------------
(* Invocations, and what changes when one of them goes on.                   *)

LEMMA Records ==
    /\ NoCheckpoint \in Checkpoints
    /\ New \in Invocations /\ Over \in Invocations
    /\ New.pc = "new" /\ New.mem = NoCheckpoint /\ New.answer = "none"
    /\ New.then = "commit" /\ New.status = "running"
    /\ Over.pc = "over" /\ Over.answer = "none" /\ Over.mem = NoCheckpoint
    /\ Over.then = "commit"
    /\ NoCheckpoint.passed = 0 /\ NoCheckpoint.over = "running" /\ ~NoCheckpoint.waiting
<1>1. /\ NoCheckpoint \in Checkpoints
      /\ NoCheckpoint.passed = 0 /\ NoCheckpoint.over = "running" /\ ~NoCheckpoint.waiting
  BY ServiceAssumption DEF NoCheckpoint, Checkpoints
<1>2. /\ New \in Invocations
      /\ New.pc = "new" /\ New.mem = NoCheckpoint /\ New.answer = "none"
      /\ New.then = "commit" /\ New.status = "running"
  BY <1>1 DEF New, Invocations, Statuses
<1>3. /\ Over \in Invocations
      /\ Over.pc = "over" /\ Over.answer = "none" /\ Over.mem = NoCheckpoint
      /\ Over.then = "commit"
  BY <1>2 DEF Over, Invocations
<1> QED
  BY <1>1, <1>2, <1>3

LEMMA Types ==
    /\ \A c \in Checkpoints : /\ c.passed \in 0..Gates /\ c.waiting \in BOOLEAN
                              /\ c.over \in {"running", "completed", "blocked"}
                              /\ c.by \in Threads \cup {"none"}
    /\ \A e \in Invocations : /\ e.mem \in Checkpoints /\ e.status \in Statuses
                              /\ e.answer \in {"none", "yes", "no"}
                              /\ e.then \in {"commit", "store"} /\ e.alone \in BOOLEAN
BY DEF Checkpoints, Invocations

(* The parts of the invocation of thread t after it has gone on as e. *)
LEMMA Gone ==
    ASSUME TypeOK, NEW t \in Threads, NEW e \in Invocations, Goes(t, e)
    PROVE  /\ exec' \in [Threads -> Invocations]
           /\ exec'[t] = e
           /\ \A u \in Threads : u # t => exec'[u] = exec[u]
           /\ \A u \in Threads : u # t => /\ u \in Active' <=> u \in Active
                                          /\ u \in Writing' <=> u \in Writing
           /\ t \in Active' <=> e.pc \notin {"new", "over"}
           /\ t \in Writing' <=> e.pc = "fill"
<1>1. exec' \in [Threads -> Invocations] /\ exec'[t] = e
  BY DEF TypeOK, Goes
<1>2. \A u \in Threads : u # t => exec'[u] = exec[u]
  BY DEF TypeOK, Goes
<1> QED
  BY <1>1, <1>2 DEF Active, Writing

(* TypeOK after a step of t, from what the step does to each variable. *)
LEMMA TypeAfter ==
    ASSUME TypeOK, NEW t \in Threads, NEW e \in Invocations, Goes(t, e),
           UNCHANGED backend, ck' \in Checkpoints, table' \in Statuses \cup {"unknown"},
           \/ row' = row /\ exec[t].pc # "fill"
           \/ row' \in Statuses
           \/ row' = Torn /\ backend = "files" /\ (e.pc = "fill" \/ "overlap" \in events),
           e.pc = "fill" => backend = "files",
           failures' \in 0..MaxFailures, settled' \in [1..Gates -> SUBSET Calls],
           events \subseteq events', events' \subseteq {"overlap", "raise", "death"},
           fresh' \in BOOLEAN
    PROVE  TypeOK'
<1>1. /\ exec' \in [Threads -> Invocations]
      /\ \A u \in Threads : u # t => (u \in Writing' <=> u \in Writing)
      /\ t \in Writing' <=> e.pc = "fill"
  BY Gone
<1>2. Writing \subseteq Threads /\ Writing' \subseteq Threads
  BY DEF Writing
<1>3. row' \in Statuses \cup {"absent", Torn}
  BY DEF TypeOK
<1>4. backend' = "postgres" => row' # Torn /\ Writing' = {}
  BY <1>1, <1>2, ServiceAssumption DEF TypeOK
<1>5. row' = Torn => Writing' # {} \/ events' \cap {"overlap", "death"} # {}
  <2>1. CASE row' = row /\ exec[t].pc # "fill"
    <3>1. t \notin Writing
      BY <2>1 DEF Writing
    <3> QED
      BY <1>1, <1>2, <2>1, <3>1 DEF TypeOK
  <2>2. CASE row' \in Statuses
    BY <2>2, ServiceAssumption
  <2>3. CASE row' = Torn /\ (e.pc = "fill" \/ "overlap" \in events)
    BY <1>1, <2>3
  <2> QED
    BY <2>1, <2>2, <2>3
<1>6. backend' \in {"files", "postgres"}
  BY DEF TypeOK
<1> QED
  BY <1>1, <1>3, <1>4, <1>5, <1>6 DEF TypeOK

(* The invariant after a step of the active thread t, from what is known of  *)
(* its own invocation and of the checkpoint afterwards.  The other threads   *)
(* are not concerned, because a gate is settled by t at most and nobody who  *)
(* had the run to itself is active.                                          *)
LEMMA InvAfter ==
    ASSUME TypeOK, IInv, NEW t \in Active, NEW e \in Invocations, Goes(t, e), e.pc # "new",
           UNCHANGED backend, events \subseteq events',
           \A g \in 1..Gates : settled[g] \subseteq settled'[g] /\ settled'[g] \subseteq settled[g] \cup {t},
           ck'.waiting => ck'.over = "running" /\ ck'.passed < Gates,
           \A g \in 1..ck'.passed : settled'[g] # {},
           ThreadFits(t)',
           "overlap" \notin events' =>
               /\ Commits(t)' => ck'.over = "running"
               /\ e.pc = "fill" => row' = Torn,
           t \in Active' /\ e.alone =>
               /\ exec[t].alone
               /\ e.pc \in {"work", "gate"} => SameCheckpoint(ck, e.mem)'
               /\ e.pc = "returned" => ck'.waiting \/ ck'.over = e.mem.over
               /\ e.pc = "fill" => row' = Torn
               /\ Reports(t)' => e.status = CheckpointStatus'
               /\ e.pc = "store" => row' = e.status,
           fresh' => FreshFits'
    PROVE  IInv'
<1>1. t \in Threads /\ Active \subseteq Threads
  BY DEF Active
<1>2. /\ exec' \in [Threads -> Invocations] /\ exec'[t] = e
      /\ \A u \in Threads : u # t => exec'[u] = exec[u]
      /\ \A u \in Threads : u # t => (u \in Active' <=> u \in Active) /\ (u \in Writing' <=> u \in Writing)
      /\ t \in Active' <=> e.pc \notin {"new", "over"}
      /\ t \in Writing' <=> e.pc = "fill"
  BY <1>1, Gone
<1>3. Active' \subseteq Active /\ Active' \subseteq Threads /\ Writing' \subseteq Threads
  BY <1>2 DEF Active, Writing
<1>4. CheckpointFits'
  <2>1. exec[Daemon].pc # "new"
    BY DEF IInv, CheckpointFits
  <2>2. exec'[Daemon].pc # "new"
    BY <1>2, <2>1 DEF Threads
  <2> QED
    BY <2>2 DEF CheckpointFits
<1>5. SingleFits'
  <2> SUFFICES ASSUME "overlap" \notin events'
               PROVE  /\ \A u, w \in Active' : u = w
                      /\ \A u \in Threads : Commits(u)' => ck'.over = "running"
                      /\ \A u \in Writing' : row' = Torn
    BY DEF SingleFits
  <2>1. \A u, w \in Active : u = w
    BY DEF IInv, SingleFits
  <2>2. \A u \in Threads : u # t => ~Commits(u)' /\ u \notin Writing'
    <3> SUFFICES ASSUME NEW u \in Threads, u # t PROVE ~Commits(u)' /\ u \notin Writing'
      OBVIOUS
    <3>1. exec'[u] = exec[u] /\ u \notin Active
      BY <1>2, <2>1
    <3> QED
      BY <1>2, <3>1 DEF Commits, Active, Writing
  <2> QED
    BY <1>2, <1>3, <2>1, <2>2
<1>6. FreshFits'
  BY DEF FreshFits
<1>7. \A u \in Threads : ThreadFits(u)'
  <2> SUFFICES ASSUME NEW u \in Threads, u # t PROVE ThreadFits(u)'
    OBVIOUS
  <2>1. exec'[u] = exec[u] /\ exec[u].mem.passed \in 0..Gates
    BY <1>2, Types DEF TypeOK
  <2>2. \A g \in 1..Gates : u \in settled'[g] <=> u \in settled[g]
    OBVIOUS
  <2>3. ThreadFits(u)
    BY DEF IInv
  <2>4. \A g \in 1..exec[u].mem.passed : settled'[g] # {}
    BY <2>1, <2>3, ServiceAssumption DEF ThreadFits
  <2> QED
    BY <2>1, <2>2, <2>3, <2>4 DEF ThreadFits
<1>8. \A u \in Threads : AloneFits(u)'
  <2> SUFFICES ASSUME NEW u \in Threads, u \in Active', exec'[u].alone PROVE AloneFits(u)'
    BY DEF AloneFits
  <2>1. u = t
    <3> SUFFICES ASSUME u # t PROVE FALSE
      OBVIOUS
    <3>1. u \in Active /\ exec[u].alone
      BY <1>2
    <3> QED
      BY <3>1 DEF IInv, AloneFits
  <2>2. Active = {t} /\ t \notin CliCalls
    BY <1>1, <1>2, <2>1 DEF IInv, AloneFits
  <2>3. Active' = {t}
    BY <1>3, <2>1, <2>2
  <2> QED
    BY <1>2, <2>1, <2>2, <2>3 DEF AloneFits
<1> QED
  BY <1>4, <1>5, <1>6, <1>7, <1>8 DEF IInv
-----------------------------------------------------------------------------
(* The steps of a thread.                                                    *)

(* UpdateStatus, with what is to be written and where the thread goes on. *)
LEMMA Updates ==
    ASSUME TypeOK, NEW t \in Threads, NEW e \in Invocations, UpdateStatus(t, e)
    PROVE  \/ /\ backend = "postgres" /\ Goes(t, [e EXCEPT !.pc = e.then])
              /\ row' = e.status /\ events' = events
           \/ /\ backend = "files" /\ Goes(t, [e EXCEPT !.pc = "truncate"])
              /\ row' = row /\ row # Torn /\ events' = events
           \/ /\ backend = "files" /\ Goes(t, Over)
              /\ row' = row /\ events' = events \cup {"raise"}
BY DEF UpdateStatus, Raises, TypeOK

(* What is known of a thread that is about to take a step. *)
LEMMA AtWork ==
    ASSUME TypeOK, IInv, NEW t \in Threads, exec[t].pc \notin {"new", "over"}
    PROVE  /\ exec[t] \in Invocations /\ t \in Active /\ fresh = FALSE
           /\ ThreadFits(t) /\ AloneFits(t) /\ CheckpointFits /\ SingleFits
           /\ Commits(t) /\ "overlap" \notin events => ck.over = "running"
<1>1. exec[t] \in Invocations /\ t \in Active
  BY DEF TypeOK, Active
<1>2. ThreadFits(t) /\ AloneFits(t) /\ CheckpointFits /\ SingleFits /\ FreshFits
  BY DEF IInv
<1>3. fresh = FALSE
  BY <1>1, <1>2 DEF FreshFits, TypeOK
<1>4. Commits(t) /\ "overlap" \notin events => ck.over = "running"
  BY <1>2 DEF SingleFits
<1> QED
  BY <1>1, <1>2, <1>3, <1>4

(* A step that leaves the checkpoint and the answers alone. *)
LEMMA QuietAfter ==
    ASSUME TypeOK, IInv, NEW t \in Active, NEW e \in Invocations, Goes(t, e), e.pc # "new",
           UNCHANGED <<backend, ck, settled, fresh>>, events \subseteq events',
           ThreadFits(t)', Commits(t)' => Commits(t),
           e.pc = "fill" => row' = Torn \/ "overlap" \in events',
           t \in Active' /\ e.alone =>
               /\ exec[t].alone
               /\ e.pc \in {"work", "gate"} => SameCheckpoint(ck, e.mem)
               /\ e.pc = "returned" => ck.waiting \/ ck.over = e.mem.over
               /\ e.pc = "fill" => row' = Torn
               /\ Reports(t)' => e.status = CheckpointStatus
               /\ e.pc = "store" => row' = e.status
    PROVE  IInv'
<1>1. t \in Threads /\ exec[t].pc \notin {"new", "over"}
  BY DEF Active
<1>2. fresh' = FALSE /\ CheckpointFits /\ (Commits(t) /\ "overlap" \notin events => ck.over = "running")
  BY <1>1, AtWork
<1>3. CheckpointStatus' = CheckpointStatus /\ SameCheckpoint(ck, e.mem)' = SameCheckpoint(ck, e.mem)
  BY DEF CheckpointStatus, SameCheckpoint
<1> QED
  BY <1>2, <1>3, InvAfter DEF CheckpointFits

(* An invocation that ends half-way. *)
LEMMA OverAfter ==
    ASSUME TypeOK, IInv, NEW t \in Active, exec[t].pc # "fill", Goes(t, Over),
           UNCHANGED <<backend, ck, table, row, fresh>>, events' = events \cup {"raise"},
           failures' \in 0..MaxFailures, settled' \in [1..Gates -> SUBSET Calls],
           \A g \in 1..Gates : settled[g] \subseteq settled'[g] /\ settled'[g] \subseteq settled[g] \cup {t},
           \A g, h \in 1..Gates : t \in settled'[g] /\ t \in settled'[h] => g = h
    PROVE  TypeOK' /\ IInv'
<1>1. t \in Threads /\ exec[t].pc \notin {"new", "over"}
  BY DEF Active
<1>2. /\ fresh' = FALSE /\ CheckpointFits
      /\ Over \in Invocations /\ Over.pc = "over" /\ Over.answer = "none"
      /\ Over.mem.passed = 0 /\ Over.then = "commit"
  BY <1>1, AtWork, Records
<1>3. exec'[t] = Over /\ t \notin Active'
  BY <1>1, <1>2, Gone
<1>4. TypeOK'
  BY <1>1, <1>2, TypeAfter DEF TypeOK
<1>5. ThreadFits(t)' /\ ~Commits(t)'
  BY <1>2, <1>3 DEF ThreadFits, Commits
<1>6. \A g \in 1..ck.passed : settled'[g] # {}
  BY <1>2, Types, ServiceAssumption DEF CheckpointFits, TypeOK
<1> QED
  BY <1>1, <1>2, <1>3, <1>4, <1>5, <1>6, InvAfter DEF CheckpointFits

(* UpdateStatus, with e to be written and to go on with afterwards. *)
LEMMA UpdateKeeps ==
    ASSUME TypeOK, IInv, NEW t \in Active, exec[t].pc # "fill",
           NEW e \in Invocations, UpdateStatus(t, e),
           UNCHANGED <<backend, ck, table, failures, fresh>>,
           e.alone = exec[t].alone,
           t = Daemon => e.answer = "none",
           e.then = "commit" => Commits(t),
           e.then = "store" /\ e.alone => e.status = CheckpointStatus,
           settled' \in [1..Gates -> SUBSET Calls],
           \A g \in 1..Gates : settled[g] \subseteq settled'[g] /\ settled'[g] \subseteq settled[g] \cup {t},
           \A g \in 1..e.mem.passed : settled'[g] # {},
           \A g, h \in 1..Gates : t \in settled'[g] /\ t \in settled'[h] => g = h
    PROVE  TypeOK' /\ IInv'
<1>1. t \in Threads /\ exec[t].pc \notin {"new", "over"}
  BY DEF Active
<1>2. /\ fresh' = FALSE /\ CheckpointFits
      /\ Commits(t) /\ "overlap" \notin events => ck.over = "running"
  BY <1>1, AtWork
<1>3. \A g \in 1..ck.passed : settled'[g] # {}
  BY <1>2, Types, ServiceAssumption DEF CheckpointFits, TypeOK
<1>4. CheckpointStatus' = CheckpointStatus
  BY DEF CheckpointStatus
<1>5. ASSUME NEW x \in Invocations, Goes(t, x), x.pc \in {e.then, "truncate"},
             x.mem = e.mem, x.answer = e.answer, x.status = e.status, x.then = e.then,
             x.alone = e.alone, events' = events,
             x.pc = "truncate" => backend = "files" /\ row' = row,
             x.pc = e.then => row' = e.status
      PROVE  TypeOK' /\ IInv'
  <2>1. exec'[t] = x /\ e.then \in {"commit", "store"} /\ e.status \in Statuses
    BY <1>1, <1>5, Gone, Types
  <2>2. TypeOK'
    BY <1>1, <1>5, <2>1, TypeAfter DEF TypeOK
  <2>3. ThreadFits(t)'
    BY <1>5, <2>1 DEF ThreadFits
  <2>4. (Commits(t)' => Commits(t)) /\ (Reports(t)' => e.then = "store")
    BY <1>5, <2>1 DEF Commits, Reports
  <2>5. x.pc \notin {"new", "work", "gate", "returned", "fill"}
    BY <1>5, <2>1
  <2> QED
    BY <1>1, <1>2, <1>3, <1>4, <1>5, <2>1, <2>2, <2>3, <2>4, <2>5, InvAfter DEF CheckpointFits
<1>6. CASE /\ backend = "postgres" /\ Goes(t, [e EXCEPT !.pc = e.then])
           /\ row' = e.status /\ events' = events
  <2> DEFINE x == [e EXCEPT !.pc = e.then]
  <2>1. /\ x \in Invocations /\ x.pc = e.then /\ x.mem = e.mem /\ x.answer = e.answer
        /\ x.status = e.status /\ x.then = e.then /\ x.alone = e.alone
        /\ e.then # "truncate"
    BY DEF Invocations
  <2>2. Goes(t, x)
    BY <1>6
  <2> HIDE DEF x
  <2> QED
    BY <1>5, <1>6, <2>1, <2>2
<1>7. CASE /\ backend = "files" /\ Goes(t, [e EXCEPT !.pc = "truncate"])
           /\ row' = row /\ row # Torn /\ events' = events
  <2> DEFINE x == [e EXCEPT !.pc = "truncate"]
  <2>1. /\ x \in Invocations /\ x.pc = "truncate" /\ x.mem = e.mem /\ x.answer = e.answer
        /\ x.status = e.status /\ x.then = e.then /\ x.alone = e.alone
        /\ e.then # "truncate"
    BY DEF Invocations
  <2>2. Goes(t, x)
    BY <1>7
  <2> HIDE DEF x
  <2> QED
    BY <1>5, <1>7, <2>1, <2>2
<1>8. CASE /\ backend = "files" /\ Goes(t, Over)
           /\ row' = row /\ events' = events \cup {"raise"}
  BY <1>8, OverAfter DEF TypeOK
<1> QED
  BY <1>1, <1>6, <1>7, <1>8, Updates

LEMMA WorkToGateKeeps ==
    ASSUME TypeOK, IInv, NEW t \in Threads, WorkToGate(t)
    PROVE  TypeOK' /\ IInv'
<1>1. /\ exec[t].pc = "work" /\ exec[t].mem.passed < Gates
      /\ UNCHANGED <<backend, ck, table, row, failures, settled, events, fresh>>
  BY DEF WorkToGate
<1>2. PICK answer \in {exec[t].answer, "none"} :
          Goes(t, [exec[t] EXCEPT !.pc = "gate", !.answer = answer])
  BY DEF WorkToGate
<1> DEFINE e == [exec[t] EXCEPT !.pc = "gate", !.answer = answer]
<1>3. exec[t] \in Invocations /\ t \in Active /\ ThreadFits(t) /\ AloneFits(t)
  BY <1>1, AtWork
<1>4. /\ e \in Invocations /\ e.pc = "gate" /\ e.answer = answer
      /\ e.mem = exec[t].mem /\ e.status = exec[t].status
      /\ e.then = exec[t].then /\ e.alone = exec[t].alone
  BY <1>2, <1>3 DEF Invocations
<1> HIDE DEF e
<1>5. Goes(t, e) /\ exec'[t] = e
  BY <1>2, <1>4, Gone DEF e
<1>6. TypeOK'
  BY <1>1, <1>4, <1>5, TypeAfter DEF TypeOK
<1>7. ThreadFits(t)'
  BY <1>1, <1>2, <1>3, <1>4, <1>5 DEF ThreadFits
<1>8. Commits(t) /\ ~Reports(t)'
  BY <1>1, <1>4, <1>5 DEF Commits, Reports
<1>9. exec[t].alone => SameCheckpoint(ck, exec[t].mem)
  BY <1>1, <1>3 DEF AloneFits
<1> QED
  BY <1>1, <1>3, <1>4, <1>5, <1>6, <1>7, <1>8, <1>9, QuietAfter

LEMMA TruncateRowKeeps ==
    ASSUME TypeOK, IInv, NEW t \in Threads, TruncateRow(t)
    PROVE  TypeOK' /\ IInv'
<1> DEFINE e == [exec[t] EXCEPT !.pc = "fill"]
<1>1. /\ exec[t].pc = "truncate" /\ row' = Torn /\ Goes(t, e)
      /\ UNCHANGED <<backend, ck, table, failures, settled, events, fresh>>
  BY DEF TruncateRow
<1>2. exec[t] \in Invocations /\ t \in Active /\ ThreadFits(t) /\ AloneFits(t)
  BY <1>1, AtWork
<1>3. /\ e \in Invocations /\ e.pc = "fill" /\ e.answer = exec[t].answer
      /\ e.mem = exec[t].mem /\ e.status = exec[t].status
      /\ e.then = exec[t].then /\ e.alone = exec[t].alone
  BY <1>2 DEF Invocations
<1> HIDE DEF e
<1>4. exec'[t] = e /\ backend = "files"
  BY <1>1, <1>2, <1>3, Gone DEF ThreadFits
<1>5. TypeOK'
  BY <1>1, <1>3, <1>4, TypeAfter DEF TypeOK
<1>6. ThreadFits(t)'
  BY <1>1, <1>2, <1>3, <1>4 DEF ThreadFits
<1>7. (Commits(t)' => Commits(t)) /\ (Reports(t)' => Reports(t))
  BY <1>1, <1>3, <1>4 DEF Commits, Reports
<1>8. exec[t].alone /\ Reports(t) => exec[t].status = CheckpointStatus
  BY <1>2 DEF AloneFits
<1> QED
  BY <1>1, <1>2, <1>3, <1>4, <1>5, <1>6, <1>7, <1>8, QuietAfter

LEMMA FillRowKeeps ==
    ASSUME TypeOK, IInv, NEW t \in Threads, FillRow(t)
    PROVE  TypeOK' /\ IInv'
<1> DEFINE e == [exec[t] EXCEPT !.pc = exec[t].then]
<1>1. /\ exec[t].pc = "fill" /\ Goes(t, e)
      /\ row' \in IF row = Torn THEN {exec[t].status} ELSE {exec[t].status, Torn}
      /\ UNCHANGED <<backend, ck, table, failures, settled, events, fresh>>
  BY DEF FillRow
<1>2. /\ exec[t] \in Invocations /\ t \in Active
      /\ ThreadFits(t) /\ AloneFits(t) /\ SingleFits
  BY <1>1, AtWork
<1>3. /\ e \in Invocations /\ e.pc = exec[t].then /\ e.answer = exec[t].answer
      /\ e.mem = exec[t].mem /\ e.status = exec[t].status
      /\ e.then = exec[t].then /\ e.alone = exec[t].alone
      /\ e.then \in {"commit", "store"} /\ e.status \in Statuses
  BY <1>2 DEF Invocations
<1> HIDE DEF e
<1>4. exec'[t] = e /\ backend = "files"
  BY <1>1, <1>2, <1>3, Gone DEF ThreadFits
<1>5. row = Torn \/ "overlap" \in events
  BY <1>1, <1>2 DEF SingleFits, Writing
<1>6. TypeOK'
  BY <1>1, <1>3, <1>4, <1>5, TypeAfter DEF TypeOK
<1>7. ThreadFits(t)'
  BY <1>1, <1>2, <1>3, <1>4 DEF ThreadFits
<1>8. (Commits(t)' => Commits(t)) /\ (Reports(t)' => Reports(t))
  BY <1>1, <1>3, <1>4 DEF Commits, Reports
<1>9. exec[t].alone => row = Torn /\ (Reports(t) => exec[t].status = CheckpointStatus)
  BY <1>1, <1>2 DEF AloneFits
<1> QED
  BY <1>1, <1>2, <1>3, <1>4, <1>6, <1>7, <1>8, <1>9, QuietAfter

(* Who has not answered yet has settled nothing. *)
LEMMA Unsettled ==
    ASSUME NEW t \in Threads, ThreadFits(t)
    PROVE  \A g, h \in 1..Gates : t \in settled[g] /\ t \in settled[h] => g = h
BY DEF ThreadFits

LEMMA ReportKeeps ==
    ASSUME TypeOK, IInv, NEW t \in Threads, Report(t)
    PROVE  TypeOK' /\ IInv'
<1>1. /\ exec[t].pc = "update" /\ UpdateStatus(t, exec[t])
      /\ UNCHANGED <<backend, ck, table, failures, settled, fresh>>
  BY DEF Report
<1>2. exec[t] \in Invocations /\ t \in Active /\ ThreadFits(t) /\ AloneFits(t)
  BY <1>1, AtWork
<1>3. t = Daemon => exec[t].answer = "none"
  BY <1>2 DEF ThreadFits
<1>4. (exec[t].then = "commit" => Commits(t)) /\ (exec[t].then = "store" => Reports(t))
  BY <1>1 DEF Commits, Reports
<1>5. exec[t].alone /\ Reports(t) => exec[t].status = CheckpointStatus
  BY <1>2 DEF AloneFits
<1>6. \A g \in 1..exec[t].mem.passed : settled'[g] # {}
  BY <1>1, <1>2 DEF ThreadFits
<1>7. \A g, h \in 1..Gates : t \in settled'[g] /\ t \in settled'[h] => g = h
  BY <1>1, <1>2, Unsettled
<1> QED
  BY <1>1, <1>2, <1>3, <1>4, <1>5, <1>6, <1>7, UpdateKeeps DEF TypeOK

LEMMA WorkToEndKeeps ==
    ASSUME TypeOK, IInv, NEW t \in Threads, WorkToEnd(t)
    PROVE  TypeOK' /\ IInv'
<1>1. exec[t].pc = "work" /\ UNCHANGED <<backend, ck, table, failures, settled, fresh>>
  BY DEF WorkToEnd
<1>2. exec[t] \in Invocations /\ t \in Active /\ ThreadFits(t) /\ AloneFits(t)
  BY <1>1, AtWork
<1>3. PICK end \in {"completed", "blocked"} :
        LET x == [exec[t] EXCEPT !.mem.over = end, !.status = end] IN
        \/ UpdateStatus(t, x)
        \/ Goes(t, [x EXCEPT !.pc = "commit"]) /\ UNCHANGED <<row, events>>
  BY DEF WorkToEnd
<1> DEFINE x == [exec[t] EXCEPT !.mem.over = end, !.status = end]
           e == [x EXCEPT !.pc = "commit"]
<1>4. /\ x \in Invocations /\ x.answer = exec[t].answer /\ x.mem.passed = exec[t].mem.passed
      /\ x.then = exec[t].then /\ x.alone = exec[t].alone
      /\ e \in Invocations /\ e.answer = exec[t].answer /\ e.mem.passed = exec[t].mem.passed
      /\ e.then = exec[t].then /\ e.alone = exec[t].alone /\ e.pc = "commit"
  BY <1>2 DEF Invocations, Checkpoints, Statuses
<1>5. UpdateStatus(t, x) \/ (Goes(t, e) /\ UNCHANGED <<row, events>>)
  BY <1>3
<1> HIDE DEF x, e
<1>6. exec[t].then = "commit" /\ Commits(t) /\ (t = Daemon => exec[t].answer = "none")
  BY <1>1, <1>2 DEF ThreadFits, Commits
<1>7. \A g \in 1..exec[t].mem.passed : settled'[g] # {}
  BY <1>1, <1>2 DEF ThreadFits
<1>8. \A g, h \in 1..Gates : t \in settled'[g] /\ t \in settled'[h] => g = h
  BY <1>1, <1>2, Unsettled
<1>9. CASE UpdateStatus(t, x)
  BY <1>1, <1>2, <1>4, <1>6, <1>7, <1>8, <1>9, UpdateKeeps DEF TypeOK
<1>10. CASE Goes(t, e) /\ UNCHANGED <<row, events>>
  <2>1. exec'[t] = e
    BY <1>4, <1>10, Gone
  <2>2. TypeOK'
    BY <1>1, <1>4, <1>10, TypeAfter DEF TypeOK
  <2>3. ThreadFits(t)' /\ ~Reports(t)'
    BY <1>1, <1>4, <1>6, <1>7, <1>8, <2>1 DEF ThreadFits, Reports
  <2> QED
    BY <1>1, <1>2, <1>4, <1>6, <1>10, <2>1, <2>2, <2>3, QuietAfter
<1> QED
  BY <1>5, <1>9, <1>10

LEMMA AgentRaisesKeeps ==
    ASSUME TypeOK, IInv, NEW t \in Threads, AgentRaises(t)
    PROVE  TypeOK' /\ IInv'
<1>1. /\ exec[t].pc = "work" /\ failures < MaxFailures /\ failures' = failures + 1
      /\ Goes(t, Over) /\ events' = events \cup {"raise"}
      /\ UNCHANGED <<backend, ck, table, row, settled, fresh>>
  BY DEF AgentRaises, Raises
<1>2. t \in Active /\ ThreadFits(t)
  BY <1>1, AtWork
<1>3. \A g, h \in 1..Gates : t \in settled[g] /\ t \in settled[h] => g = h
  BY <1>2, Unsettled
<1>4. failures' \in 0..MaxFailures
  BY <1>1, ServiceAssumption DEF TypeOK
<1> QED
  BY <1>1, <1>2, <1>3, <1>4, OverAfter DEF TypeOK

LEMMA InterruptKeeps ==
    ASSUME TypeOK, IInv, NEW t \in Threads, Interrupt(t)
    PROVE  TypeOK' /\ IInv'
<1> DEFINE e == [exec[t] EXCEPT !.pc = "returned"]
           same == SameCheckpoint(ck, exec[t].mem)
<1>1. /\ exec[t].pc = "gate" /\ exec[t].answer = "none" /\ Goes(t, e)
      /\ ck' = IF same THEN [ck EXCEPT !.waiting = TRUE] ELSE ck
      /\ UNCHANGED <<backend, table, row, failures, settled, events, fresh>>
  BY DEF Interrupt
<1>2. /\ exec[t] \in Invocations /\ t \in Active /\ fresh = FALSE
      /\ ThreadFits(t) /\ AloneFits(t) /\ CheckpointFits
  BY <1>1, AtWork
<1>3. /\ e \in Invocations /\ e.pc = "returned" /\ e.answer = exec[t].answer
      /\ e.mem = exec[t].mem /\ e.status = exec[t].status
      /\ e.then = exec[t].then /\ e.alone = exec[t].alone
  BY <1>2 DEF Invocations
<1> HIDE DEF e
<1>4. exec'[t] = e
  BY <1>1, <1>3, Gone
<1>5. ck \in Checkpoints /\ exec[t].mem \in Checkpoints
  BY <1>2, Types DEF TypeOK
<1>6. same => ck.over = exec[t].mem.over /\ ck.passed = exec[t].mem.passed
  BY <1>5 DEF SameCheckpoint, Checkpoints
<1>7. /\ ck' \in Checkpoints /\ ck'.over = ck.over /\ ck'.passed = ck.passed
      /\ ck'.waiting = (same \/ ck.waiting)
  BY <1>1, <1>5 DEF Checkpoints
<1> HIDE DEF same
<1>8. exec[t].mem.over = "running" /\ exec[t].mem.passed < Gates
  BY <1>1, <1>2 DEF ThreadFits
<1>9. TypeOK'
  BY <1>1, <1>3, <1>7, TypeAfter DEF TypeOK
<1>10. ThreadFits(t)' /\ ~Commits(t)' /\ ~Reports(t)'
  BY <1>1, <1>2, <1>3, <1>4 DEF ThreadFits, Commits, Reports
<1>11. ck'.waiting => ck'.over = "running" /\ ck'.passed < Gates
  BY <1>2, <1>6, <1>7, <1>8 DEF CheckpointFits
<1>12. \A g \in 1..ck'.passed : settled'[g] # {}
  BY <1>1, <1>2, <1>7 DEF CheckpointFits
<1>13. exec[t].alone => ck'.waiting
  BY <1>1, <1>2, <1>7 DEF AloneFits, same
<1> QED
  BY <1>1, <1>2, <1>3, <1>4, <1>9, <1>10, <1>11, <1>12, <1>13, InvAfter

LEMMA AnsweredKeeps ==
    ASSUME TypeOK, IInv, NEW t \in Threads, Answered(t)
    PROVE  TypeOK' /\ IInv'
<1>1. /\ exec[t].pc = "gate" /\ exec[t].answer # "none"
      /\ settled' = [settled EXCEPT ![exec[t].mem.passed + 1] = @ \cup {t}]
      /\ UNCHANGED <<backend, ck, table, failures, fresh>>
  BY DEF Answered
<1>2. exec[t] \in Invocations /\ t \in Active /\ ThreadFits(t) /\ AloneFits(t)
  BY <1>1, AtWork
<1>3. PICK status \in {"running", "blocked"}, mem \in Checkpoints :
        /\ mem.passed \in {exec[t].mem.passed, exec[t].mem.passed + 1}
        /\ UpdateStatus(t, [exec[t] EXCEPT !.mem = mem, !.status = status])
  <2>1. exec[t].mem.passed < Gates /\ exec[t].mem \in Checkpoints
    BY <1>1, <1>2, Types DEF ThreadFits
  <2> DEFINE yes == [exec[t].mem EXCEPT !.passed = @ + 1]
             no == [exec[t].mem EXCEPT !.over = "blocked"]
  <2>2. yes \in Checkpoints /\ yes.passed = exec[t].mem.passed + 1
    BY <2>1, ServiceAssumption DEF Checkpoints
  <2>3. no \in Checkpoints /\ no.passed = exec[t].mem.passed
    BY <2>1 DEF Checkpoints
  <2>4. \/ UpdateStatus(t, [exec[t] EXCEPT !.mem = yes, !.status = "running"])
        \/ UpdateStatus(t, [exec[t] EXCEPT !.mem = no, !.status = "blocked"])
    BY DEF Answered
  <2> HIDE DEF yes, no
  <2> QED
    BY <2>2, <2>3, <2>4
<1> DEFINE e == [exec[t] EXCEPT !.mem = mem, !.status = status]
<1>4. /\ e \in Invocations /\ e.answer = exec[t].answer /\ e.mem = mem
      /\ e.then = exec[t].then /\ e.alone = exec[t].alone
  BY <1>2, <1>3 DEF Invocations, Statuses
<1>5. UpdateStatus(t, e)
  BY <1>3
<1> HIDE DEF e
<1>6. /\ exec[t].then = "commit" /\ Commits(t) /\ t # Daemon /\ t \in Calls
      /\ exec[t].mem.passed + 1 \in 1..Gates /\ exec[t].mem.passed \in Nat
      /\ \A g \in 1..Gates : t \notin settled[g]
  <2>1. exec[t].mem.passed \in 0..Gates /\ exec[t].mem.passed < Gates
    BY <1>1, <1>2, Types DEF ThreadFits
  <2> QED
    BY <1>1, <1>2, <2>1, ServiceAssumption DEF ThreadFits, Commits, Threads
<1>7. /\ settled' \in [1..Gates -> SUBSET Calls]
      /\ \A g \in 1..Gates : /\ settled[g] \subseteq settled'[g]
                             /\ settled'[g] \subseteq settled[g] \cup {t}
                             /\ t \in settled'[g] <=> g = exec[t].mem.passed + 1
  BY <1>1, <1>6 DEF TypeOK
<1>8. \A g \in 1..mem.passed : settled'[g] # {}
  <2> SUFFICES ASSUME NEW g \in 1..mem.passed PROVE settled'[g] # {}
    OBVIOUS
  <2>1. g \in 1..exec[t].mem.passed \/ g = exec[t].mem.passed + 1
    BY <1>3, <1>6
  <2>2. CASE g \in 1..exec[t].mem.passed
    <3>1. g \in 1..Gates
      BY <1>6, <2>2, ServiceAssumption
    <3>2. settled[g] # {}
      BY <1>2, <2>2 DEF ThreadFits
    <3>3. settled[g] \subseteq settled'[g]
      BY <1>7, <3>1
    <3> QED
      BY <3>2, <3>3
  <2>3. CASE g = exec[t].mem.passed + 1
    BY <1>6, <1>7, <2>3
  <2> QED
    BY <2>1, <2>2, <2>3
<1> QED
  BY <1>1, <1>2, <1>4, <1>5, <1>6, <1>7, <1>8, UpdateKeeps

LEMMA CommitKeeps ==
    ASSUME TypeOK, IInv, NEW t \in Threads, Commit(t)
    PROVE  TypeOK' /\ IInv'
<1> DEFINE mem == [exec[t].mem EXCEPT !.waiting = FALSE, !.by = t]
           pc == IF mem.over = "running" THEN "work" ELSE "returned"
           e == [exec[t] EXCEPT !.pc = pc, !.mem = mem, !.answer = "none", !.status = "running"]
<1>1. /\ exec[t].pc = "commit" /\ ck' = mem /\ Goes(t, e)
      /\ UNCHANGED <<backend, table, row, failures, settled, events, fresh>>
  BY DEF Commit, AnswerAfter
<1>2. /\ exec[t] \in Invocations /\ t \in Active /\ fresh = FALSE
      /\ ThreadFits(t) /\ CheckpointFits /\ AloneFits(t)
  BY <1>1, AtWork
<1>3. /\ mem \in Checkpoints /\ mem.passed = exec[t].mem.passed /\ ~mem.waiting
  BY <1>2 DEF Invocations, Checkpoints
<1>4. /\ e \in Invocations /\ e.pc = pc /\ e.answer = "none" /\ e.mem = mem
      /\ e.then = exec[t].then /\ e.alone = exec[t].alone
  BY <1>2, <1>3 DEF Invocations, Statuses
<1> HIDE DEF mem, e
<1>5. exec'[t] = e /\ t \in Active'
  BY <1>1, <1>4, Gone
<1>6. TypeOK'
  BY <1>1, <1>3, <1>4, TypeAfter DEF TypeOK
<1>7. exec[t].then = "commit" /\ \A g \in 1..mem.passed : settled[g] # {}
  BY <1>1, <1>2, <1>3 DEF ThreadFits
<1>8. ThreadFits(t)'
  BY <1>1, <1>2, <1>4, <1>5, <1>7, Unsettled DEF ThreadFits
<1>9. ~Reports(t)' /\ (Commits(t)' => mem.over = "running")
  BY <1>4, <1>5 DEF Reports, Commits
<1>10. SameCheckpoint(ck', e.mem)
  BY <1>1, <1>4 DEF SameCheckpoint
<1> QED
  BY <1>1, <1>2, <1>3, <1>4, <1>5, <1>6, <1>7, <1>8, <1>9, <1>10, InvAfter

LEMMA GetStateKeeps ==
    ASSUME TypeOK, IInv, NEW t \in Threads, GetState(t)
    PROVE  TypeOK' /\ IInv'
<1> DEFINE e == [exec[t] EXCEPT !.pc = "update", !.status = ResultStatus(t),
                                !.then = "store", !.answer = "none", !.mem = NoCheckpoint]
<1>1. /\ exec[t].pc = "returned" /\ Goes(t, e)
      /\ UNCHANGED <<backend, ck, table, row, failures, settled, events, fresh>>
  BY DEF GetState
<1>2. exec[t] \in Invocations /\ t \in Active /\ ThreadFits(t) /\ AloneFits(t)
  BY <1>1, AtWork
<1>3. ResultStatus(t) \in Statuses
  BY <1>2, Types DEF ResultStatus, Statuses
<1>4. /\ e \in Invocations /\ e.pc = "update" /\ e.answer = "none" /\ e.mem = NoCheckpoint
      /\ e.then = "store" /\ e.alone = exec[t].alone /\ e.status = ResultStatus(t)
  BY <1>2, <1>3, Records DEF Invocations
<1> HIDE DEF e
<1>5. exec'[t] = e
  BY <1>1, <1>4, Gone
<1>6. TypeOK'
  BY <1>1, <1>4, TypeAfter DEF TypeOK
<1>7. ThreadFits(t)'
  BY <1>1, <1>2, <1>4, <1>5, Records, Unsettled DEF ThreadFits
<1>8. ~Commits(t)'
  BY <1>4, <1>5 DEF Commits
<1>9. exec[t].alone => ResultStatus(t) = CheckpointStatus
  BY <1>1, <1>2 DEF AloneFits, ResultStatus, CheckpointStatus
<1> QED
  BY <1>1, <1>2, <1>4, <1>6, <1>7, <1>8, <1>9, QuietAfter

LEMMA StoreResultKeeps ==
    ASSUME TypeOK, IInv, NEW t \in Threads, StoreResult(t)
    PROVE  TypeOK' /\ IInv'
<1>1. /\ exec[t].pc = "store" /\ table' = Stored(t) /\ fresh' = exec[t].alone /\ Goes(t, Over)
      /\ UNCHANGED <<backend, ck, row, failures, settled, events>>
  BY DEF StoreResult
<1>2. /\ exec[t] \in Invocations /\ t \in Active
      /\ ThreadFits(t) /\ AloneFits(t) /\ CheckpointFits
  BY <1>1, AtWork
<1>3. /\ Over \in Invocations /\ Over.pc = "over" /\ Over.answer = "none"
      /\ Over.mem.passed = 0 /\ Over.then = "commit"
  BY Records
<1>4. exec'[t] = Over /\ t \notin Active' /\ \A u \in Threads : u # t => (u \in Active' <=> u \in Active)
  BY <1>1, <1>3, Gone
<1>5. table' \in Statuses \cup {"unknown"} /\ fresh' \in BOOLEAN
  BY <1>1, <1>2, Types DEF Stored, TypeOK
<1>6. TypeOK'
  BY <1>1, <1>3, <1>5, TypeAfter DEF TypeOK
<1>7. ThreadFits(t)' /\ ~Commits(t)'
  BY <1>1, <1>2, <1>3, <1>4, Unsettled DEF ThreadFits, Commits
<1>8. ASSUME fresh' PROVE FreshFits'
  <2>1. /\ Active = {t} /\ t \notin CliCalls /\ row = exec[t].status
        /\ exec[t].status = CheckpointStatus
    BY <1>1, <1>2, <1>8 DEF AloneFits, Reports
  <2>2. Active' = {}
    BY <1>4, <2>1 DEF Active
  <2>3. CheckpointStatus' = CheckpointStatus
    BY <1>1 DEF CheckpointStatus
  <2> QED
    BY <1>1, <2>1, <2>2, <2>3 DEF FreshFits, Stored
<1> QED
  BY <1>1, <1>2, <1>3, <1>4, <1>6, <1>7, <1>8, InvAfter DEF CheckpointFits

-----------------------------------------------------------------------------
(* Calls that start.                                                         *)

(* e, next to whoever is active. *)
Joined(t, e) == [e EXCEPT !.alone = (Active = {} /\ t \notin CliCalls)]

LEMMA StartsFacts ==
    ASSUME TypeOK, NEW t \in Threads, NEW e \in Invocations, e.pc \notin {"new", "over", "fill"},
           exec[t].pc = "new", Starts(t, e)
    PROVE  /\ exec' \in [Threads -> Invocations] /\ t \in Active' /\ fresh' = FALSE
           /\ exec'[t].pc = e.pc /\ exec'[t].mem = e.mem /\ exec'[t].answer = e.answer
           /\ exec'[t].status = e.status /\ exec'[t].then = e.then
           /\ exec'[t].alone <=> Active = {} /\ t \notin CliCalls
           /\ \A u \in Threads : u # t =>
                 /\ exec'[u].pc = exec[u].pc /\ exec'[u].mem = exec[u].mem
                 /\ exec'[u].answer = exec[u].answer /\ exec'[u].then = exec[u].then
                 /\ u \in Active => ~exec'[u].alone
           /\ Active' = Active \cup {t} /\ Writing' = Writing
           /\ events \subseteq events' /\ events' \subseteq {"overlap", "raise", "death"}
           /\ "overlap" \notin events' => Active = {}
<1>1. /\ Joined(t, e) \in Invocations /\ Joined(t, e).pc = e.pc /\ Joined(t, e).mem = e.mem
      /\ Joined(t, e).answer = e.answer /\ Joined(t, e).status = e.status
      /\ Joined(t, e).then = e.then /\ Joined(t, e).alone = (Active = {} /\ t \notin CliCalls)
  BY DEF Joined, Invocations
<1>2. \A u \in Threads : LET x == [exec[u] EXCEPT !.alone = FALSE] IN
        /\ x \in Invocations /\ x.pc = exec[u].pc /\ x.mem = exec[u].mem
        /\ x.answer = exec[u].answer /\ x.then = exec[u].then /\ ~x.alone
  BY DEF TypeOK, Invocations
<1>3. exec' = [u \in Threads |-> IF u = t THEN Joined(t, e)
                                ELSE IF u \in Active THEN [exec[u] EXCEPT !.alone = FALSE]
                                ELSE exec[u]]
  BY DEF Starts, Joined
<1>4. exec' \in [Threads -> Invocations] /\ exec'[t] = Joined(t, e)
  BY <1>1, <1>2, <1>3 DEF TypeOK
<1>5. \A u \in Threads : u # t =>
        /\ exec'[u].pc = exec[u].pc /\ exec'[u].mem = exec[u].mem
        /\ exec'[u].answer = exec[u].answer /\ exec'[u].then = exec[u].then
        /\ u \in Active => ~exec'[u].alone
  BY <1>2, <1>3
<1>6. Active' = Active \cup {t} /\ Writing' = Writing
  BY <1>1, <1>4, <1>5 DEF Active, Writing
<1>7. /\ events \subseteq events' /\ events' \subseteq {"overlap", "raise", "death"}
      /\ "overlap" \notin events' => Active = {} /\ fresh' = FALSE
  BY DEF Starts, TypeOK
<1> QED
  BY <1>1, <1>4, <1>5, <1>6, <1>7 DEF Starts

LEMMA StartsKeeps ==
    ASSUME TypeOK, IInv, NEW t \in Threads, NEW e \in Invocations,
           e.pc \in {"work", "gate", "returned", "truncate", "update"},
           exec[t].pc = "new", Starts(t, e),
           UNCHANGED <<backend, ck, row, failures, settled>>,
           table' \in Statuses \cup {"unknown"},
           t = Daemon \/ exec[Daemon].pc # "new",
           t = Daemon => e.answer = "none",
           e.then = "commit",
           e.pc = "truncate" => backend = "files",
           e.pc \in {"work", "gate"} => e.mem.over = "running",
           e.pc = "gate" => e.mem.passed < Gates,
           \A g \in 1..e.mem.passed : settled[g] # {},
           e.pc # "returned" => ck.over = "running",
           e.pc \in {"work", "gate", "returned"} => SameCheckpoint(ck, e.mem)
    PROVE  TypeOK' /\ IInv'
<1>1. /\ exec' \in [Threads -> Invocations] /\ t \in Active' /\ fresh' = FALSE
      /\ exec'[t].pc = e.pc /\ exec'[t].mem = e.mem /\ exec'[t].answer = e.answer
      /\ exec'[t].status = e.status /\ exec'[t].then = e.then
      /\ exec'[t].alone <=> Active = {} /\ t \notin CliCalls
      /\ Active' = Active \cup {t} /\ Writing' = Writing
      /\ events \subseteq events' /\ events' \subseteq {"overlap", "raise", "death"}
      /\ "overlap" \notin events' => Active = {}
  <2>1. e.pc \notin {"new", "over", "fill"}
    OBVIOUS
  <2> QED
    BY <2>1, StartsFacts
<1>2. \A u \in Threads : u # t =>
        /\ exec'[u].pc = exec[u].pc /\ exec'[u].mem = exec[u].mem
        /\ exec'[u].answer = exec[u].answer /\ exec'[u].then = exec[u].then
        /\ u \in Active => ~exec'[u].alone
  BY StartsFacts
<1>3. TypeOK'
  <2>1. row' = Torn => Writing' # {} \/ events' \cap {"overlap", "death"} # {}
    BY <1>1 DEF TypeOK
  <2> QED
    BY <1>1, <2>1 DEF TypeOK
<1>4. CheckpointFits'
  <2>1. exec'[Daemon].pc # "new"
    BY <1>1, <1>2 DEF Threads
  <2> QED
    BY <2>1 DEF IInv, CheckpointFits
<1>5. SingleFits'
  <2> SUFFICES ASSUME "overlap" \notin events'
               PROVE  /\ \A u, w \in Active' : u = w
                      /\ \A u \in Threads : Commits(u)' => ck'.over = "running"
                      /\ \A u \in Writing' : row' = Torn
    BY DEF SingleFits
  <2>1. Active = {} /\ Active' = {t} /\ Writing' = {}
    BY <1>1 DEF Writing, Active
  <2>2. \A u \in Threads : u # t => ~Commits(u)'
    BY <1>2, <2>1 DEF Commits, Active
  <2>3. Commits(t)' => ck'.over = "running"
    BY <1>1 DEF Commits
  <2> QED
    BY <2>1, <2>2, <2>3
<1>6. \A u \in Threads : ThreadFits(u)'
  <2>1. ThreadFits(t) /\ \A u \in Threads : ThreadFits(u)
    BY DEF IInv
  <2>2. ThreadFits(t)'
    BY <1>1, <2>1 DEF ThreadFits
  <2>3. ASSUME NEW u \in Threads, u # t PROVE ThreadFits(u)'
    BY <1>2, <2>1, <2>3 DEF ThreadFits
  <2> QED
    BY <2>2, <2>3
<1>7. \A u \in Threads : AloneFits(u)'
  <2> SUFFICES ASSUME NEW u \in Threads, u \in Active', exec'[u].alone PROVE AloneFits(u)'
    BY DEF AloneFits
  <2>1. u = t /\ Active' = {t} /\ t \notin CliCalls
    BY <1>1, <1>2
  <2>2. ~Reports(t)' /\ (exec'[t].pc = "returned" => ck'.over = exec'[t].mem.over)
    <3>1. ck \in Checkpoints /\ e.mem \in Checkpoints
      BY Types DEF TypeOK
    <3>2. SameCheckpoint(ck, e.mem) => ck.over = e.mem.over
      BY <3>1 DEF SameCheckpoint, Checkpoints
    <3> QED
      BY <1>1, <3>2 DEF Reports
  <2>3. SameCheckpoint(ck, e.mem)' = SameCheckpoint(ck, e.mem)
    BY DEF SameCheckpoint
  <2> QED
    BY <1>1, <2>1, <2>2, <2>3 DEF AloneFits
<1> QED
  BY <1>1, <1>3, <1>4, <1>5, <1>6, <1>7 DEF IInv, FreshFits

LEMMA CreateRunKeeps == ASSUME TypeOK, IInv, CreateRun PROVE TypeOK' /\ IInv'
<1> DEFINE e == [New EXCEPT !.pc = IF backend = "files" THEN "truncate" ELSE "update"]
<1>1. /\ exec[Daemon].pc = "new" /\ table' = "running" /\ Starts(Daemon, e)
      /\ UNCHANGED <<backend, ck, row, failures, settled>>
  BY DEF CreateRun
<1>2. /\ e \in Invocations /\ e.mem = NoCheckpoint /\ e.answer = "none" /\ e.then = "commit"
      /\ e.pc = IF backend = "files" THEN "truncate" ELSE "update"
  BY Records DEF Invocations
<1> HIDE DEF e
<1>3. Daemon \in Threads /\ ck = NoCheckpoint
  BY <1>1 DEF Threads, IInv, CheckpointFits
<1> QED
  BY <1>1, <1>2, <1>3, Records, StartsKeeps DEF Statuses

LEMMA ApproveRunKeeps == ASSUME TypeOK, IInv, NEW t \in Calls, ApproveRun(t) PROVE TypeOK' /\ IInv'
<1>1. exec[t].pc = "new" /\ ck # NoCheckpoint /\ UNCHANGED <<backend, ck, table, row, failures, settled>>
  BY DEF ApproveRun
<1>2. PICK answer \in {"yes", "no"} :
        Starts(t, [New EXCEPT !.pc = ResumesAt, !.mem = ck, !.answer = answer])
  BY DEF ApproveRun
<1> DEFINE e == [New EXCEPT !.pc = ResumesAt, !.mem = ck, !.answer = answer]
<1>3. t \in Threads /\ t # Daemon /\ ck \in Checkpoints
  BY ServiceAssumption DEF Threads, TypeOK
<1>4. ResumesAt \in {"returned", "gate", "work"}
  BY DEF ResumesAt
<1>5. /\ e \in Invocations /\ e.pc = ResumesAt /\ e.mem = ck /\ e.answer = answer
      /\ e.then = "commit"
  BY <1>2, <1>3, <1>4, Records DEF Invocations
<1>6. Starts(t, e)
  BY <1>2
<1> HIDE DEF e
<1>7. exec[Daemon].pc # "new" /\ CheckpointFits
  BY <1>1 DEF IInv, CheckpointFits
<1>8. /\ ResumesAt \in {"work", "gate"} => ck.over = "running"
      /\ ResumesAt = "gate" => ck.waiting
  BY DEF ResumesAt
<1>9. SameCheckpoint(ck, e.mem)
  BY <1>5 DEF SameCheckpoint
<1> QED
  BY <1>1, <1>3, <1>4, <1>5, <1>6, <1>7, <1>8, <1>9, StartsKeeps DEF CheckpointFits, TypeOK

-----------------------------------------------------------------------------
(* Processes that die.                                                       *)

LEMMA DiesKeeps ==
    ASSUME TypeOK, IInv, NEW gone \in SUBSET Threads, Dies(gone), exec[Daemon].pc # "new",
           table' \in Statuses \cup {"unknown"}, fresh' = FALSE
    PROVE  TypeOK' /\ IInv'
<1>1. /\ failures < MaxFailures /\ failures' = failures + 1 /\ events' = events \cup {"death"}
      /\ exec' = [t \in Threads |-> IF t \in gone THEN Over ELSE exec[t]]
      /\ UNCHANGED <<backend, ck, row, settled>>
  BY DEF Dies
<1>2. exec' \in [Threads -> Invocations] /\ \A t \in Threads : exec'[t] \in {exec[t], Over}
  BY <1>1, Records DEF TypeOK
<1>3. /\ \A t \in Threads : exec'[t].pc # "over" => exec'[t] = exec[t]
      /\ Active' \subseteq Active /\ Writing' \subseteq Writing /\ Active \subseteq Threads
  BY <1>2, Records DEF Active, Writing
<1>4. TypeOK'
  <2>1. failures' \in 0..MaxFailures
    BY <1>1, ServiceAssumption DEF TypeOK
  <2>2. backend' = "postgres" => row' # Torn /\ Writing' = {}
    BY <1>1, <1>3 DEF TypeOK
  <2>3. "death" \in events' \cap {"overlap", "death"}
    BY <1>1
  <2> QED
    BY <1>1, <1>2, <2>1, <2>2, <2>3 DEF TypeOK
<1>5. CheckpointFits'
  <2>1. exec'[Daemon].pc # "new"
    BY <1>2, Records DEF Threads
  <2> QED
    BY <1>1, <2>1 DEF IInv, CheckpointFits
<1>6. SingleFits'
  <2>1. \A t \in Threads : Commits(t)' => Commits(t)
    BY <1>2, Records DEF Commits
  <2> QED
    BY <1>1, <1>3, <2>1 DEF IInv, SingleFits
<1>7. \A t \in Threads : ThreadFits(t)'
  <2> SUFFICES ASSUME NEW t \in Threads PROVE ThreadFits(t)'
    OBVIOUS
  <2>1. ThreadFits(t)
    BY DEF IInv
  <2>2. CASE exec'[t] = exec[t]
    BY <1>1, <2>1, <2>2 DEF ThreadFits
  <2>3. CASE exec'[t] = Over
    BY <1>1, <2>1, <2>3, Records, Unsettled DEF ThreadFits
  <2> QED
    BY <1>2, <2>2, <2>3
<1>8. \A t \in Threads : AloneFits(t)'
  <2> SUFFICES ASSUME NEW t \in Threads, t \in Active', exec'[t].alone PROVE AloneFits(t)'
    BY DEF AloneFits
  <2>1. exec'[t] = exec[t] /\ t \in Active
    BY <1>3 DEF Active
  <2>2. Active' = {t}
    BY <1>3, <2>1 DEF IInv, AloneFits
  <2>3. AloneFits(t) /\ CheckpointStatus' = CheckpointStatus /\ Reports(t)' = Reports(t)
    BY <1>1, <2>1 DEF IInv, CheckpointStatus, Reports
  <2> QED
    BY <1>1, <2>1, <2>2, <2>3 DEF AloneFits
<1> QED
  BY <1>4, <1>5, <1>6, <1>7, <1>8 DEF IInv, FreshFits

LEMMA KillKeeps == ASSUME TypeOK, IInv, NEW t \in Threads, Kill(t) PROVE TypeOK' /\ IInv'
<1>1. t \in Active /\ Dies({t}) /\ UNCHANGED <<table, fresh>>
  BY DEF Kill
<1>2. fresh = FALSE /\ exec[Daemon].pc # "new"
  BY <1>1 DEF IInv, FreshFits, CheckpointFits, TypeOK
<1> QED
  BY <1>1, <1>2, DiesKeeps DEF TypeOK

LEMMA RestartKeeps == ASSUME TypeOK, IInv, Restart PROVE TypeOK' /\ IInv'
<1>1. ApiThreads \subseteq Threads
  BY DEF ApiThreads, Active
<1> QED
  BY <1>1, DiesKeeps DEF Restart

-----------------------------------------------------------------------------
(* The invariant and what follows from it.                                   *)

LEMMA InvInit == Init => TypeOK /\ IInv
<1> SUFFICES ASSUME Init PROVE TypeOK /\ IInv
  OBVIOUS
<1>1. \A t \in Threads : exec[t] = New /\ exec[t].pc = "new"
  BY Records DEF Init
<1>2. Active = {} /\ Writing = {}
  BY <1>1 DEF Active, Writing
<1>3. TypeOK
  <2>1. row # Torn
    BY ServiceAssumption DEF Init
  <2>2. exec \in [Threads -> Invocations]
    BY Records DEF Init
  <2>3. settled \in [1..Gates -> SUBSET Calls] /\ failures \in 0..MaxFailures
    BY ServiceAssumption DEF Init
  <2>4. ck \in Checkpoints /\ table \in Statuses \cup {"unknown"} /\ row \in Statuses \cup {"absent"}
    BY Records DEF Init
  <2> QED
    BY <1>2, <2>1, <2>2, <2>3, <2>4 DEF Init, TypeOK
<1>4. CheckpointFits
  BY <1>2, Records DEF Init, CheckpointFits
<1>5. SingleFits /\ FreshFits
  BY <1>1, <1>2 DEF Init, SingleFits, FreshFits, Commits
<1>6. \A t \in Threads : ThreadFits(t) /\ AloneFits(t)
  BY <1>1, <1>2, Records DEF Init, ThreadFits, AloneFits
<1> QED
  BY <1>3, <1>4, <1>5, <1>6 DEF IInv

LEMMA NextKeeps == TypeOK /\ IInv /\ [Next]_vars => TypeOK' /\ IInv'
<1> SUFFICES ASSUME TypeOK, IInv, [Next]_vars PROVE TypeOK' /\ IInv'
  OBVIOUS
<1>1. CASE Next
  BY <1>1, CreateRunKeeps, ApproveRunKeeps, WorkToGateKeeps, WorkToEndKeeps, InterruptKeeps,
     AnsweredKeeps, CommitKeeps, GetStateKeeps, ReportKeeps, TruncateRowKeeps, FillRowKeeps,
     StoreResultKeeps, AgentRaisesKeeps, KillKeeps, RestartKeeps DEF Next, Step
<1>2. CASE UNCHANGED vars
  BY <1>2 DEF vars, TypeOK, IInv, CheckpointFits, ThreadFits, SingleFits, AloneFits, FreshFits,
              Active, Writing, Commits, Reports, SameCheckpoint, CheckpointStatus
<1> QED
  BY <1>1, <1>2

(* Type correctness; with it that a row in files is torn only while somebody *)
(* writes it, or after writers overlapped or died (TypeOK).                  *)
THEOREM ServiceTypeOK == Spec => []TypeOK
<1>1. Init => TypeOK /\ IInv
  BY InvInit
<1>2. TypeOK /\ IInv /\ [Next]_vars => TypeOK' /\ IInv'
  BY NextKeeps
<1> QED
  BY <1>1, <1>2, PTL DEF Spec

(* The inductive invariant: copies of the checkpoint that are out hold only  *)
(* gates that were answered, and what a call that had the run to itself has  *)
(* done agrees with the checkpoint at each of its steps.                     *)
THEOREM ServiceInvariant == Spec => []IInv
<1>1. Init => TypeOK /\ IInv
  BY InvInit
<1>2. TypeOK /\ IInv /\ [Next]_vars => TypeOK' /\ IInv'
  BY NextKeeps
<1> QED
  BY <1>1, <1>2, PTL DEF Spec

(* Whatever overlaps, raises and restarts went before, a call of the service *)
(* that had the run to itself leaves table, row and checkpoint in agreement. *)
THEOREM LoneCallAgreesHolds == Spec => []LoneCallAgrees
<1>1. IInv => LoneCallAgrees
  BY DEF IInv, FreshFits, LoneCallAgrees
<1> QED
  BY <1>1, ServiceInvariant, PTL

(* No gate is passed without an answer, and no call answers two gates, in    *)
(* any overlap of any number of calls.                                       *)
THEOREM GatesAreAnsweredHolds == Spec => []GatesAreAnswered
<1>1. ASSUME TypeOK, IInv PROVE GatesAreAnswered
  <2>1. \A g \in 1..ck.passed : settled[g] # {}
    BY <1>1 DEF IInv, CheckpointFits
  <2>2. ASSUME NEW t \in Calls PROVE Cardinality({g \in 1..Gates : t \in settled[g]}) <= 1
    <3> DEFINE S == {g \in 1..Gates : t \in settled[g]}
    <3>1. t \in Threads
      BY DEF Threads
    <3>2. \A g, h \in S : g = h
      BY <1>1, <3>1, Unsettled DEF IInv
    <3>3. CASE S = {}
      BY <3>3, FS_EmptySet
    <3>4. CASE S # {}
      <4>1. PICK g \in S : S = {g}
        BY <3>2, <3>4
      <4> HIDE DEF S
      <4>2. Cardinality(S) = 1
        BY <4>1, FS_Singleton
      <4> QED
        BY <4>2 DEF S
    <3> QED
      BY <3>3, <3>4
  <2> QED
    BY <2>1, <2>2 DEF GatesAreAnswered
<1> QED
  BY <1>1, ServiceTypeOK, ServiceInvariant, PTL

(* A run that is over is touched again only after calls that overlapped.     *)
THEOREM OverIsFinalHolds == Spec => OverIsFinal
<1>1. TypeOK /\ IInv /\ [Next]_vars
        => [ck.over # "running" /\ ck' # ck => "overlap" \in events]_vars
  <2> SUFFICES ASSUME TypeOK, IInv, Next, ck.over # "running", ck' # ck
               PROVE  "overlap" \in events
    OBVIOUS
  <2>1. PICK t \in Threads : Interrupt(t) \/ Commit(t)
    BY DEF Next, Step, CreateRun, ApproveRun, WorkToGate, WorkToEnd, Answered, GetState, Report,
           TruncateRow, FillRow, StoreResult, AgentRaises, Kill, Restart, Dies
  <2>2. Commits(t)
    BY <2>1 DEF Interrupt, Commit, Commits
  <2> QED
    BY <2>2 DEF IInv, SingleFits
<1> QED
  BY <1>1, ServiceTypeOK, ServiceInvariant, PTL DEF Spec, OverIsFinal
=============================================================================
