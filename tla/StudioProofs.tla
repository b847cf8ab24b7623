----------------------------- MODULE StudioProofs -----------------------------
(***************************************************************************)
(* Theorems about JobQueue and about Studio, for every set of entries,     *)
(* jobs, locks, kinds, pools and limits.  The first half is about the plan *)
(* under any caller; the second about the whole: what the worker, the job  *)
(* threads, the routes and other processes leave true of the plan and of   *)
(* the work, in whatever order their steps fall and whichever of their     *)
(* saves fail.                                                             *)
(***************************************************************************)
EXTENDS Studio, FiniteSetTheorems, SequenceTheorems, TLAPS

Entries == [Ids -> Entry \cup {NoEntry}]

----------------------------------------------------------------------------
(* Lemmas about the list operations *)

\* Appending a fresh id to an arrangement of a set arranges the larger set.
LEMMA AppendArrangement ==
  ASSUME NEW S, IsFiniteSet(S), NEW ord \in Arrangements(S), NEW e, e \notin S
  PROVE  Append(ord, e) \in Arrangements(S \cup {e})
<1> DEFINE n == Cardinality(S)
           new == Append(ord, e)
<1>1. n \in Nat /\ Cardinality(S \cup {e}) = n + 1
  BY FS_CardinalityType, FS_AddElement
<1>2. /\ ord \in [1..n -> S]
      /\ \A i, j \in 1..n : ord[i] = ord[j] => i = j
      /\ \A s \in S : \E i \in 1..n : ord[i] = s
  BY <1>1 DEF Arrangements, Bijection, Injection, Surjection, IsInjective
<1>3. ord \in Seq(S \cup {e}) /\ Len(ord) = n
  BY <1>1, <1>2
<1>4. /\ new \in [1..(n + 1) -> S \cup {e}]
      /\ \A i \in 1..n : new[i] = ord[i]
      /\ new[n + 1] = e
  <2>1. /\ new \in Seq(S \cup {e})
        /\ Len(new) = n + 1
        /\ \A i \in 1..n : new[i] = ord[i]
        /\ new[n + 1] = e
    BY <1>3, AppendProperties
  <2>2. new \in [1..Len(new) -> S \cup {e}]
    BY <2>1, LenProperties
  <2> QED BY <2>1, <2>2
<1>5. \A i, j \in 1..(n + 1) : new[i] = new[j] => i = j
  <2> SUFFICES ASSUME NEW i \in 1..(n + 1), NEW j \in 1..(n + 1), new[i] = new[j]
               PROVE  i = j
    OBVIOUS
  <2>1. CASE i \in 1..n /\ j \in 1..n
    BY <2>1, <1>2, <1>4
  <2>2. CASE i = n + 1 /\ j \in 1..n
    BY <2>2, <1>2, <1>4
  <2>3. CASE i \in 1..n /\ j = n + 1
    BY <2>3, <1>2, <1>4
  <2>4. CASE i = n + 1 /\ j = n + 1
    BY <2>4
  <2> QED BY <1>1, <2>1, <2>2, <2>3, <2>4
<1>6. \A s \in S \cup {e} : \E i \in 1..(n + 1) : new[i] = s
  <2> SUFFICES ASSUME NEW s \in S \cup {e} PROVE \E i \in 1..(n + 1) : new[i] = s
    OBVIOUS
  <2>1. CASE s = e
    BY <2>1, <1>1, <1>4
  <2>2. CASE s \in S
    <3>1. PICK i \in 1..n : ord[i] = s
      BY <2>2, <1>2
    <3> QED BY <3>1, <1>1, <1>4
  <2> QED BY <2>1, <2>2
<1> HIDE DEF new, n
<1>7. new \in Bijection(1..(n + 1), S \cup {e})
  BY <1>4, <1>5, <1>6 DEF Bijection, Injection, Surjection, IsInjective
<1> QED BY <1>1, <1>7 DEF Arrangements, new, n

\* The retention cap only drops finished entries nobody refers to.
LEMMA TrimProperties ==
  ASSUME NEW ents \in Entries
  PROVE  /\ TrimFinished(ents) \in Entries
         /\ InPlan(TrimFinished(ents)) \subseteq InPlan(ents)
         /\ \A e \in InPlan(TrimFinished(ents)) : TrimFinished(ents)[e] = ents[e]
         /\ \A e \in InPlan(ents) : ents[e].after \in InPlan(ents)
                                     => ents[e].after \in InPlan(TrimFinished(ents))
BY DEF TrimFinished, InPlan, Entries

----------------------------------------------------------------------------
(* Type correctness *)

\* The plan is finite, as the ids are.
LEMMA InPlanFinite == ASSUME NEW ents PROVE IsFiniteSet(InPlan(ents))
BY FS_Subset, QueueAssumption DEF InPlan

\* A plan is its entries and their order.
LEMMA PlanOfFields ==
  ASSUME NEW ents, NEW ord
  PROVE  PlanOf(ents, ord).entries = ents /\ PlanOf(ents, ord).order = ord
BY DEF PlanOf

\* The plan of a new workspace is well-formed.
LEMMA EmptyPlanOK == PlanOK(EmptyEntries, <<>>)
<1>1. EmptyEntries \in Entries /\ InPlan(EmptyEntries) = {}
  BY DEF Entries, EmptyEntries, InPlan
<1>2. <<>> \in Bijection(1..0, {})
  BY DEF Bijection, Injection, Surjection, IsInjective
<1> QED BY <1>1, <1>2, FS_EmptySet DEF PlanOK, Arrangements, Entries

\* What every action that saves owes: a well-formed plan to save.
LEMMA CommitKeepsType ==
  ASSUME TypeOK, NEW ents, NEW ord, PlanOK(ents, ord), Commit(ents, ord),
         UNCHANGED <<limits, known, phase>>
  PROVE  TypeOK'
<1>1. CASE Save(ents, ord)
  BY <1>1 DEF TypeOK, Save, PlanOf, PlanOK, InPlan
<1>2. CASE RollBack(ents, ord)
  BY <1>2 DEF TypeOK, RollBack, PlanOK, InPlan
<1> QED BY <1>1, <1>2 DEF Commit

\* The change of one row is such a save ...
LEMMA UpdateKeepsType ==
  ASSUME TypeOK, NEW e \in InPlan(entries), NEW entry \in Entry, Update(e, entry)
  PROVE  TypeOK'
<1> DEFINE ents == [entries EXCEPT ![e] = entry]
<1>1. ents \in Entries /\ InPlan(ents) = InPlan(entries)
  BY QueueAssumption DEF TypeOK, PlanOK, Entries, InPlan
<1>2. PlanOK(ents, order)
  BY <1>1 DEF TypeOK, PlanOK, Entries
<1> QED BY <1>2, CommitKeepsType DEF Update

\* ... and the save of a trimmed plan.
LEMMA CommitTrimmedKeepsType ==
  ASSUME TypeOK, NEW ents \in Entries, CommitTrimmed(ents)
  PROVE  TypeOK'
<1>1. PICK ord \in Arrangements(InPlan(TrimFinished(ents))) : Commit(TrimFinished(ents), ord)
  BY DEF CommitTrimmed
<1>2. PlanOK(TrimFinished(ents), ord)
  BY <1>1, TrimProperties DEF PlanOK, Entries
<1> QED BY <1>1, <1>2, CommitKeepsType DEF CommitTrimmed

\* A row of the plan is an entry.
LEMMA EntryOfPlan ==
  ASSUME TypeOK, NEW e \in InPlan(entries)
  PROVE  entries[e] \in Entry
BY DEF TypeOK, PlanOK, InPlan

\* A scan leaves entries that are entries.
LEMMA AfterScanType ==
  ASSUME TypeOK, NEW skip, NEW blocked, NEW failed \in SUBSET Reached(skip, blocked)
  PROVE  AfterScan(Claimed(skip, blocked), Reached(skip, blocked), failed, blocked) \in Entries
<1> DEFINE claimed == Claimed(skip, blocked)
           reached == Reached(skip, blocked)
           ents == AfterScan(claimed, reached, failed, blocked)
<1>1. claimed \subseteq InPlan(entries) /\ reached \subseteq InPlan(entries)
  BY DEF Claimed, Reached, Candidates
<1>2. ASSUME NEW e \in Ids
      PROVE  ents[e] \in Entry \cup {NoEntry}
  <2>1. CASE e \in claimed \cup reached
    <3>1. entries[e] \in Entry
      BY <1>1, <2>1, EntryOfPlan
    <3> QED BY <3>1, <2>1 DEF AfterScan, Entry, States, Reasons
  <2>2. CASE e \notin claimed \cup reached
    BY <2>2 DEF AfterScan, TypeOK, PlanOK
  <2> QED BY <2>1, <2>2
<1> QED BY <1>2 DEF AfterScan, Entries

\* A new queue is well-formed.
LEMMA InitTypeOK == Init => TypeOK
<1> SUFFICES ASSUME Init PROVE TypeOK
  OBVIOUS
<1>1. PlanOK(entries, order)
  BY EmptyPlanOK DEF Init
<1>2. file.entries = EmptyEntries /\ file.order = <<>>
  BY PlanOfFields DEF Init, EmptyPlan
<1>3. PlanOK(file.entries, file.order)
  BY <1>2, EmptyPlanOK
<1> QED BY <1>1, <1>3 DEF Init, TypeOK

\* No call leaves memory or file with a plan that is not well-formed.
LEMMA StepTypeOK ==
  ASSUME TypeOK, [Next]_vars
  PROVE  TypeOK'
<1> USE DEF Entries
<1>1. ASSUME NEW e \in Ids, NEW kind \in Kinds, NEW after \in Ids \cup {None},
             Enqueue(e, kind, after)
      PROVE  TypeOK'
  <2> DEFINE ents == [entries EXCEPT ![e] = NewEntry(kind, after)]
  <2>1. entries[e] = NoEntry /\ Commit(ents, Append(order, e)) /\ UNCHANGED <<limits, known, phase>>
    BY <1>1 DEF Enqueue, Fresh
  <2>2. NewEntry(kind, after) \in Entry
    BY DEF NewEntry, Entry, States
  <2>3. ents \in Entries /\ InPlan(ents) = InPlan(entries) \cup {e}
    BY <2>1, <2>2, QueueAssumption DEF TypeOK, PlanOK, InPlan
  <2>4. e \notin InPlan(entries)
    BY <2>1 DEF InPlan
  <2>5. Append(order, e) \in Arrangements(InPlan(ents))
    BY <2>3, <2>4, AppendArrangement, InPlanFinite DEF TypeOK, PlanOK
  <2> QED BY <2>1, <2>3, <2>5, CommitKeepsType DEF PlanOK
<1>2. ASSUME NEW e \in Ids, Pause(e) \/ Resume(e) \/ Retry(e) \/ Defer(e) \/ MarkStopping(e)
      PROVE  TypeOK'
  <2>1. e \in InPlan(entries)
    BY <1>2 DEF Pause, Resume, Retry, Defer, MarkStopping
  <2>2. entries[e] \in Entry
    BY <2>1, EntryOfPlan
  <2>3. PICK entry \in Entry : Update(e, entry)
    BY <1>2, <2>2 DEF Pause, Resume, Retry, Defer, MarkStopping, Entry, States, Reasons
  <2> QED BY <2>1, <2>3, UpdateKeepsType
<1>3. ASSUME NEW e \in Ids, NEW progress \in {Reading, None}, NEW thread \in Jobs \cup {None},
             MarkRunning(e, progress, thread)
      PROVE  TypeOK'
  <2>1. e \in InPlan(entries)
    BY <1>3 DEF MarkRunning
  <2>2. entries[e] \in Entry
    BY <2>1, EntryOfPlan
  <2>3. PICK entry \in Entry : Update(e, entry)
    BY <1>3, <2>2 DEF MarkRunning, Entry
  <2> QED BY <2>1, <2>3, UpdateKeepsType
<1>4. ASSUME NEW e \in Ids, Remove(e)
      PROVE  TypeOK'
  <2> DEFINE ents == [entries EXCEPT ![e] = NoEntry]
  <2>1. PICK ord \in Arrangements(InPlan(entries) \ {e}) :
           Commit(ents, ord) /\ UNCHANGED <<limits, known, phase>>
    BY <1>4 DEF Remove
  <2>2. ents \in Entries /\ InPlan(ents) = InPlan(entries) \ {e}
    BY DEF TypeOK, PlanOK, InPlan
  <2> QED BY <2>1, <2>2, CommitKeepsType DEF PlanOK
<1>5. ASSUME NEW e \in Ids, NEW index \in DOMAIN order, Move(e, index)
      PROVE  TypeOK'
  <2>1. PICK ord \in Arrangements(InPlan(entries)) :
           Commit(entries, ord) /\ UNCHANGED <<limits, known, phase>>
    BY <1>5 DEF Move
  <2> QED BY <2>1, CommitKeepsType DEF PlanOK, TypeOK
<1>6. ASSUME NEW skip \in SUBSET Ids, NEW blocked \in SUBSET Ids, ClaimNext(skip, blocked)
      PROVE  TypeOK'
  <2>1. PICK failed \in SUBSET Reached(skip, blocked) :
           CommitTrimmed(AfterScan(Claimed(skip, blocked), Reached(skip, blocked),
                                   failed, blocked))
    BY <1>6 DEF ClaimNext
  <2> QED BY <2>1, AfterScanType, CommitTrimmedKeepsType
<1>7. ASSUME NEW e \in Ids, NEW state \in TerminalStates, MarkFinished(e, state, "ended")
      PROVE  TypeOK'
  <2> DEFINE ents == [entries EXCEPT ![e] = [@ EXCEPT
                        !.state = state, !.reason = "ended", !.progress = None]]
  <2>1. e \in InPlan(entries) /\ CommitTrimmed(ents)
    BY <1>7 DEF MarkFinished
  <2>2. entries[e] \in Entry
    BY <2>1, EntryOfPlan
  <2>3. ents \in Entries
    BY <2>2 DEF Entry, States, TerminalStates, Reasons, TypeOK, PlanOK
  <2> QED BY <2>1, <2>3, CommitTrimmedKeepsType
<1>8. ASSUME NEW skip \in SUBSET Ids, Recover(skip)
      PROVE  TypeOK'
  <2> DEFINE orphans == {e \in InPlan(entries) \ skip : entries[e].state \in ActiveStates}
             ents == [e \in Ids |-> IF e \in orphans THEN Orphaned(entries[e]) ELSE entries[e]]
             kept == InPlan(TrimFinished(ents))
  <2>1. ents \in Entries
    <3>1. \A e \in orphans : entries[e] \in Entry
      BY EntryOfPlan
    <3> QED BY <3>1 DEF Orphaned, Entry, States, Reasons, TypeOK, PlanOK
  <2>2. UNCHANGED <<limits, known>> /\ phase' \in {"down", "loaded", "serving"}
    BY <1>8 DEF Recover, TypeOK
  <2>3. CASE UNCHANGED <<entries, order, file, storageError>>
    BY <2>2, <2>3 DEF TypeOK, PlanOK, InPlan
  <2>4. CASE \E ord \in Arrangements(kept) : Save(TrimFinished(ents), ord)
    BY <2>1, <2>2, <2>4, TrimProperties DEF Save, TypeOK, PlanOf, PlanOK, InPlan
  <2>5. CASE RollBack(TrimFinished(ents), order)
    BY <2>2, <2>5 DEF RollBack, TypeOK, PlanOK, InPlan
  <2> QED BY <1>8, <2>3, <2>4, <2>5 DEF Recover
<1>9. ASSUME NEW new \in LimitChoices, SetLimits(new)
      PROVE  TypeOK'
  BY <1>9 DEF SetLimits, TypeOK, PlanOK, InPlan
<1>10. CASE ResumeStorage
  <2>1. PlanOK(entries, order)'
    BY <1>10 DEF ResumeStorage, TypeOK, PlanOK, InPlan
  <2>2. file' = PlanOf(entries, order) \/ file' = file
    BY <1>10 DEF ResumeStorage
  <2>3. file' # Corrupt => PlanOK(file'.entries, file'.order)
    BY <2>2, PlanOfFields DEF TypeOK
  <2> QED BY <1>10, <2>1, <2>3 DEF ResumeStorage, TypeOK, PlanOK, InPlan
<1>11. CASE Crash
  BY <1>11, EmptyPlanOK DEF Crash, TypeOK, PlanOK, InPlan
<1>12. CASE LoadPlan
  BY <1>12 DEF LoadPlan, TypeOK, PlanOK, InPlan
<1>13. CASE LoadCorrupt
  <2>1. file' # Corrupt => PlanOK(file'.entries, file'.order)
    BY <1>13, EmptyPlanOK, PlanOfFields DEF LoadCorrupt, EmptyPlan
  <2> QED BY <1>13, <2>1 DEF LoadCorrupt, TypeOK, PlanOK, InPlan
<1>14. CASE Damage
  BY <1>14 DEF Damage, TypeOK, PlanOK, InPlan
<1>15. CASE UNCHANGED vars
  BY <1>15 DEF vars, TypeOK, PlanOK, InPlan
<1> QED
  BY <1>1, <1>2, <1>3, <1>4, <1>5, <1>6, <1>7, <1>8, <1>9, <1>10, <1>11, <1>12,
     <1>13, <1>14, <1>15 DEF Next, PlanCall, WorkCall

\* Memory and file always hold a well-formed plan.
THEOREM TypeCorrect == Spec => []TypeOK
<1>1. TypeOK /\ [Next]_vars => TypeOK'
  BY StepTypeOK
<1> QED BY <1>1, InitTypeOK, PTL DEF Spec

----------------------------------------------------------------------------
(* The inductive invariant.  What a restart reads back is the file, so the  *)
(* plan in the file must be as good as the one in memory; and because       *)
(* memory is on disk, one predicate on plans serves both.                   *)

GoodEntry(ents, e) ==
  /\ ents[e].state \in ActiveStates \cup {"done", "stopped", "interrupted"}
       => (ents[e].after # None =>
             ents[e].after \in InPlan(ents) /\ ents[ents[e].after].state = "done")
  /\ IF ents[e].state \in ActiveStates
     THEN ents[e].reason = None
     ELSE ents[e].progress = None

GoodPlan(ents) == \A e \in InPlan(ents) : GoodEntry(ents, e)

IInv ==
  /\ TypeOK
  /\ MemoryIsOnDisk
  /\ phase = "down" => entries = EmptyEntries /\ order = <<>>
  /\ GoodPlan(entries)
  /\ file # Corrupt => /\ file = PlanOf(file.entries, file.order)
                       /\ GoodPlan(file.entries)

\* Nothing the retention cap drops is referred to, so a good plan stays good.
LEMMA TrimKeepsGood ==
  ASSUME NEW ents \in Entries, GoodPlan(ents)
  PROVE  GoodPlan(TrimFinished(ents))
<1> DEFINE kept == TrimFinished(ents)
<1>1. /\ InPlan(kept) \subseteq InPlan(ents)
      /\ \A e \in InPlan(kept) : kept[e] = ents[e]
      /\ \A e \in InPlan(ents) : ents[e].after \in InPlan(ents) => ents[e].after \in InPlan(kept)
  BY TrimProperties
<1> HIDE DEF kept
<1>2. ASSUME NEW e \in InPlan(kept) PROVE GoodEntry(kept, e)
  <2>1. GoodEntry(ents, e) /\ kept[e] = ents[e] /\ e \in InPlan(ents)
    BY <1>1 DEF GoodPlan
  <2>2. ents[e].after \in InPlan(ents) => /\ ents[e].after \in InPlan(kept)
                                         /\ kept[ents[e].after] = ents[ents[e].after]
    BY <1>1, <2>1
  <2> QED BY <2>1, <2>2 DEF GoodEntry
<1> QED BY <1>2 DEF GoodPlan, kept

\* A good plan may be saved, and a save that fails costs nothing.
LEMMA CommitKeepsInv ==
  ASSUME IInv, TypeOK', NEW ents, NEW ord, GoodPlan(ents), Commit(ents, ord),
         phase # "down", phase' # "down"
  PROVE  IInv'
<1>1. CASE Save(ents, ord)
  <2>1. entries' = ents /\ file' = PlanOf(ents, ord) /\ order' = ord
    BY <1>1 DEF Save
  <2>2. file' = PlanOf(file'.entries, file'.order) /\ file'.entries = ents
    BY <2>1, PlanOfFields
  <2> QED BY <2>1, <2>2 DEF IInv, MemoryIsOnDisk, GoodPlan, GoodEntry, InPlan
<1>2. CASE RollBack(ents, ord)
  BY <1>2 DEF IInv, RollBack, MemoryIsOnDisk, GoodPlan, GoodEntry, InPlan
<1> QED BY <1>1, <1>2 DEF Commit

\* The same of a plan that is trimmed first ...
LEMMA CommitTrimmedKeepsInv ==
  ASSUME IInv, TypeOK', NEW ents \in Entries, GoodPlan(ents), CommitTrimmed(ents),
         phase = "serving"
  PROVE  IInv'
<1>1. PICK ord : Commit(TrimFinished(ents), ord)
  BY DEF CommitTrimmed
<1>2. GoodPlan(TrimFinished(ents))
  BY TrimKeepsGood
<1> QED BY <1>1, <1>2, CommitKeepsInv DEF CommitTrimmed

\* Changing one entry in place, its `after` untouched, keeps the plan good if
\* the entry stays good and a prerequisite that was done is still done.
LEMMA ReplaceKeepsGood ==
  ASSUME TypeOK, GoodPlan(entries), NEW e \in InPlan(entries), NEW entry \in Entry,
         entry.after = entries[e].after,
         entries[e].state = "done" => entry.state = "done",
         entry.state \in ActiveStates \cup {"done", "stopped", "interrupted"}
           => Satisfied(e),
         IF entry.state \in ActiveStates THEN entry.reason = None ELSE entry.progress = None
  PROVE  GoodPlan([entries EXCEPT ![e] = entry])
<1> DEFINE ents == [entries EXCEPT ![e] = entry]
<1>1. /\ ents[e] = entry
      /\ \A f \in Ids : f # e => ents[f] = entries[f]
      /\ InPlan(ents) = InPlan(entries)
      /\ e \in Ids
  BY QueueAssumption DEF TypeOK, PlanOK, InPlan
<1> HIDE DEF ents
<1>2. \A f \in InPlan(entries) : entries[f].state = "done" => ents[f].state = "done"
  BY <1>1 DEF InPlan
<1>3. ASSUME NEW f \in InPlan(ents) PROVE GoodEntry(ents, f)
  <2>1. CASE f = e
    <3>1. GoodEntry(entries, e)
      BY DEF GoodPlan
    <3> QED BY <1>1, <1>2, <2>1, <3>1 DEF GoodEntry, Satisfied
  <2>2. CASE f # e
    <3>1. GoodEntry(entries, f) /\ ents[f] = entries[f]
      BY <1>1, <2>2 DEF GoodPlan, InPlan
    <3> QED BY <1>1, <1>2, <3>1 DEF GoodEntry
  <2> QED BY <2>1, <2>2
<1> QED BY <1>3 DEF GoodPlan, ents

\* ... and of a change in place by one of the calls on a live or waiting row.
LEMMA UpdateKeepsInv ==
  ASSUME IInv, TypeOK', phase = "serving",
         NEW e \in InPlan(entries), NEW entry \in Entry, Update(e, entry),
         entry.after = entries[e].after,
         entries[e].state # "done",
         entry.state \in ActiveStates => entries[e].state = "running" /\ entry.reason = None,
         entry.state \notin ActiveStates => entry.progress = None,
         entry.state \notin {"done", "stopped", "interrupted"}
  PROVE  IInv'
<1>1. GoodEntry(entries, e) /\ GoodPlan(entries) /\ TypeOK
  BY DEF IInv, GoodPlan
<1>2. entry.state \in ActiveStates \cup {"done", "stopped", "interrupted"} => Satisfied(e)
  BY <1>1 DEF GoodEntry, Satisfied, ActiveStates
<1>3. GoodPlan([entries EXCEPT ![e] = entry])
  BY <1>1, <1>2, ReplaceKeepsGood
<1> QED BY <1>3, CommitKeepsInv DEF Update

\* A scan claims only entries whose prerequisite is done and fails only queued
\* ones, so it never takes `done` from an entry another has relied on.
LEMMA ScanKeepsGood ==
  ASSUME TypeOK, GoodPlan(entries), NEW skip, NEW blocked,
         NEW failed \in SUBSET Reached(skip, blocked)
  PROVE  GoodPlan(AfterScan(Claimed(skip, blocked), Reached(skip, blocked), failed, blocked))
<1> DEFINE claimed == Claimed(skip, blocked)
           reached == Reached(skip, blocked)
           ents == AfterScan(claimed, reached, failed, blocked)
<1>1. /\ \A e \in claimed : e \in InPlan(entries) /\ entries[e].state = "queued" /\ Satisfied(e)
      /\ \A e \in reached : e \in InPlan(entries) /\ entries[e].state = "queued"
  BY DEF Claimed, Reached, Candidates, Startable
<1>2. InPlan(ents) = InPlan(entries)
  <2>1. ASSUME NEW e \in Ids PROVE ents[e] = NoEntry <=> entries[e] = NoEntry
    <3>1. CASE e \in claimed \cup reached
      <4>1. entries[e] \in Entry
        BY <1>1, <3>1, EntryOfPlan
      <4>2. ents[e] \in Entry
        BY <3>1, <4>1 DEF AfterScan, Entry, States, Reasons
      <4> QED BY <4>1, <4>2, QueueAssumption
    <3>2. CASE e \notin claimed \cup reached
      BY <3>2 DEF AfterScan
    <3> QED BY <3>1, <3>2
  <2> QED BY <2>1 DEF InPlan
<1>3. ASSUME NEW e \in InPlan(entries)
      PROVE  /\ ents[e].after = entries[e].after
             /\ entries[e].state = "done" => ents[e].state = "done"
             /\ ents[e].progress = entries[e].progress
             /\ \/ e \in claimed /\ ents[e].state = "running" /\ ents[e].reason = None
                \/ ents[e].state = "failed" /\ entries[e].state = "queued"
                \/ ents[e].state = "queued" /\ entries[e].state = "queued"
                \/ ents[e] = entries[e]
  <2>1. entries[e] \in Entry /\ e \in Ids
    BY EntryOfPlan DEF InPlan
  <2>2. CASE e \in claimed
    BY <1>1, <2>1, <2>2 DEF AfterScan, Entry
  <2>3. CASE e \notin claimed /\ e \in failed
    BY <1>1, <2>1, <2>3 DEF AfterScan, Entry
  <2>4. CASE e \notin claimed /\ e \notin failed /\ e \in reached
    BY <1>1, <2>1, <2>4 DEF AfterScan, Entry
  <2>5. CASE e \notin claimed /\ e \notin failed /\ e \notin reached
    BY <2>1, <2>5 DEF AfterScan
  <2> QED BY <2>2, <2>3, <2>4, <2>5
<1> HIDE DEF ents, claimed, reached
<1>4. ASSUME NEW e \in InPlan(ents) PROVE GoodEntry(ents, e)
  <2>1. GoodEntry(entries, e)
    BY <1>2 DEF GoodPlan
  <2>2. entries[e].after \in InPlan(entries) =>
          (entries[entries[e].after].state = "done" => ents[entries[e].after].state = "done")
    BY <1>3
  <2>3. CASE e \in claimed /\ ents[e].state = "running" /\ ents[e].reason = None
    BY <1>1, <1>2, <1>3, <2>2, <2>3 DEF GoodEntry, Satisfied, ActiveStates
  <2>4. CASE ents[e].state \in {"failed", "queued"} /\ entries[e].state = "queued"
    BY <1>2, <1>3, <2>1, <2>2, <2>4 DEF GoodEntry, ActiveStates
  <2>5. CASE ents[e] = entries[e]
    BY <1>2, <1>3, <2>1, <2>2, <2>5 DEF GoodEntry
  <2> QED BY <1>2, <1>3, <2>3, <2>4, <2>5
<1> QED BY <1>4 DEF GoodPlan, ents, claimed, reached

\* A queue starts with nothing in it, in memory and on disk.
LEMMA InitInv == ASSUME Init PROVE IInv
<1>1. TypeOK
  BY InitTypeOK
<1>2. file = PlanOf(EmptyEntries, <<>>) /\ file.entries = EmptyEntries /\ file.order = <<>>
  BY PlanOfFields DEF Init, EmptyPlan
<1>3. GoodPlan(EmptyEntries)
  BY DEF GoodPlan, InPlan, EmptyEntries
<1> QED BY <1>1, <1>2, <1>3 DEF Init, IInv, MemoryIsOnDisk

\* Every call keeps the invariant, whoever makes it.
LEMMA StepKeepsInv ==
  ASSUME IInv, [Next]_vars
  PROVE  IInv'
<1>0. TypeOK /\ TypeOK'
  BY StepTypeOK DEF IInv
<1> USE <1>0 DEF Entries
<1>1. ASSUME NEW e \in Ids, NEW kind \in Kinds, NEW after \in Ids \cup {None},
             Enqueue(e, kind, after)
      PROVE  IInv'
  <2> DEFINE ents == [entries EXCEPT ![e] = NewEntry(kind, after)]
  <2>1. /\ phase = "serving" /\ entries[e] = NoEntry
        /\ Commit(ents, Append(order, e)) /\ phase' = phase
    BY <1>1 DEF Enqueue, Fresh
  <2>2. NewEntry(kind, after) \in Entry
    BY DEF NewEntry, Entry, States
  <2>3. /\ InPlan(ents) = InPlan(entries) \cup {e}
        /\ ents[e] = NewEntry(kind, after)
        /\ \A f \in Ids : f # e => ents[f] = entries[f]
    BY <2>1, <2>2, QueueAssumption DEF TypeOK, PlanOK, InPlan
  <2> HIDE DEF ents
  <2>4. ASSUME NEW f \in InPlan(ents) PROVE GoodEntry(ents, f)
    <3>1. CASE f = e
      BY <2>1, <2>3, <3>1 DEF GoodEntry, NewEntry, ActiveStates
    <3>2. CASE f # e
      <4>1. GoodEntry(entries, f) /\ ents[f] = entries[f]
        BY <2>3, <3>2 DEF IInv, GoodPlan, InPlan
      <4>2. e \notin InPlan(entries)
        BY <2>1 DEF InPlan
      <4>3. \A g \in InPlan(entries) : g \in InPlan(ents) /\ ents[g] = entries[g]
        BY <2>3, <4>2 DEF InPlan
      <4> QED BY <4>1, <4>3 DEF GoodEntry
    <3> QED BY <3>1, <3>2
  <2> QED BY <2>1, <2>4, CommitKeepsInv DEF GoodPlan, ents
<1>2. ASSUME NEW e \in Ids,
             Pause(e) \/ Resume(e) \/ Retry(e) \/ Defer(e) \/ MarkStopping(e)
               \/ (\E thread \in Jobs : MarkRunning(e, None, thread)) \/ MarkRunning(e, Reading, None)
      PROVE  IInv'
  <2>1. CASE Pause(e)
    <3> DEFINE entry == [entries[e] EXCEPT !.state = "paused"]
    <3>1. e \in InPlan(entries) /\ phase = "serving" /\ Update(e, entry)
      BY <2>1 DEF Pause
    <3>2. entries[e] \in Entry /\ GoodEntry(entries, e)
      BY <3>1, EntryOfPlan DEF IInv, GoodPlan
    <3>3. /\ entry \in Entry /\ entry.after = entries[e].after
          /\ entries[e].state # "done"
          /\ entry.state \in ActiveStates => entries[e].state = "running" /\ entry.reason = None
          /\ entry.state \notin ActiveStates => entry.progress = None
          /\ entry.state \notin {"done", "stopped", "interrupted"}
      BY <2>1, <3>2 DEF Pause, GoodEntry, Entry, States, Reasons, ActiveStates
    <3> HIDE DEF entry
    <3> QED BY <3>1, <3>3, UpdateKeepsInv
  <2>2. CASE Resume(e)
    <3> DEFINE entry == [entries[e] EXCEPT !.state = "queued"]
    <3>1. e \in InPlan(entries) /\ phase = "serving" /\ Update(e, entry)
      BY <2>2 DEF Resume
    <3>2. entries[e] \in Entry /\ GoodEntry(entries, e)
      BY <3>1, EntryOfPlan DEF IInv, GoodPlan
    <3>3. /\ entry \in Entry /\ entry.after = entries[e].after
          /\ entries[e].state # "done"
          /\ entry.state \in ActiveStates => entries[e].state = "running" /\ entry.reason = None
          /\ entry.state \notin ActiveStates => entry.progress = None
          /\ entry.state \notin {"done", "stopped", "interrupted"}
      BY <2>2, <3>2 DEF Resume, GoodEntry, Entry, States, Reasons, ActiveStates
    <3> HIDE DEF entry
    <3> QED BY <3>1, <3>3, UpdateKeepsInv
  <2>3. CASE Retry(e)
    <3> DEFINE entry == [entries[e] EXCEPT !.state = "queued", !.reason = None,
                                                   !.progress = None]
    <3>1. e \in InPlan(entries) /\ phase = "serving" /\ Update(e, entry)
      BY <2>3 DEF Retry
    <3>2. entries[e] \in Entry /\ GoodEntry(entries, e)
      BY <3>1, EntryOfPlan DEF IInv, GoodPlan
    <3>3. /\ entry \in Entry /\ entry.after = entries[e].after
          /\ entries[e].state # "done"
          /\ entry.state \in ActiveStates => entries[e].state = "running" /\ entry.reason = None
          /\ entry.state \notin ActiveStates => entry.progress = None
          /\ entry.state \notin {"done", "stopped", "interrupted"}
      BY <2>3, <3>2 DEF Retry, GoodEntry, Entry, States, Reasons, ActiveStates, RetryableStates
    <3> HIDE DEF entry
    <3> QED BY <3>1, <3>3, UpdateKeepsInv
  <2>4. CASE Defer(e)
    <3> DEFINE entry == [entries[e] EXCEPT !.state = "queued", !.reason = "waiting",
                                                   !.job = None, !.progress = None]
    <3>1. e \in InPlan(entries) /\ phase = "serving" /\ Update(e, entry)
      BY <2>4 DEF Defer
    <3>2. entries[e] \in Entry /\ GoodEntry(entries, e)
      BY <3>1, EntryOfPlan DEF IInv, GoodPlan
    <3>3. /\ entry \in Entry /\ entry.after = entries[e].after
          /\ entries[e].state # "done"
          /\ entry.state \in ActiveStates => entries[e].state = "running" /\ entry.reason = None
          /\ entry.state \notin ActiveStates => entry.progress = None
          /\ entry.state \notin {"done", "stopped", "interrupted"}
      BY <2>4, <3>2 DEF Defer, GoodEntry, Entry, States, Reasons, ActiveStates
    <3> HIDE DEF entry
    <3> QED BY <3>1, <3>3, UpdateKeepsInv
  <2>5. CASE MarkStopping(e)
    <3> DEFINE entry == [entries[e] EXCEPT !.state = "stopping"]
    <3>1. e \in InPlan(entries) /\ phase = "serving" /\ Update(e, entry)
      BY <2>5 DEF MarkStopping
    <3>2. entries[e] \in Entry /\ GoodEntry(entries, e)
      BY <3>1, EntryOfPlan DEF IInv, GoodPlan
    <3>3. /\ entry \in Entry /\ entry.after = entries[e].after
          /\ entries[e].state # "done"
          /\ entry.state \in ActiveStates => entries[e].state = "running" /\ entry.reason = None
          /\ entry.state \notin ActiveStates => entry.progress = None
          /\ entry.state \notin {"done", "stopped", "interrupted"}
      BY <2>5, <3>2 DEF MarkStopping, GoodEntry, Entry, States, Reasons, ActiveStates
    <3> HIDE DEF entry
    <3> QED BY <3>1, <3>3, UpdateKeepsInv
  <2>6. ASSUME NEW thread \in Jobs, MarkRunning(e, None, thread) PROVE IInv'
    <3> DEFINE entry == [entries[e] EXCEPT !.progress = IF None = None THEN @ ELSE None,
                                                   !.job = IF thread = None THEN @ ELSE thread]
    <3>1. e \in InPlan(entries) /\ phase = "serving" /\ Update(e, entry)
      BY <2>6 DEF MarkRunning
    <3>2. entries[e] \in Entry /\ GoodEntry(entries, e)
      BY <3>1, EntryOfPlan DEF IInv, GoodPlan
    <3>3. /\ entry \in Entry /\ entry.after = entries[e].after
          /\ entries[e].state # "done"
          /\ entry.state \in ActiveStates => entries[e].state = "running" /\ entry.reason = None
          /\ entry.state \notin ActiveStates => entry.progress = None
          /\ entry.state \notin {"done", "stopped", "interrupted"}
      BY <2>6, <3>2 DEF MarkRunning, GoodEntry, Entry, States, Reasons, ActiveStates
    <3> HIDE DEF entry
    <3> QED BY <3>1, <3>3, UpdateKeepsInv
  <2>7. CASE MarkRunning(e, Reading, None)
    <3> DEFINE entry == [entries[e] EXCEPT !.progress = IF Reading = None THEN @ ELSE Reading,
                                                   !.job = IF None = None THEN @ ELSE None]
    <3>1. e \in InPlan(entries) /\ phase = "serving" /\ Update(e, entry)
      BY <2>7 DEF MarkRunning
    <3>2. entries[e] \in Entry /\ GoodEntry(entries, e)
      BY <3>1, EntryOfPlan DEF IInv, GoodPlan
    <3>3. /\ entry \in Entry /\ entry.after = entries[e].after
          /\ entries[e].state # "done"
          /\ entry.state \in ActiveStates => entries[e].state = "running" /\ entry.reason = None
          /\ entry.state \notin ActiveStates => entry.progress = None
          /\ entry.state \notin {"done", "stopped", "interrupted"}
      BY <2>7, <3>2 DEF MarkRunning, GoodEntry, Entry, States, Reasons, ActiveStates
    <3> HIDE DEF entry
    <3> QED BY <3>1, <3>3, UpdateKeepsInv
  <2> QED BY <1>2, <2>1, <2>2, <2>3, <2>4, <2>5, <2>6, <2>7
<1>3. ASSUME NEW e \in Ids, Remove(e)
      PROVE  IInv'
  <2> DEFINE ents == [entries EXCEPT ![e] = NoEntry]
  <2>1. PICK ord : Commit(ents, ord) /\ phase' = phase
    BY <1>3 DEF Remove
  <2>2. /\ InPlan(ents) = InPlan(entries) \ {e}
        /\ \A f \in InPlan(ents) : ents[f] = entries[f]
    BY DEF TypeOK, PlanOK, InPlan
  <2>3. /\ \A f \in InPlan(entries) : entries[f].after # e
        /\ phase = "serving"
    BY <1>3 DEF Remove, Removable
  <2> HIDE DEF ents
  <2>4. ASSUME NEW f \in InPlan(ents) PROVE GoodEntry(ents, f)
    <3>1. GoodEntry(entries, f) /\ ents[f] = entries[f]
      BY <2>2 DEF IInv, GoodPlan
    <3> QED BY <2>2, <2>3, <3>1 DEF GoodEntry
  <2> QED BY <2>1, <2>3, <2>4, CommitKeepsInv DEF GoodPlan, ents
<1>4. ASSUME NEW e \in Ids, NEW index \in DOMAIN order, Move(e, index)
      PROVE  IInv'
  <2>1. PICK ord : Commit(entries, ord)
    BY <1>4 DEF Move
  <2> QED BY <1>4, <2>1, CommitKeepsInv DEF Move, IInv
<1>5. ASSUME NEW skip \in SUBSET Ids, NEW blocked \in SUBSET Ids, ClaimNext(skip, blocked)
      PROVE  IInv'
  <2>1. PICK failed \in SUBSET Reached(skip, blocked) :
           CommitTrimmed(AfterScan(Claimed(skip, blocked), Reached(skip, blocked),
                                   failed, blocked))
    BY <1>5 DEF ClaimNext
  <2>2. phase = "serving" /\ GoodPlan(entries)
    BY <1>5 DEF ClaimNext, IInv
  <2> QED BY <2>1, <2>2, AfterScanType, ScanKeepsGood, CommitTrimmedKeepsInv
<1>6. ASSUME NEW e \in Ids, NEW state \in TerminalStates, MarkFinished(e, state, "ended")
      PROVE  IInv'
  <2> DEFINE entry == [entries[e] EXCEPT !.state = state, !.reason = "ended", !.progress = None]
             ents == [entries EXCEPT ![e] = entry]
  <2>1. e \in InPlan(entries) /\ phase = "serving" /\ entries[e].state \in ActiveStates
    BY <1>6 DEF MarkFinished
  <2>2. CommitTrimmed(ents)
    BY <1>6 DEF MarkFinished, TypeOK, PlanOK
  <2>3. entries[e] \in Entry /\ GoodEntry(entries, e)
    BY <2>1, EntryOfPlan DEF IInv, GoodPlan
  <2>4. /\ entry \in Entry /\ entry.after = entries[e].after
        /\ entry.state = state /\ entry.progress = None
    BY <2>3 DEF Entry, States, TerminalStates, Reasons
  <2>5. Satisfied(e)
    BY <2>1, <2>3 DEF GoodEntry, Satisfied
  <2>6. state \notin ActiveStates /\ entries[e].state # "done"
    BY <2>1 DEF TerminalStates, ActiveStates
  <2> HIDE DEF entry
  <2>7. GoodPlan(ents)
    BY <2>1, <2>4, <2>5, <2>6, ReplaceKeepsGood DEF IInv
  <2>8. ents \in Entries
    BY <2>4 DEF TypeOK, PlanOK
  <2> QED BY <2>1, <2>2, <2>7, <2>8, CommitTrimmedKeepsInv
<1>7. ASSUME NEW skip \in SUBSET Ids, Recover(skip)
      PROVE  IInv'
  <2> DEFINE orphans == {e \in InPlan(entries) \ skip : entries[e].state \in ActiveStates}
             ents == [e \in Ids |-> IF e \in orphans THEN Orphaned(entries[e]) ELSE entries[e]]
             kept == InPlan(TrimFinished(ents))
  <2>1. /\ ents \in Entries
        /\ InPlan(ents) = InPlan(entries)
        /\ \A e \in orphans : /\ ents[e].after = entries[e].after
                              /\ ents[e].state = "interrupted"
                              /\ ents[e].progress = None
        /\ \A e \in Ids \ orphans : ents[e] = entries[e]
    <3>1. \A e \in orphans : entries[e] \in Entry
      BY EntryOfPlan
    <3>2. \A e \in orphans : Orphaned(entries[e]) \in Entry
      BY <3>1 DEF Orphaned, Entry, States, Reasons
    <3>3. \A e \in orphans : ents[e] = Orphaned(entries[e]) /\ e \in Ids
      BY DEF InPlan
    <3>4. \A e \in Ids \ orphans : ents[e] = entries[e]
      OBVIOUS
    <3>5. orphans \subseteq InPlan(entries)
      OBVIOUS
    <3> HIDE DEF orphans
    <3>6. ents \in Entries
      BY <3>2 DEF TypeOK, PlanOK
    <3> HIDE DEF ents
    <3>7. \A e \in orphans : /\ ents[e].after = entries[e].after
                             /\ ents[e].state = "interrupted"
                             /\ ents[e].progress = None
      BY <3>1, <3>3 DEF Orphaned, Entry
    <3>8. InPlan(ents) = InPlan(entries)
      BY <3>2, <3>3, <3>4, <3>5, QueueAssumption DEF InPlan
    <3> QED BY <3>4, <3>6, <3>7, <3>8
  <2>2. GoodPlan(ents)
    <3> HIDE DEF ents
    <3>1. ASSUME NEW e \in InPlan(entries), entries[e].state = "done"
          PROVE  ents[e] = entries[e]
      BY <2>1, <3>1 DEF ActiveStates, InPlan
    <3>2. ASSUME NEW e \in InPlan(ents) PROVE GoodEntry(ents, e)
      <4>1. GoodEntry(entries, e)
        BY <2>1 DEF IInv, GoodPlan
      <4>2. CASE e \in orphans
        BY <2>1, <3>1, <4>1, <4>2 DEF GoodEntry, ActiveStates
      <4>3. CASE e \notin orphans
        <5>1. ents[e] = entries[e]
          BY <2>1, <4>3 DEF InPlan
        <5> QED BY <2>1, <3>1, <4>1, <5>1 DEF GoodEntry
      <4> QED BY <4>2, <4>3
    <3> QED BY <3>2 DEF GoodPlan
  <2>3. GoodPlan(TrimFinished(ents))
    BY <2>1, <2>2, TrimKeepsGood
  <2>4. phase # "down" /\ phase' # "down"
    BY <1>7 DEF Recover
  <2> HIDE DEF ents, kept
  <2>5. CASE UNCHANGED <<entries, order, file, storageError>>
    BY <2>4, <2>5 DEF IInv, MemoryIsOnDisk, GoodPlan, GoodEntry, InPlan
  <2>6. CASE \E ord \in Arrangements(kept) : Save(TrimFinished(ents), ord)
    BY <2>3, <2>4, <2>6, CommitKeepsInv DEF Commit
  <2>7. CASE RollBack(TrimFinished(ents), order)
    BY <2>3, <2>4, <2>7, CommitKeepsInv DEF Commit
  <2> QED BY <1>7, <2>5, <2>6, <2>7 DEF Recover, ents, kept
<1>8. CASE (\E new \in LimitChoices : SetLimits(new)) \/ UNCHANGED vars
  BY <1>8 DEF SetLimits, vars, IInv, MemoryIsOnDisk, GoodPlan, GoodEntry, InPlan
<1>9. CASE ResumeStorage
  <2>1. phase = "serving" /\ UNCHANGED <<entries, order, phase>> /\ file' \in {file, PlanOf(entries, order)}
    BY <1>9 DEF ResumeStorage
  <2>2. PlanOf(entries, order).entries = entries /\ PlanOf(entries, order).order = order
    BY PlanOfFields
  <2>3. GoodPlan(entries)'
    BY <2>1 DEF IInv, GoodPlan, GoodEntry, InPlan
  <2>4. CASE file' = file
    BY <2>1, <2>3, <2>4 DEF IInv, MemoryIsOnDisk, GoodPlan, GoodEntry, InPlan
  <2>5. CASE file' = PlanOf(entries, order)
    BY <2>1, <2>2, <2>3, <2>5 DEF IInv, MemoryIsOnDisk, GoodPlan, GoodEntry, InPlan
  <2> QED BY <2>1, <2>4, <2>5
<1>10. CASE Crash
  <2>1. GoodPlan(EmptyEntries)
    BY DEF GoodPlan, InPlan, EmptyEntries
  <2> QED BY <1>10, <2>1 DEF Crash, IInv, MemoryIsOnDisk, GoodPlan, GoodEntry, InPlan
<1>11. CASE LoadPlan
  BY <1>11 DEF LoadPlan, IInv, MemoryIsOnDisk, GoodPlan, GoodEntry, InPlan
<1>12. CASE LoadCorrupt
  <2>1. GoodPlan(EmptyEntries)
    BY DEF GoodPlan, InPlan, EmptyEntries
  <2>2. EmptyPlan.entries = EmptyEntries /\ EmptyPlan.order = <<>>
    BY PlanOfFields DEF EmptyPlan
  <2>3. entries = EmptyEntries /\ order = <<>> /\ UNCHANGED <<entries, order>>
    BY <1>12 DEF LoadCorrupt, IInv
  <2>4. file' # Corrupt => file' = EmptyPlan
    BY <1>12 DEF LoadCorrupt
  <2>5. MemoryIsOnDisk' /\ GoodPlan(entries)'
    BY <2>1, <2>3, <2>4 DEF MemoryIsOnDisk, EmptyPlan, GoodPlan, GoodEntry, InPlan
  <2>6. file' # Corrupt => file' = PlanOf(file'.entries, file'.order) /\ GoodPlan(file'.entries)
    BY <2>1, <2>2, <2>4 DEF EmptyPlan
  <2> QED BY <1>12, <2>5, <2>6 DEF LoadCorrupt, IInv, GoodPlan, GoodEntry, InPlan
<1>13. CASE Damage
  BY <1>13 DEF Damage, IInv, MemoryIsOnDisk, GoodPlan, GoodEntry, InPlan
<1> QED
  BY <1>1, <1>2, <1>3, <1>4, <1>5, <1>6, <1>7, <1>8, <1>9, <1>10, <1>11, <1>12, <1>13
     DEF Next, PlanCall, WorkCall

\* The inductive invariant, whatever the callers name as prerequisites.
THEOREM InvariantHolds == Spec => []IInv
<1>1. Init => IInv
  BY InitInv
<1>2. IInv /\ [Next]_vars => IInv'
  BY StepKeepsInv
<1> QED BY <1>1, <1>2, PTL DEF Spec

----------------------------------------------------------------------------
(* What follows from the invariant *)

\* What the queue answers from memory is what a restart would find.
THEOREM MemoryIsAlwaysOnDisk == Spec => []MemoryIsOnDisk
BY InvariantHolds, PTL DEF IInv

\* Work that has started had a prerequisite that was done, and still is.
THEOREM OnlySatisfiedWorkEverStarts == Spec => []OnlySatisfiedWorkStarts
<1>1. IInv => OnlySatisfiedWorkStarts
  BY DEF IInv, GoodPlan, GoodEntry, OnlySatisfiedWorkStarts, Satisfied
<1> QED BY <1>1, InvariantHolds, PTL

\* A row never shows a reading or a reason left over from another run.
THEOREM RowsAlwaysDescribeTheirOwnRun == Spec => []RowsDescribeTheirOwnRun
<1>1. IInv => RowsDescribeTheirOwnRun
  BY DEF IInv, GoodPlan, GoodEntry, RowsDescribeTheirOwnRun
<1> QED BY <1>1, InvariantHolds, PTL

\* What a save writes and what a roll back restores, seen from one entry.
LEMMA CommitEntries ==
  ASSUME NEW ents, NEW ord, Commit(ents, ord)
  PROVE  entries' = ents \/ entries' = entries
BY DEF Commit, Save, RollBack

\* The same of a save that trims.
LEMMA TrimmedEntries ==
  ASSUME NEW ents \in Entries, CommitTrimmed(ents)
  PROVE  \/ entries' = entries
         \/ /\ InPlan(entries') \subseteq InPlan(ents)
            /\ \A e \in InPlan(entries') : entries'[e] = ents[e]
BY CommitEntries, TrimProperties DEF CommitTrimmed

DoneStays == \A e \in InPlan(entries) \cap InPlan(entries') :
               entries[e].state = "done" => entries'[e].state = "done"

\* No call takes a success back.
LEMMA StepKeepsDone ==
  ASSUME IInv, [Next]_vars
  PROVE  DoneStays
<1> SUFFICES ASSUME NEW d \in InPlan(entries), d \in InPlan(entries'),
                    entries[d].state = "done", entries' # entries
             PROVE  entries'[d].state = "done"
  BY DEF DoneStays, InPlan
<1>0. TypeOK /\ d \in Ids
  BY DEF IInv, InPlan
<1> USE <1>0
<1>1. ASSUME NEW e \in Ids, NEW kind \in Kinds, NEW after \in Ids \cup {None},
             Enqueue(e, kind, after)
      PROVE  entries'[d].state = "done"
  <2>1. entries[e] = NoEntry /\ entries' = [entries EXCEPT ![e] = NewEntry(kind, after)]
    BY <1>1, CommitEntries DEF Enqueue, Fresh
  <2> QED BY <2>1 DEF InPlan, TypeOK, PlanOK
<1>2. ASSUME NEW e \in Ids, NEW entry, Update(e, entry), entries[e].state # "done"
      PROVE  entries'[d].state = "done"
  <2>1. entries' = [entries EXCEPT ![e] = entry]
    BY <1>2, CommitEntries DEF Update
  <2> QED BY <1>2, <2>1 DEF TypeOK, PlanOK
<1>3. ASSUME NEW e \in Ids,
             Pause(e) \/ Resume(e) \/ Retry(e) \/ Defer(e) \/ MarkStopping(e)
               \/ (\E thread \in Jobs : MarkRunning(e, None, thread)) \/ MarkRunning(e, Reading, None)
      PROVE  entries'[d].state = "done"
  BY <1>2, <1>3 DEF Pause, Resume, Retry, Defer, MarkStopping, MarkRunning, RetryableStates
<1>4. ASSUME NEW e \in Ids, Remove(e)
      PROVE  entries'[d].state = "done"
  <2>1. entries' = [entries EXCEPT ![e] = NoEntry]
    BY <1>4, CommitEntries DEF Remove
  <2> QED BY <2>1 DEF InPlan, TypeOK, PlanOK
<1>5. ASSUME NEW e \in Ids, NEW index \in DOMAIN order, Move(e, index)
      PROVE  entries'[d].state = "done"
  BY <1>5, CommitEntries DEF Move
<1>6. ASSUME NEW skip \in SUBSET Ids, NEW blocked \in SUBSET Ids, ClaimNext(skip, blocked)
      PROVE  entries'[d].state = "done"
  <2>1. PICK failed \in SUBSET Reached(skip, blocked) :
           CommitTrimmed(AfterScan(Claimed(skip, blocked), Reached(skip, blocked),
                                   failed, blocked))
    BY <1>6 DEF ClaimNext
  <2>2. entries'[d] = AfterScan(Claimed(skip, blocked), Reached(skip, blocked),
                                failed, blocked)[d]
    BY <2>1, AfterScanType, TrimmedEntries
  <2>3. d \notin Claimed(skip, blocked) \cup Reached(skip, blocked)
    BY DEF Claimed, Reached, Candidates
  <2> QED BY <2>2, <2>3 DEF AfterScan
<1>7. ASSUME NEW e \in Ids, NEW state \in TerminalStates, MarkFinished(e, state, "ended")
      PROVE  entries'[d].state = "done"
  <2> DEFINE ents == [entries EXCEPT ![e] = [@ EXCEPT
                        !.state = state, !.reason = "ended", !.progress = None]]
  <2>1. e \in InPlan(entries) /\ CommitTrimmed(ents) /\ entries[e].state # "done"
    BY <1>7 DEF MarkFinished, ActiveStates
  <2>2. entries[e] \in Entry
    BY <2>1, EntryOfPlan
  <2>3. ents \in Entries
    BY <2>2 DEF Entries, Entry, States, TerminalStates, Reasons, TypeOK, PlanOK
  <2>4. entries'[d] = ents[d]
    BY <2>1, <2>3, TrimmedEntries
  <2> QED BY <2>1, <2>4 DEF TypeOK, PlanOK
<1>8. ASSUME NEW skip \in SUBSET Ids, Recover(skip)
      PROVE  entries'[d].state = "done"
  <2> DEFINE orphans == {e \in InPlan(entries) \ skip : entries[e].state \in ActiveStates}
             ents == [e \in Ids |-> IF e \in orphans THEN Orphaned(entries[e]) ELSE entries[e]]
  <2>1. entries' = TrimFinished(ents)
    BY <1>8 DEF Recover, Save, RollBack
  <2>2. \A e \in orphans : Orphaned(entries[e]) \in Entry
    BY EntryOfPlan DEF Orphaned, Entry, States, Reasons
  <2>3. ents \in Entries
    BY <2>2 DEF Entries, TypeOK, PlanOK
  <2>4. entries'[d] = ents[d]
    BY <2>1, <2>3, TrimProperties
  <2> QED BY <2>4 DEF ActiveStates
<1>9. CASE (\E new \in LimitChoices : SetLimits(new)) \/ ResumeStorage \/ Damage
             \/ LoadCorrupt \/ UNCHANGED vars
  BY <1>9 DEF SetLimits, ResumeStorage, Damage, LoadCorrupt, vars
<1>10. CASE Crash
  BY <1>10 DEF Crash, InPlan, EmptyEntries
<1>11. CASE LoadPlan
  BY <1>11 DEF LoadPlan, IInv, InPlan, EmptyEntries
<1> QED
  BY <1>1, <1>3, <1>4, <1>5, <1>6, <1>7, <1>8, <1>9, <1>10, <1>11 DEF Next, PlanCall, WorkCall

\* A success is never run again.
THEOREM DoneStaysFinal == Spec => DoneIsFinal
<1>1. IInv /\ [Next]_vars => DoneStays
  BY StepKeepsDone
<1>2. Spec => [][DoneStays]_vars
  BY <1>1, InvariantHolds, PTL DEF Spec
<1> QED BY <1>2 DEF DoneIsFinal, DoneStays

----------------------------------------------------------------------------
(* What is waited on stays *)

PrerequisitesStay ==
  \A e \in InPlan(entries) \cap InPlan(entries') :
    entries[e].after \in InPlan(entries) => entries[e].after \in InPlan(entries')

\* A plan with the same rows waiting on the same rows, then trimmed or rolled
\* back, has lost nothing that is waited on.
LEMMA TrimmedKeepsPrerequisites ==
  ASSUME NEW ents \in Entries, InPlan(ents) = InPlan(entries),
         \A e \in InPlan(entries) : ents[e].after = entries[e].after,
         entries' = TrimFinished(ents) \/ entries' = entries
  PROVE  PrerequisitesStay
BY TrimProperties DEF PrerequisitesStay

\* A scan moves states and reasons, neither rows nor what they wait on.
LEMMA ScanKeepsAfter ==
  ASSUME TypeOK, NEW skip, NEW blocked, NEW failed \in SUBSET Reached(skip, blocked),
         NEW ents, ents = AfterScan(Claimed(skip, blocked), Reached(skip, blocked), failed, blocked)
  PROVE  /\ InPlan(ents) = InPlan(entries)
         /\ \A e \in InPlan(entries) : ents[e].after = entries[e].after
<1>1. \A e \in Claimed(skip, blocked) \cup Reached(skip, blocked) : e \in InPlan(entries)
  BY DEF Claimed, Reached, Candidates
<1>2. ASSUME NEW e \in Ids
      PROVE  /\ ents[e] = NoEntry <=> entries[e] = NoEntry
             /\ e \in InPlan(entries) => ents[e].after = entries[e].after
  <2>1. CASE e \in Claimed(skip, blocked) \cup Reached(skip, blocked)
    <3>1. entries[e] \in Entry /\ e \in InPlan(entries)
      BY <1>1, <2>1, EntryOfPlan
    <3>2. ents[e] \in Entry /\ ents[e].after = entries[e].after
      BY <2>1, <3>1 DEF AfterScan, Entry, States, Reasons
    <3> QED BY <3>1, <3>2, QueueAssumption
  <2>2. CASE e \notin Claimed(skip, blocked) \cup Reached(skip, blocked)
    BY <2>2 DEF AfterScan
  <2> QED BY <2>1, <2>2
<1> QED BY <1>2 DEF InPlan

\* No call takes out of the plan what an entry that stays is waiting on.
LEMMA StepKeepsPrerequisites ==
  ASSUME IInv, [Next]_vars
  PROVE  PrerequisitesStay
<1> USE DEF Entries
<1>0. TypeOK
  BY DEF IInv
<1>1. ASSUME NEW e \in Ids, NEW kind \in Kinds, NEW after \in Ids \cup {None},
             Enqueue(e, kind, after)
      PROVE  PrerequisitesStay
  <2>1. \/ entries' = entries
        \/ entries' = [entries EXCEPT ![e] = NewEntry(kind, after)]
    BY <1>1, CommitEntries DEF Enqueue, Fresh
  <2>2. NewEntry(kind, after) \in Entry
    BY DEF NewEntry, Entry, States
  <2> QED BY <1>0, <2>1, <2>2, QueueAssumption DEF PrerequisitesStay, InPlan, TypeOK, PlanOK
<1>2. ASSUME NEW e \in Ids,
             Pause(e) \/ Resume(e) \/ Retry(e) \/ Defer(e) \/ MarkStopping(e)
               \/ (\E thread \in Jobs : MarkRunning(e, None, thread)) \/ MarkRunning(e, Reading, None)
      PROVE  PrerequisitesStay
  <2>1. e \in InPlan(entries)
    BY <1>2 DEF Pause, Resume, Retry, Defer, MarkStopping, MarkRunning
  <2>2. entries[e] \in Entry
    BY <1>0, <2>1, EntryOfPlan
  <2>3. PICK entry \in Entry : Update(e, entry)
    BY <1>2, <2>2 DEF Pause, Resume, Retry, Defer, MarkStopping, MarkRunning, Entry, States, Reasons
  <2>4. entries' = entries \/ entries' = [entries EXCEPT ![e] = entry]
    BY <2>3, CommitEntries DEF Update
  <2> QED BY <1>0, <2>1, <2>3, <2>4, QueueAssumption DEF PrerequisitesStay, InPlan, TypeOK, PlanOK
<1>3. ASSUME NEW e \in Ids, Remove(e)
      PROVE  PrerequisitesStay
  <2>1. \A f \in InPlan(entries) : entries[f].after # e
    BY <1>3 DEF Remove, Removable
  <2>2. entries' = entries \/ entries' = [entries EXCEPT ![e] = NoEntry]
    BY <1>3, CommitEntries DEF Remove
  <2> QED BY <1>0, <2>1, <2>2 DEF PrerequisitesStay, InPlan, TypeOK, PlanOK
<1>4. ASSUME NEW e \in Ids, NEW index \in DOMAIN order, Move(e, index)
      PROVE  PrerequisitesStay
  BY <1>4, CommitEntries DEF Move, PrerequisitesStay
<1>5. ASSUME NEW skip \in SUBSET Ids, NEW blocked \in SUBSET Ids, ClaimNext(skip, blocked)
      PROVE  PrerequisitesStay
  <2>1. PICK failed \in SUBSET Reached(skip, blocked) :
           CommitTrimmed(AfterScan(Claimed(skip, blocked), Reached(skip, blocked),
                                   failed, blocked))
    BY <1>5 DEF ClaimNext
  <2> DEFINE ents == AfterScan(Claimed(skip, blocked), Reached(skip, blocked), failed, blocked)
  <2>2. ents \in Entries
    BY <1>0, AfterScanType
  <2>3. /\ InPlan(ents) = InPlan(entries)
        /\ \A e \in InPlan(entries) : ents[e].after = entries[e].after
    BY <1>0, ScanKeepsAfter
  <2>4. entries' = TrimFinished(ents) \/ entries' = entries
    BY <2>1, CommitEntries DEF CommitTrimmed
  <2> HIDE DEF ents
  <2> QED BY <2>2, <2>3, <2>4, TrimmedKeepsPrerequisites
<1>6. ASSUME NEW e \in Ids, NEW state \in TerminalStates, MarkFinished(e, state, "ended")
      PROVE  PrerequisitesStay
  <2> DEFINE ents == [entries EXCEPT ![e] = [@ EXCEPT
                        !.state = state, !.reason = "ended", !.progress = None]]
  <2>1. e \in InPlan(entries) /\ CommitTrimmed(ents)
    BY <1>6 DEF MarkFinished
  <2>2. entries[e] \in Entry
    BY <1>0, <2>1, EntryOfPlan
  <2>3. ents[e] \in Entry /\ ents[e].after = entries[e].after
    BY <1>0, <2>1, <2>2 DEF Entry, States, TerminalStates, Reasons, TypeOK, PlanOK, InPlan
  <2>4. ents \in Entries /\ \A f \in Ids : f # e => ents[f] = entries[f]
    BY <1>0, <2>3 DEF TypeOK, PlanOK
  <2>5. entries' = TrimFinished(ents) \/ entries' = entries
    BY <2>1, CommitEntries DEF CommitTrimmed
  <2> HIDE DEF ents
  <2>6. /\ InPlan(ents) = InPlan(entries)
        /\ \A f \in InPlan(entries) : ents[f].after = entries[f].after
    BY <2>1, <2>3, <2>4, QueueAssumption DEF InPlan
  <2> QED BY <2>4, <2>5, <2>6, TrimmedKeepsPrerequisites
<1>7. ASSUME NEW skip \in SUBSET Ids, Recover(skip)
      PROVE  PrerequisitesStay
  <2> DEFINE orphans == {e \in InPlan(entries) \ skip : entries[e].state \in ActiveStates}
             ents == [e \in Ids |-> IF e \in orphans THEN Orphaned(entries[e]) ELSE entries[e]]
  <2>1. entries' = TrimFinished(ents) \/ entries' = entries
    BY <1>7 DEF Recover, Save, RollBack
  <2>2. \A e \in orphans : /\ e \in InPlan(entries)
                           /\ Orphaned(entries[e]) \in Entry
                           /\ Orphaned(entries[e]).after = entries[e].after
    BY <1>0, EntryOfPlan DEF Orphaned, Entry, States, Reasons
  <2>3. ents \in Entries
    BY <1>0, <2>2 DEF TypeOK, PlanOK
  <2>4. /\ InPlan(ents) = InPlan(entries)
        /\ \A e \in InPlan(entries) : ents[e].after = entries[e].after
    BY <2>2, QueueAssumption DEF InPlan
  <2> HIDE DEF ents
  <2> QED BY <2>1, <2>3, <2>4, TrimmedKeepsPrerequisites
<1>8. CASE (\E new \in LimitChoices : SetLimits(new)) \/ ResumeStorage \/ Damage
             \/ LoadCorrupt \/ UNCHANGED vars
  BY <1>8 DEF SetLimits, ResumeStorage, Damage, LoadCorrupt, vars, PrerequisitesStay
<1>9. CASE Crash
  BY <1>9 DEF Crash, PrerequisitesStay, InPlan, EmptyEntries
<1>10. CASE LoadPlan
  BY <1>10 DEF LoadPlan, IInv, PrerequisitesStay, InPlan, EmptyEntries
<1> QED
  BY <1>1, <1>2, <1>3, <1>4, <1>5, <1>6, <1>7, <1>8, <1>9, <1>10 DEF Next, PlanCall, WorkCall

\* Whatever a route names, fails to save, ages out or removes: what an entry
\* of the plan waits on and the plan holds, the plan keeps.
THEOREM PrerequisitesAreAlwaysKept == Spec => PrerequisitesAreKept
<1>1. IInv /\ [Next]_vars => PrerequisitesStay
  BY StepKeepsPrerequisites
<1>2. Spec => [][PrerequisitesStay]_vars
  BY <1>1, InvariantHolds, PTL DEF Spec
<1> QED BY <1>2 DEF PrerequisitesAreKept, PrerequisitesStay

----------------------------------------------------------------------------
(* Pool accounting *)

\* The list orders the plan totally, so a scan claims at most one entry.
LEMMA ClaimsOne ==
  ASSUME TypeOK, NEW skip, NEW blocked,
         NEW c \in Claimed(skip, blocked), NEW d \in Claimed(skip, blocked)
  PROVE  c = d
<1>1. c \in InPlan(entries) /\ d \in InPlan(entries)
  BY DEF Claimed, Candidates
<1>2. \A e \in InPlan(entries) : \E i \in DOMAIN order : order[i] = e
  BY DEF TypeOK, PlanOK, Arrangements, Bijection, Surjection
<1>3. DOMAIN order \subseteq Nat
  <2>1. IsFiniteSet(InPlan(entries))
    BY InPlanFinite
  <2> QED BY <2>1, FS_CardinalityType
          DEF TypeOK, PlanOK, Arrangements, Bijection, Surjection
<1>4. PICK i \in DOMAIN order, j \in DOMAIN order : order[i] = c /\ order[j] = d
  BY <1>1, <1>2
<1>5. ~(i < j) /\ ~(j < i)
  BY <1>4 DEF Claimed, Ahead
<1> QED BY <1>3, <1>4, <1>5

PoolsBounded == \A pool \in Pools :
                  /\ phase = "serving" /\ limits[pool] # Unlimited
                  /\ Cardinality(Using(pool)') > Cardinality(Using(pool))
                  => Cardinality(Using(pool)') <= limits[pool]

\* Only claim_next makes a pool busier, by one, and only while there is room.
LEMMA StepBoundsPools ==
  ASSUME IInv, [Next]_vars
  PROVE  PoolsBounded
<1> SUFFICES ASSUME NEW pool \in Pools,
                    phase = "serving", limits[pool] # Unlimited,
                    Cardinality(Using(pool)') > Cardinality(Using(pool))
             PROVE  Cardinality(Using(pool)') <= limits[pool]
  BY DEF PoolsBounded
<1>0. TypeOK
  BY DEF IInv
<1> USE <1>0
<1>1. /\ IsFiniteSet(Using(pool)) /\ Cardinality(Using(pool)) \in Nat
      /\ IsFiniteSet(Using(pool)') /\ Cardinality(Using(pool)') \in Nat
  <2>1. IsFiniteSet(InPlan(entries)) /\ IsFiniteSet(InPlan(entries'))
    BY InPlanFinite
  <2>2. Using(pool) \subseteq InPlan(entries) /\ Using(pool)' \subseteq InPlan(entries')
    BY DEF Using
  <2> QED BY <2>1, <2>2, FS_Subset, FS_CardinalityType
<1>2. ~(Using(pool)' \subseteq Using(pool))
  BY <1>1, FS_Subset
<1>3. ASSUME NEW e \in Ids, NEW kind \in Kinds, NEW after \in Ids \cup {None},
             Enqueue(e, kind, after)
      PROVE  FALSE
  <2>1. /\ known' = known
        /\ entries' = entries \/ entries' = [entries EXCEPT ![e] = NewEntry(kind, after)]
    BY <1>3, CommitEntries DEF Enqueue
  <2> QED BY <1>2, <2>1 DEF Using, InPlan, NewEntry, TypeOK, PlanOK
<1>4. ASSUME NEW e \in Ids,
             Pause(e) \/ Resume(e) \/ Retry(e) \/ Defer(e) \/ MarkStopping(e)
               \/ (\E thread \in Jobs : MarkRunning(e, None, thread)) \/ MarkRunning(e, Reading, None)
      PROVE  FALSE
  <2>1. e \in InPlan(entries)
    BY <1>4 DEF Pause, Resume, Retry, Defer, MarkStopping, MarkRunning
  <2>2. entries[e] \in Entry
    BY <2>1, EntryOfPlan
  <2>3. PICK entry \in Entry :
           /\ Update(e, entry)
           /\ entry.kind = entries[e].kind
           /\ entry.state \in {"running", "stopping"} => entries[e].state = "running"
    <3>1. CASE Pause(e)
      BY <2>2, <3>1 DEF Pause, Entry, States
    <3>2. CASE Resume(e)
      BY <2>2, <3>2 DEF Resume, Entry, States
    <3>3. CASE Retry(e)
      <4> DEFINE again == [entries[e] EXCEPT !.state = "queued", !.reason = None,
                                             !.progress = None]
      <4>1. again \in Entry /\ again.kind = entries[e].kind /\ again.state = "queued"
        BY <2>2 DEF Entry, States, Reasons
      <4>2. Update(e, again)
        BY <3>3 DEF Retry
      <4> QED BY <4>1, <4>2
    <3>4. CASE Defer(e)
      BY <2>2, <3>4 DEF Defer, Entry, States, Reasons
    <3>5. CASE MarkStopping(e)
      BY <2>2, <3>5 DEF MarkStopping, Entry, States
    <3>6. CASE (\E thread \in Jobs : MarkRunning(e, None, thread)) \/ MarkRunning(e, Reading, None)
      BY <2>2, <3>6 DEF MarkRunning, Entry
    <3> QED BY <1>4, <3>1, <3>2, <3>3, <3>4, <3>5, <3>6
  <2>4. /\ known' = known
        /\ entries' = entries \/ entries' = [entries EXCEPT ![e] = entry]
    BY <2>3, CommitEntries DEF Update
  <2> QED BY <1>2, <2>1, <2>3, <2>4 DEF Using, InPlan, TypeOK, PlanOK
<1>5. ASSUME NEW e \in Ids, Remove(e)
      PROVE  FALSE
  <2>1. /\ known' = known
        /\ entries' = entries \/ entries' = [entries EXCEPT ![e] = NoEntry]
    BY <1>5, CommitEntries DEF Remove
  <2> QED BY <1>2, <2>1 DEF Using, InPlan, TypeOK, PlanOK
<1>6. ASSUME NEW e \in Ids, NEW index \in DOMAIN order, Move(e, index)
      PROVE  FALSE
  BY <1>2, <1>6, CommitEntries DEF Move, Using
<1>7. ASSUME NEW skip \in SUBSET Ids, NEW blocked \in SUBSET Ids, ClaimNext(skip, blocked)
      PROVE  Cardinality(Using(pool)') <= limits[pool]
  <2> DEFINE claimed == Claimed(skip, blocked)
             reached == Reached(skip, blocked)
  <2>1. PICK failed \in SUBSET reached : CommitTrimmed(AfterScan(claimed, reached, failed, blocked))
    BY <1>7 DEF ClaimNext
  <2> DEFINE ents == AfterScan(claimed, reached, failed, blocked)
  <2>2. \/ entries' = entries
        \/ /\ InPlan(entries') \subseteq InPlan(ents)
           /\ \A e \in InPlan(entries') : entries'[e] = ents[e]
    BY <2>1, AfterScanType, TrimmedEntries
  <2>3. known' = known
    BY <2>1 DEF CommitTrimmed
  <2>4. \A e \in claimed \cup reached : e \in InPlan(entries) /\ entries[e].state = "queued"
    BY DEF Claimed, Reached, Candidates
  <2>5. ASSUME NEW e \in Using(pool)', e \notin Using(pool)
        PROVE  e \in claimed /\ PoolHasRoom(pool)
    <3>1. /\ e \in Ids /\ e \in InPlan(ents) /\ entries'[e] = ents[e]
          /\ entries'[e].state \in {"running", "stopping"}
          /\ entries'[e].kind \in known /\ PoolOf[entries'[e].kind] = pool
      BY <2>2, <2>3, <2>5 DEF Using, InPlan
    <3>2. CASE e \in claimed
      <4>1. entries[e] \in Entry
        BY <2>4, <3>2, EntryOfPlan
      <4>2. ents[e].kind = entries[e].kind
        BY <3>1, <3>2, <4>1 DEF AfterScan, Entry
      <4>3. PoolHasRoom(PoolOf[entries[e].kind])
        BY <3>2 DEF Claimed, Startable
      <4> QED BY <3>1, <3>2, <4>2, <4>3
    <3>3. CASE e \notin claimed /\ e \in reached
      <4>1. entries[e] \in Entry /\ entries[e].state = "queued"
        BY <2>4, <3>3, EntryOfPlan
      <4>2. ents[e].state \in {"queued", "failed"}
        BY <3>1, <3>3, <4>1 DEF AfterScan, Entry
      <4> QED BY <3>1, <4>2
    <3>4. CASE e \notin claimed /\ e \notin reached
      <4>1. ents[e] = entries[e]
        BY <3>1, <3>4 DEF AfterScan
      <4> QED BY <2>5, <3>1, <4>1 DEF Using, InPlan
    <3> QED BY <3>2, <3>3, <3>4
  <2>6. PICK c \in Using(pool)' : c \notin Using(pool)
    BY <1>2
  <2>7. c \in claimed /\ PoolHasRoom(pool)
    BY <2>5, <2>6
  <2>8. Using(pool)' \subseteq Using(pool) \cup {c}
    BY <2>5, <2>7, ClaimsOne
  <2>9. Cardinality(Using(pool)') <= Cardinality(Using(pool)) + 1
    <3>1. /\ IsFiniteSet(Using(pool) \cup {c})
          /\ Cardinality(Using(pool) \cup {c}) = Cardinality(Using(pool)) + 1
      BY <1>1, <2>6, FS_AddElement
    <3> QED BY <2>8, <3>1, FS_Subset
  <2>10. Using(pool) = ActiveIn(pool)
    BY DEF Using, ActiveIn, ActiveStates
  <2>11. limits[pool] \in Nat
    BY QueueAssumption DEF TypeOK
  <2> QED BY <1>1, <2>7, <2>9, <2>10, <2>11 DEF PoolHasRoom
<1>8. ASSUME NEW e \in Ids, NEW state \in TerminalStates, MarkFinished(e, state, "ended")
      PROVE  FALSE
  <2> DEFINE ents == [entries EXCEPT ![e] = [@ EXCEPT
                        !.state = state, !.reason = "ended", !.progress = None]]
  <2>1. e \in InPlan(entries) /\ CommitTrimmed(ents) /\ known' = known
    BY <1>8 DEF MarkFinished, CommitTrimmed
  <2>2. entries[e] \in Entry
    BY <2>1, EntryOfPlan
  <2>3. /\ ents \in Entries
        /\ ents[e].state = state
        /\ InPlan(ents) \subseteq InPlan(entries)
        /\ \A f \in InPlan(entries) : f # e => ents[f] = entries[f]
    BY <2>1, <2>2 DEF Entries, Entry, States, TerminalStates, Reasons, TypeOK, PlanOK, InPlan
  <2>4. \/ entries' = entries
        \/ /\ InPlan(entries') \subseteq InPlan(ents)
           /\ \A f \in InPlan(entries') : entries'[f] = ents[f]
    BY <2>1, <2>3, TrimmedEntries
  <2> HIDE DEF ents
  <2> QED BY <1>2, <2>1, <2>3, <2>4 DEF Using, TerminalStates
<1>9. ASSUME NEW skip \in SUBSET Ids, Recover(skip)
      PROVE  FALSE
  <2> DEFINE orphans == {e \in InPlan(entries) \ skip : entries[e].state \in ActiveStates}
             ents == [e \in Ids |-> IF e \in orphans THEN Orphaned(entries[e]) ELSE entries[e]]
  <2>1. known' = known /\ (entries' = entries \/ entries' = TrimFinished(ents))
    BY <1>9 DEF Recover, Save, RollBack
  <2>2. \A e \in orphans : Orphaned(entries[e]) \in Entry /\ Orphaned(entries[e]).state = "interrupted"
    BY EntryOfPlan DEF Orphaned, Entry, States, Reasons
  <2>3. ents \in Entries
    BY <2>2 DEF Entries, TypeOK, PlanOK
  <2>4. \A e \in InPlan(ents) : /\ e \in InPlan(entries)
                                /\ ents[e] = entries[e] \/ ents[e].state = "interrupted"
    BY <2>2 DEF InPlan
  <2> HIDE DEF ents
  <2>5. \A e \in InPlan(TrimFinished(ents)) : /\ e \in InPlan(ents)
                                              /\ TrimFinished(ents)[e] = ents[e]
    BY <2>3, TrimProperties
  <2> QED BY <1>2, <2>1, <2>4, <2>5 DEF Using
<1>10. CASE (\E new \in LimitChoices : SetLimits(new)) \/ ResumeStorage \/ UNCHANGED vars
  BY <1>2, <1>10 DEF SetLimits, ResumeStorage, vars, Using
<1>11. CASE Crash
  BY <1>2, <1>11 DEF Crash, Using, InPlan, EmptyEntries
<1>12. CASE Damage \/ LoadPlan \/ LoadCorrupt
  BY <1>12 DEF Damage, LoadPlan, LoadCorrupt
<1> QED
  BY <1>3, <1>4, <1>5, <1>6, <1>7, <1>8, <1>9, <1>10, <1>11, <1>12 DEF Next, PlanCall, WorkCall

\* A pool never takes on work beyond its limit.
THEOREM PoolsAreNeverOversubscribed == Spec => PoolsNeverOversubscribed
<1>1. IInv /\ [Next]_vars => PoolsBounded
  BY StepBoundsPools
<1>2. Spec => [][PoolsBounded]_vars
  BY <1>1, InvariantHolds, PTL DEF Spec
<1> QED BY <1>2 DEF PoolsNeverOversubscribed, PoolsBounded

----------------------------------------------------------------------------
(* What each call of the queue does to the rows that are being worked on    *)

RunningRows  == {e \in InPlan(entries) : entries[e].state = "running"}
StoppingRows == {e \in InPlan(entries) : entries[e].state = "stopping"}
ActiveRows   == RunningRows \cup StoppingRows

RowsStay == RunningRows' = RunningRows /\ StoppingRows' = StoppingRows

RowsIn(ents, state) == {e \in InPlan(ents) : ents[e].state = state}

\* The retention cap drops no row that is not finished.
LEMMA TrimKeepsRows ==
  ASSUME NEW ents \in Entries, NEW state, state \notin TerminalStates
  PROVE  RowsIn(TrimFinished(ents), state) = RowsIn(ents, state)
<1>1. ASSUME NEW e \in InPlan(ents), ents[e].state \notin TerminalStates
      PROVE  TrimFinished(ents)[e] = ents[e]
  BY <1>1 DEF TrimFinished, InPlan
<1> QED BY <1>1, TrimProperties DEF RowsIn, InPlan

\* A save of a trimmed plan, seen in its active rows.
LEMMA TrimmedRows ==
  ASSUME NEW ents \in Entries, CommitTrimmed(ents)
  PROVE  \/ UNCHANGED entries
         \/ /\ RunningRows' = RowsIn(ents, "running")
            /\ StoppingRows' = RowsIn(ents, "stopping")
<1>1. PICK ord : Commit(TrimFinished(ents), ord)
  BY DEF CommitTrimmed
<1>2. entries' = TrimFinished(ents) \/ entries' = entries
  BY <1>1, CommitEntries
<1>3. /\ RowsIn(TrimFinished(ents), "running") = RowsIn(ents, "running")
      /\ RowsIn(TrimFinished(ents), "stopping") = RowsIn(ents, "stopping")
  BY TrimKeepsRows DEF TerminalStates
<1> QED BY <1>2, <1>3 DEF RowsIn, RunningRows, StoppingRows

\* A change of one row in place.
LEMMA UpdatedRows ==
  ASSUME TypeOK, NEW e \in InPlan(entries), NEW entry \in Entry, Update(e, entry)
  PROVE  /\ UNCHANGED phase
         /\ \/ UNCHANGED entries
            \/ /\ \A f \in Ids \ {e} : f \in RunningRows' <=> f \in RunningRows
               /\ \A f \in Ids \ {e} : f \in StoppingRows' <=> f \in StoppingRows
               /\ e \in RunningRows' <=> entry.state = "running"
               /\ e \in StoppingRows' <=> entry.state = "stopping"
<1>1. entries' = entries \/ entries' = [entries EXCEPT ![e] = entry]
  BY CommitEntries DEF Update
<1>2. entry # NoEntry
  BY QueueAssumption
<1>3. UNCHANGED phase
  BY DEF Update
<1> QED BY <1>1, <1>2, <1>3 DEF RunningRows, StoppingRows, InPlan, TypeOK, PlanOK

\* Rows are ids.
LEMMA RowsAreIds ==
  /\ RunningRows \subseteq Ids /\ StoppingRows \subseteq Ids
  /\ RunningRows' \subseteq Ids /\ StoppingRows' \subseteq Ids
  /\ RunningRows \cap StoppingRows = {}
BY DEF RunningRows, StoppingRows, InPlan

\* Enqueue, pause, resume, retry, move, remove and a reading are about rows
\* nobody works on, or leave the row active.
LEMMA QuietCalls ==
  ASSUME TypeOK, NEW e \in Ids,
         \/ \E kind \in Kinds, after \in Ids \cup {None} : Enqueue(e, kind, after)
         \/ Pause(e) \/ Resume(e) \/ Retry(e) \/ Remove(e)
         \/ \E index \in DOMAIN order : Move(e, index)
         \/ \E progress \in {Reading, None}, j \in Jobs \cup {None} : MarkRunning(e, progress, j)
  PROVE  RowsStay /\ UNCHANGED phase /\ phase = "serving"
<1>1. ASSUME NEW kind \in Kinds, NEW after \in Ids \cup {None}, Enqueue(e, kind, after)
      PROVE  RowsStay /\ UNCHANGED phase /\ phase = "serving"
  <2>1. entries' = entries \/ entries' = [entries EXCEPT ![e] = NewEntry(kind, after)]
    BY <1>1, CommitEntries DEF Enqueue
  <2>2. entries[e] = NoEntry /\ NewEntry(kind, after).state = "queued"
    BY <1>1 DEF Enqueue, Fresh, NewEntry
  <2> QED
    BY <1>1, <2>1, <2>2
    DEF Enqueue, RowsStay, RunningRows, StoppingRows, InPlan, TypeOK, PlanOK
<1>2. CASE Remove(e)
  <2>1. entries' = entries \/ entries' = [entries EXCEPT ![e] = NoEntry]
    BY <1>2, CommitEntries DEF Remove
  <2>2. e \notin RunningRows \cup StoppingRows
    BY <1>2 DEF Remove, Removable, ActiveStates, RunningRows, StoppingRows
  <2> QED
    BY <1>2, <2>1, <2>2
    DEF Remove, RowsStay, RunningRows, StoppingRows, InPlan, TypeOK, PlanOK
<1>3. ASSUME NEW index \in DOMAIN order, Move(e, index)
      PROVE  RowsStay /\ UNCHANGED phase /\ phase = "serving"
  BY <1>3, CommitEntries DEF Move, RowsStay, RunningRows, StoppingRows
<1>4. ASSUME NEW entry \in Entry, Update(e, entry), e \in InPlan(entries), phase = "serving",
             entry.state = entries[e].state
               \/ {entry.state, entries[e].state} \cap ActiveStates = {}
      PROVE  RowsStay /\ UNCHANGED phase /\ phase = "serving"
  <2>1. UNCHANGED phase
    BY <1>4, UpdatedRows
  <2>2. CASE UNCHANGED entries
    BY <1>4, <2>1, <2>2 DEF RowsStay, RunningRows, StoppingRows
  <2>3. CASE ~UNCHANGED entries
    <3>1. e \in RunningRows' <=> e \in RunningRows
      BY <1>4, <2>3, UpdatedRows DEF RunningRows, ActiveStates
    <3>2. e \in StoppingRows' <=> e \in StoppingRows
      BY <1>4, <2>3, UpdatedRows DEF StoppingRows, ActiveStates
    <3> QED BY <1>4, <2>3, <3>1, <3>2, UpdatedRows, RowsAreIds DEF RowsStay
  <2> QED BY <2>2, <2>3
<1>5. CASE Pause(e) \/ Resume(e) \/ Retry(e)
  <2>1. e \in InPlan(entries) /\ phase = "serving" /\ entries[e] \in Entry
    BY <1>5, EntryOfPlan DEF Pause, Resume, Retry
  <2>2. CASE Pause(e)
    BY <2>1, <2>2, <1>4 DEF Pause, Entry, States, ActiveStates
  <2>3. CASE Resume(e)
    BY <2>1, <2>3, <1>4 DEF Resume, Entry, States, ActiveStates
  <2>4. CASE Retry(e)
    BY <2>1, <2>4, <1>4 DEF Retry, Entry, States, ActiveStates, RetryableStates
  <2> QED BY <1>5, <2>2, <2>3, <2>4
<1>6. ASSUME NEW progress \in {Reading, None}, NEW j \in Jobs \cup {None},
             MarkRunning(e, progress, j)
      PROVE  RowsStay /\ UNCHANGED phase /\ phase = "serving"
  <2>1. e \in InPlan(entries) /\ phase = "serving" /\ entries[e] \in Entry
    BY <1>6, EntryOfPlan DEF MarkRunning
  <2> QED BY <1>6, <2>1, <1>4 DEF MarkRunning, Entry
<1> QED BY <1>1, <1>2, <1>3, <1>5, <1>6

\* The row goes back to the queue, or nothing changes.
LEMMA DeferRows ==
  ASSUME TypeOK, NEW e \in Ids, Defer(e)
  PROVE  /\ e \in RunningRows /\ UNCHANGED phase /\ phase = "serving"
         /\ \/ UNCHANGED entries
            \/ RunningRows' = RunningRows \ {e} /\ StoppingRows' = StoppingRows
<1> DEFINE entry == [entries[e] EXCEPT !.state = "queued", !.reason = "waiting",
                                       !.job = None, !.progress = None]
<1>1. e \in InPlan(entries) /\ phase = "serving" /\ Update(e, entry) /\ e \in RunningRows
  BY DEF Defer, RunningRows
<1>2. entry \in Entry /\ entry.state = "queued"
  BY <1>1, EntryOfPlan DEF Entry, States, Reasons
<1> HIDE DEF entry
<1> QED BY <1>1, <1>2, UpdatedRows, RowsAreIds

\* The row is stopping, or nothing changes.
LEMMA MarkStoppingRows ==
  ASSUME TypeOK, NEW e \in Ids, MarkStopping(e)
  PROVE  /\ e \in RunningRows /\ UNCHANGED phase /\ phase = "serving"
         /\ \/ UNCHANGED entries
            \/ RunningRows' = RunningRows \ {e} /\ StoppingRows' = StoppingRows \cup {e}
<1> DEFINE entry == [entries[e] EXCEPT !.state = "stopping"]
<1>1. e \in InPlan(entries) /\ phase = "serving" /\ Update(e, entry) /\ e \in RunningRows
  BY DEF MarkStopping, RunningRows
<1>2. entry \in Entry /\ entry.state = "stopping"
  BY <1>1, EntryOfPlan DEF Entry, States
<1> HIDE DEF entry
<1> QED BY <1>1, <1>2, UpdatedRows, RowsAreIds

\* The row is over, or nothing changes.
LEMMA MarkFinishedRows ==
  ASSUME TypeOK, NEW e \in Ids, NEW state, MarkFinished(e, state, "ended")
  PROVE  /\ e \in ActiveRows /\ UNCHANGED phase /\ phase = "serving"
         /\ \/ UNCHANGED entries
            \/ RunningRows' = RunningRows \ {e} /\ StoppingRows' = StoppingRows \ {e}
<1> DEFINE ents == [entries EXCEPT ![e] = [@ EXCEPT
                      !.state = state, !.reason = "ended", !.progress = None]]
<1>1. /\ e \in InPlan(entries) /\ phase = "serving" /\ CommitTrimmed(ents)
      /\ state \in TerminalStates /\ e \in ActiveRows /\ UNCHANGED phase
  BY DEF MarkFinished, ActiveRows, RunningRows, StoppingRows, ActiveStates, CommitTrimmed
<1>2. entries[e] \in Entry
  BY <1>1, EntryOfPlan
<1>3. ents \in Entries
  BY <1>1, <1>2 DEF Entries, Entry, States, TerminalStates, Reasons, TypeOK, PlanOK
<1>4. ents[e] # NoEntry /\ ents[e].state = state
  <2>1. ents[e] = [entries[e] EXCEPT !.state = state, !.reason = "ended", !.progress = None]
    BY <1>1 DEF TypeOK, PlanOK, InPlan
  <2>2. /\ [entries[e] EXCEPT !.state = state, !.reason = "ended", !.progress = None] \in Entry
        /\ [entries[e] EXCEPT !.state = state, !.reason = "ended", !.progress = None].state = state
    BY <1>1, <1>2 DEF Entry, States, TerminalStates, Reasons
  <2> QED BY <2>1, <2>2, QueueAssumption
<1>5. /\ RowsIn(ents, "running") = RunningRows \ {e}
      /\ RowsIn(ents, "stopping") = StoppingRows \ {e}
  BY <1>1 DEF RowsIn, RunningRows, StoppingRows, InPlan, TerminalStates, TypeOK, PlanOK
<1> HIDE DEF ents
<1> QED BY <1>1, <1>3, <1>5, TrimmedRows

\* The scan stops at the entry it claims and fails only what comes before.
LEMMA ClaimedIsNotReached ==
  ASSUME TypeOK, NEW skip, NEW blocked, NEW c \in Claimed(skip, blocked)
  PROVE  c \notin Reached(skip, blocked)
<1>1. DOMAIN order \subseteq Nat /\ \A i, j \in DOMAIN order : order[i] = order[j] => i = j
  <2>1. Cardinality(InPlan(entries)) \in Nat
    BY InPlanFinite, FS_CardinalityType
  <2> QED BY DEF TypeOK, PlanOK, Arrangements, Bijection, Injection, IsInjective
<1>2. ~Ahead(order, c, c)
  BY <1>1 DEF Ahead
<1> QED BY <1>2 DEF Reached

\* The claimed entry, if there is one, starts to run; no other row starts or ends.
LEMMA ClaimNextRows ==
  ASSUME TypeOK, NEW skip, NEW blocked, ClaimNext(skip, blocked)
  PROVE  /\ UNCHANGED phase /\ phase = "serving"
         /\ \/ UNCHANGED entries
            \/ /\ RunningRows' = RunningRows \cup Claimed(skip, blocked)
               /\ StoppingRows' = StoppingRows
<1> DEFINE claimed == Claimed(skip, blocked)
           reached == Reached(skip, blocked)
<1>1. PICK failed \in SUBSET reached :
        CommitTrimmed(AfterScan(claimed, reached, failed, blocked))
  BY DEF ClaimNext
<1> DEFINE ents == AfterScan(claimed, reached, failed, blocked)
<1>2. ents \in Entries
  BY AfterScanType
<1>3. UNCHANGED phase /\ phase = "serving"
  BY <1>1 DEF ClaimNext, CommitTrimmed
<1>4. \A e \in claimed \cup reached : e \in InPlan(entries) /\ entries[e].state = "queued"
  BY DEF Claimed, Reached, Candidates
<1>5. \A e \in claimed \cup reached : entries[e] \in Entry
  BY <1>4, EntryOfPlan
<1>6. \A e \in claimed : ents[e] # NoEntry /\ ents[e].state = "running"
  <2>1. ASSUME NEW e \in claimed
        PROVE  ents[e] \in Entry /\ ents[e].state = "running"
    <3>1. e \in Ids /\ entries[e] \in Entry
      BY <1>4, <1>5 DEF InPlan
    <3>2. e \notin reached /\ e \notin failed
      BY ClaimedIsNotReached
    <3>3. ents[e].state = "running"
      BY <2>1, <3>1, <3>2 DEF AfterScan, Entry
    <3>4. ents[e] \in Entry
      BY <3>1 DEF AfterScan, Entry, States, Reasons
    <3> QED BY <3>3, <3>4
  <2> QED BY <2>1, QueueAssumption
<1>7. \A e \in Ids \ claimed : ents[e] = entries[e] \/ (e \in reached /\ ents[e].state \in {"failed", "queued"})
  <2>1. ASSUME NEW e \in Ids \ claimed, e \in reached
        PROVE  ents[e] = entries[e] \/ ents[e].state \in {"failed", "queued"}
    BY <2>1, <1>4, <1>5 DEF AfterScan, Entry
  <2> QED BY <2>1 DEF AfterScan
<1> HIDE DEF ents, claimed, reached
<1>8. RowsIn(ents, "running") = RunningRows \cup claimed /\ RowsIn(ents, "stopping") = StoppingRows
  <2>1. \A e \in Ids : e \in RowsIn(ents, "running") <=> e \in RunningRows \cup claimed
    BY <1>4, <1>6, <1>7 DEF RowsIn, RunningRows, InPlan
  <2>2. \A e \in Ids : e \in RowsIn(ents, "stopping") <=> e \in StoppingRows
    BY <1>4, <1>6, <1>7 DEF RowsIn, StoppingRows, InPlan
  <2> QED BY <2>1, <2>2, <1>4 DEF RowsIn, RunningRows, StoppingRows, InPlan
<1> QED BY <1>1, <1>2, <1>3, <1>8, TrimmedRows DEF claimed, ents

\* What the worker has no work for is interrupted, all of it or, if the save
\* fails, none.
LEMMA RecoverRows ==
  ASSUME TypeOK, NEW skip, Recover(skip)
  PROVE  \/ UNCHANGED <<entries, phase>>
         \/ /\ phase' = "serving"
            /\ RunningRows' = RunningRows \cap skip
            /\ StoppingRows' = StoppingRows \cap skip
<1> DEFINE orphans == {e \in InPlan(entries) \ skip : entries[e].state \in ActiveStates}
           ents == [e \in Ids |-> IF e \in orphans THEN Orphaned(entries[e]) ELSE entries[e]]
<1>1. CASE orphans = {} /\ phase' = "serving" /\ UNCHANGED entries
  BY <1>1 DEF RunningRows, StoppingRows, InPlan, ActiveStates
<1>2. CASE phase' = "serving" /\ entries' = TrimFinished(ents)
  <2>1. \A e \in orphans : Orphaned(entries[e]) \in Entry /\ Orphaned(entries[e]).state = "interrupted"
    BY EntryOfPlan DEF Orphaned, Entry, States, Reasons
  <2>2. ents \in Entries
    BY <2>1 DEF Entries, TypeOK, PlanOK
  <2>3. /\ RunningRows' = RowsIn(ents, "running")
        /\ StoppingRows' = RowsIn(ents, "stopping")
    <3> HIDE DEF ents
    <3>1. /\ RowsIn(TrimFinished(ents), "running") = RowsIn(ents, "running")
          /\ RowsIn(TrimFinished(ents), "stopping") = RowsIn(ents, "stopping")
      BY <2>2, TrimKeepsRows DEF TerminalStates
    <3> QED BY <1>2, <3>1 DEF RowsIn, RunningRows, StoppingRows
  <2>4. /\ RowsIn(ents, "running") = RunningRows \cap skip
        /\ RowsIn(ents, "stopping") = StoppingRows \cap skip
    BY <2>1 DEF RowsIn, RunningRows, StoppingRows, InPlan, ActiveStates
  <2> QED BY <1>2, <2>3, <2>4
<1>3. CASE UNCHANGED <<entries, phase>>
  BY <1>3
<1> QED BY <1>1, <1>2 DEF Recover, Save, RollBack

----------------------------------------------------------------------------
(* The inductive invariant                                                 *)

Shapes ==
  /\ tracked \in [Ids -> Jobs \cup {None, Pending}]
  /\ unsaved \subseteq Ids
  /\ job \in [Jobs -> Job \cup {NoJob}]
  /\ heldBy \in [Locks -> Jobs \cup {None, Outside}]

\* What the thread that holds Worker.lock relies on from one of its steps to
\* the next, while the DELETE route, the job threads and other processes go on.
HolderKnows ==
  /\ holder.op \in {"idle", "reap", "claim", "start", "tell", "enqueue", "answer", "stop"}
  /\ holder # Idle => phase = "serving"
  /\ holder.op = "reap" => holder = [op |-> "reap", left |-> holder.left]
  /\ holder.op = "start" =>
       /\ holder.entry \in RunningRows \ unsaved
       /\ tracked[holder.entry] = None
  /\ holder.op = "tell" => holder.entry \in Ids /\ tracked[holder.entry] \in Jobs
  /\ holder.op = "stop" =>
       /\ holder.entry \in Ids /\ tracked[holder.entry] \in Jobs
       /\ job[tracked[holder.entry]].stop
  /\ holder.op = "enqueue" => holder.after \in Ids \cup {None}
  /\ holder.op \in {"claim", "start", "tell"} => holder.passed \subseteq Ids

\* Work is only there while the worker serves.
OnlyServingWorks ==
  phase # "serving" =>
    /\ \A e \in Ids : tracked[e] = None
    /\ unsaved = {}
    /\ \A j \in Jobs : job[j] = NoJob

\* Whatever the worker tracks or has to take back has an active row ...
TrackedRows ==
  /\ \A e \in Ids : tracked[e] # None => e \in ActiveRows
  /\ \A e \in unsaved : e \in RunningRows /\ tracked[e] = None

\* ... and each active row is tracked, or to be taken back, or just claimed.
ActiveIsTracked ==
  phase = "serving" =>
    \A e \in ActiveRows :
      \/ tracked[e] # None
      \/ e \in unsaved
      \/ holder.op = "start" /\ holder.entry = e

\* A tracked job is its entry's, and a job at work is tracked.
JobsAreTracked ==
  /\ \A e \in Ids : tracked[e] \in Jobs =>
       job[tracked[e]] # NoJob /\ job[tracked[e]].entry = e
  /\ \A j \in Jobs : Working(j) =>
       tracked[job[j].entry] = j /\ job[j].status = "running"

StoppingWasTold ==
  phase = "serving" =>
    \A e \in StoppingRows : tracked[e] \in Jobs /\ job[tracked[e]].stop

\* A thread has all its locks from its first step to its finally.
Holds(j) == job[j] # NoJob /\ job[j].at \in {"working", "closing"}
LocksAreHeld ==
  \A j \in Jobs : Holds(j) => \A l \in LocksOf[job[j].entry] : heldBy[l] = j

\* No lock outlives the thread that took it.
LocksAreGivenBack ==
  \A l \in Locks : heldBy[l] \in Jobs => Holds(heldBy[l]) /\ l \in LocksOf[job[heldBy[l]].entry]

StudioInv ==
  /\ TypeOK /\ Shapes /\ HolderKnows /\ OnlyServingWorks
  /\ TrackedRows /\ ActiveIsTracked /\ JobsAreTracked /\ StoppingWasTold
  /\ LocksAreHeld /\ LocksAreGivenBack

----------------------------------------------------------------------------
(* The plan of the studio is a job queue.  It is one whose enqueue does not *)
(* check the prerequisite: the route has looked it up, but the DELETE route *)
(* may take it away before the entry is there.                              *)

\* What a step of the studio does to the plan is one call of the queue, or none.
LEMMA StudioStepIsQueueCall ==
  ASSUME StudioInv, [StudioNext]_studioVars
  PROVE  [Next]_vars
<1>1. CASE UNCHANGED vars
  BY <1>1
<1>2. ASSUME NEW e \in Ids,
             \/ ReapDeferred(e) \/ Reap(e) \/ ChangePlan(e) \/ RemoveRoute(e) \/ EnqueueEnds(e)
      PROVE  [Next]_vars
  <2>1. CASE ReapDeferred(e)
    BY <2>1 DEF ReapDeferred, Next, WorkCall
  <2>2. CASE Reap(e)
    <3>1. MarkFinished(e, StatusOf(e), "ended") /\ StatusOf(e) \in TerminalStates
      BY <2>2 DEF Reap, MarkFinished
    <3> QED BY <3>1 DEF Next, WorkCall
  <2>3. CASE ChangePlan(e)
    BY <2>3 DEF ChangePlan, Next, PlanCall
  <2>4. CASE RemoveRoute(e)
    BY <2>4 DEF RemoveRoute, Next, PlanCall
  <2>5. CASE EnqueueEnds(e)
    <3>1. CASE Enqueue(e, holder.kind, holder.after)
      <4>1. holder.kind \in Kinds /\ holder.after \in Ids \cup {None}
        BY <2>5, <3>1, QueueAssumption DEF StudioInv, HolderKnows, EnqueueEnds, Enqueue, TypeOK
      <4> QED BY <3>1, <4>1 DEF Next, PlanCall
    <3> QED BY <2>5, <3>1 DEF EnqueueEnds
  <2> QED BY <1>2, <2>1, <2>2, <2>3, <2>4, <2>5
<1>3. CASE Claim \/ DeferClaimed \/ FailClaimed \/ TellJob \/ StopEnds
  <2>1. CASE Claim
    <3>1. holder.passed \in SUBSET Ids /\ Blocked \in SUBSET Ids
      BY <2>1 DEF Claim, StudioInv, HolderKnows, Blocked
    <3> QED BY <2>1, <3>1 DEF Claim, Next, WorkCall
  <2>2. CASE DeferClaimed \/ FailClaimed
    <3>1. holder.entry \in Ids
      BY <2>2, RowsAreIds DEF DeferClaimed, FailClaimed, StudioInv, HolderKnows
    <3>2. \/ Defer(holder.entry)
          \/ MarkFinished(holder.entry, "failed", "ended") /\ "failed" \in TerminalStates
      BY <2>2 DEF DeferClaimed, FailClaimed, TerminalStates
    <3> QED BY <3>1, <3>2 DEF Next, WorkCall
  <2>3. CASE TellJob
    <3>1. /\ holder.entry \in Ids /\ tracked[holder.entry] \in Jobs
          /\ MarkRunning(holder.entry, None, tracked[holder.entry])
      BY <2>3 DEF TellJob, StudioInv, HolderKnows
    <3> QED BY <3>1 DEF Next, WorkCall
  <2>4. CASE StopEnds
    BY <2>4 DEF StopEnds, StudioInv, HolderKnows, Next, WorkCall
  <2> QED BY <1>3, <2>1, <2>2, <2>3, <2>4
<1>4. ASSUME NEW j \in Jobs, Report(j)
      PROVE  [Next]_vars
  <2>1. job[j].entry \in Ids /\ MarkRunning(job[j].entry, Reading, None)
    BY <1>4 DEF Report, StudioInv, Shapes, Job
  <2> QED BY <2>1 DEF Next, WorkCall
<1>5. CASE StartWorker
  <2>1. {e \in Ids : tracked[e] # None} \cup unsaved \in SUBSET Ids
    BY DEF StudioInv, Shapes
  <2> QED BY <1>5, <2>1 DEF StartWorker, Next, WorkCall
<1>6. CASE RepairStorage \/ StudioEnds \/ StudioLoads
  BY <1>6 DEF RepairStorage, StudioEnds, StudioLoads, Next
<1>7. CASE UNCHANGED studioVars
  BY <1>1, <1>7 DEF studioVars
<1>8. CASE WorkerStep
  <2>1. ASSUME NEW e \in Ids, ReapRunning(e) PROVE UNCHANGED vars
    BY <2>1 DEF ReapRunning
  <2>2. ASSUME NEW j \in Jobs, StartThread(j) PROVE UNCHANGED vars
    BY <2>2 DEF StartThread
  <2>3. PassBegins \/ ReapEnds => UNCHANGED vars
    BY DEF PassBegins, ReapEnds
  <2> QED BY <1>2, <1>3, <1>8, <2>1, <2>2, <2>3 DEF WorkerStep
<1>9. CASE JobStep
  <2>1. ASSUME NEW j \in Jobs, NEW status, Finish(j, status) PROVE UNCHANGED vars
    BY <2>1 DEF Finish
  <2>2. ASSUME NEW j \in Jobs, Release(j) \/ Die(j) PROVE UNCHANGED vars
    BY <2>2 DEF Release, Die
  <2> QED BY <1>4, <1>9, <2>1, <2>2 DEF JobStep
<1>10. CASE RouteStep
  <2>1. ASSUME NEW kind, NEW after, EnqueueBegins(kind, after) PROVE UNCHANGED vars
    BY <2>1 DEF EnqueueBegins
  <2>2. ASSUME NEW e \in Ids, StopBegins(e) PROVE UNCHANGED vars
    BY <2>2 DEF StopBegins
  <2>3. Answer => UNCHANGED vars
    BY DEF Answer
  <2> QED BY <1>2, <1>3, <1>6, <1>10, <2>1, <2>2, <2>3 DEF RouteStep
<1>11. ASSUME NEW l \in Locks, OutsideTakes(l) \/ OutsideLeaves(l) PROVE UNCHANGED vars
  BY <1>11 DEF OutsideTakes, OutsideLeaves
<1> QED BY <1>5, <1>6, <1>7, <1>8, <1>9, <1>10, <1>11 DEF StudioNext

----------------------------------------------------------------------------
(* Steps that change neither the rows nor the work *)

\* The holder goes on, no row starts or ends.
LEMMA GoingOn ==
  ASSUME StudioInv, TypeOK', HolderKnows', RowsStay,
         UNCHANGED <<phase, tracked, unsaved, job, heldBy>>,
         holder.op = "start" => holder'.op = "start" /\ holder'.entry = holder.entry
  PROVE  StudioInv'
<1>1. Shapes' /\ OnlyServingWorks'
  BY DEF StudioInv, Shapes, OnlyServingWorks
<1>2. TrackedRows' /\ ActiveIsTracked' /\ StoppingWasTold'
  BY DEF StudioInv, TrackedRows, ActiveIsTracked, StoppingWasTold, RowsStay, ActiveRows
<1>3. JobsAreTracked' /\ LocksAreHeld' /\ LocksAreGivenBack'
  BY DEF StudioInv, JobsAreTracked, Working, LocksAreHeld, LocksAreGivenBack, Holds
<1> QED BY <1>1, <1>2, <1>3 DEF StudioInv

\* A call that leaves the queue's state alone.
LEMMA NoCall ==
  ASSUME StudioInv, UNCHANGED vars
  PROVE  TypeOK' /\ RowsStay /\ UNCHANGED phase
BY DEF vars, StudioInv, TypeOK, RowsStay, RunningRows, StoppingRows

\* What every step of a thread beside the holder keeps of what the holder knows.
LEMMA HolderStays ==
  ASSUME StudioInv, RowsStay, UNCHANGED <<phase, holder, tracked, unsaved>>,
         \A e \in Ids : tracked[e] \in Jobs /\ job[tracked[e]].stop => job'[tracked[e]].stop
  PROVE  HolderKnows'
BY DEF StudioInv, HolderKnows, RowsStay

\* A pass begins: nothing but what the holder does changes.
LEMMA PassBeginsKeepsInv == ASSUME StudioInv, PassBegins PROVE StudioInv'
<1>1. PICK left : holder' = [op |-> "reap", left |-> left]
  BY DEF PassBegins
<1>2. HolderKnows' /\ holder.op = "idle"
  BY <1>1, NoCall DEF PassBegins, HolderKnows, Idle
<1> QED BY <1>2, NoCall, GoingOn DEF PassBegins

\* A job that still runs stays tracked.
LEMMA ReapRunningKeepsInv ==
  ASSUME StudioInv, NEW e \in Ids, ReapRunning(e) PROVE StudioInv'
<1>1. holder = [op |-> "reap", left |-> holder.left] /\ holder # Idle
  BY DEF ReapRunning, StudioInv, HolderKnows, Idle
<1>2. holder' = [op |-> "reap", left |-> Tail(holder.left)]
  BY <1>1 DEF ReapRunning
<1>3. HolderKnows'
  BY <1>1, NoCall DEF ReapRunning, HolderKnows, StudioInv
<1> QED BY <1>1, <1>3, NoCall, GoingOn DEF ReapRunning

\* The reap is over, the claims begin.
LEMMA ReapEndsKeepsInv == ASSUME StudioInv, ReapEnds PROVE StudioInv'
<1>1. holder.op = "reap" /\ holder' = [op |-> "claim", passed |-> {}]
  BY DEF ReapEnds
<1>2. HolderKnows'
  BY NoCall DEF ReapEnds, HolderKnows, StudioInv, Idle
<1> QED BY <1>1, <1>2, NoCall, GoingOn DEF ReapEnds

\* The work is untouched: so are its locks.
LEMMA LocksStay ==
  ASSUME StudioInv, UNCHANGED <<job, heldBy>>
  PROVE  LocksAreHeld' /\ LocksAreGivenBack'
BY DEF StudioInv, LocksAreHeld, LocksAreGivenBack, Holds

\* An entry leaves `unsaved` just when its row leaves the running ones.
LEMMA ReapDeferredKeepsInv ==
  ASSUME StudioInv, TypeOK', NEW e \in Ids, ReapDeferred(e) PROVE StudioInv'
<1>1. /\ e \in RunningRows /\ UNCHANGED <<phase, tracked, job, heldBy>> /\ phase = "serving"
      /\ holder.op = "reap" /\ e \in unsaved
  BY DeferRows DEF ReapDeferred, StudioInv
<1>2. CASE entries' = entries
  <2>1. RowsStay /\ holder' = Idle /\ unsaved' = unsaved
    BY <1>2 DEF ReapDeferred, RowsStay, RunningRows, StoppingRows
  <2>2. HolderKnows'
    BY <1>1, <2>1 DEF HolderKnows, Idle
  <2> QED BY <1>1, <2>1, <2>2, GoingOn
<1>3. CASE entries' # entries
  <2>1. /\ RunningRows' = RunningRows \ {e} /\ StoppingRows' = StoppingRows
        /\ unsaved' = unsaved \ {e} /\ UNCHANGED holder
    BY <1>3, DeferRows DEF ReapDeferred, StudioInv
  <2>2. HolderKnows'
    BY <1>1, <2>1 DEF StudioInv, HolderKnows
  <2>3. Shapes' /\ OnlyServingWorks'
    BY <1>1, <2>1 DEF StudioInv, Shapes, OnlyServingWorks
  <2>4. TrackedRows' /\ ActiveIsTracked' /\ StoppingWasTold'
    BY <1>1, <2>1, RowsAreIds
    DEF StudioInv, TrackedRows, ActiveIsTracked, StoppingWasTold, ActiveRows
  <2>5. JobsAreTracked'
    BY <1>1 DEF StudioInv, JobsAreTracked, Working
  <2> QED BY <1>1, <2>2, <2>3, <2>4, <2>5, LocksStay DEF StudioInv
<1> QED BY <1>2, <1>3

\* What becomes of jobs when history is dropped.
LEMMA SettledJobs ==
  ASSUME NEW jobs \in [Jobs -> Job \cup {NoJob}], NEW running
  PROVE  /\ Settled(jobs, running) \in [Jobs -> Job \cup {NoJob}]
         /\ \A j \in Jobs :
              \/ Settled(jobs, running)[j] = jobs[j]
              \/ /\ Settled(jobs, running)[j] = NoJob
                 /\ jobs[j].at = "gone"
                 /\ \A e \in Ids : running[e] # j
BY DEF Settled

\* A job is forgotten just when its row ends; no other job is lost with it.
LEMMA ReapKeepsInv ==
  ASSUME StudioInv, TypeOK', NEW e \in Ids, Reap(e) PROVE StudioInv'
<1>1. /\ UNCHANGED <<phase, unsaved, heldBy>> /\ phase = "serving"
      /\ holder.op = "reap" /\ unsaved = {} /\ StatusOf(e) # "running"
      /\ e \in ActiveRows
  BY MarkFinishedRows DEF Reap, StudioInv
<1>2. CASE entries' = entries
  <2>1. RowsStay /\ holder' = Idle /\ UNCHANGED <<tracked, job>>
    BY <1>2 DEF Reap, RowsStay, RunningRows, StoppingRows
  <2>2. HolderKnows'
    BY <1>1, <2>1 DEF HolderKnows, Idle
  <2> QED BY <1>1, <2>1, <2>2, GoingOn
<1>3. CASE entries' # entries
  <2>1. /\ RunningRows' = RunningRows \ {e} /\ StoppingRows' = StoppingRows \ {e}
        /\ tracked' = [tracked EXCEPT ![e] = None]
        /\ job' = Settled(job, tracked')
        /\ holder' = [holder EXCEPT !.left = Tail(@)]
    BY <1>3, MarkFinishedRows DEF Reap, StudioInv
  <2>2. holder = [op |-> "reap", left |-> holder.left] /\ holder'.op = "reap"
        /\ holder' = [op |-> "reap", left |-> holder'.left]
    BY <1>1, <2>1 DEF StudioInv, HolderKnows
  <2>3. HolderKnows'
    BY <1>1, <2>2 DEF HolderKnows
  <2>4. Shapes' /\ OnlyServingWorks'
    BY <1>1, <2>1, SettledJobs DEF StudioInv, Shapes, OnlyServingWorks
  <2>5. \A f \in Ids : tracked'[f] = IF f = e THEN None ELSE tracked[f]
    BY <2>1 DEF StudioInv, Shapes
  <2>6. \A j \in Jobs : job'[j] = job[j] \/ (job'[j] = NoJob /\ job[j].at = "gone"
                                             /\ \A f \in Ids : tracked'[f] # j)
    <3>1. job \in [Jobs -> Job \cup {NoJob}]
      BY DEF StudioInv, Shapes
    <3> QED BY <2>1, <3>1 DEF Settled
  <2>7. TrackedRows' /\ ActiveIsTracked' /\ StoppingWasTold'
    <3>1. \A f \in Ids : tracked'[f] \in Jobs => job'[tracked'[f]] = job[tracked'[f]]
      BY <2>6
    <3>2. TrackedRows' /\ ActiveIsTracked'
      BY <1>1, <2>1, <2>5 DEF StudioInv, TrackedRows, ActiveIsTracked, ActiveRows
    <3>3. StoppingWasTold'
      <4>1. ASSUME NEW f \in StoppingRows'
            PROVE  tracked'[f] \in Jobs /\ job'[tracked'[f]].stop
        <5>1. f \in StoppingRows /\ f \in Ids /\ f # e
          BY <2>1, <4>1, RowsAreIds
        <5> QED BY <1>1, <2>5, <3>1, <5>1 DEF StudioInv, StoppingWasTold
      <4> QED BY <4>1 DEF StoppingWasTold
    <3> QED BY <3>2, <3>3
  <2>8. JobsAreTracked'
    <3>1. \A j \in Jobs : Working(j)' => Working(j) /\ job'[j] = job[j]
      BY <2>6 DEF Working
    <3>2. \A j \in Jobs : Working(j) => job[j].entry \in Ids /\ job[j].entry # e
      BY <1>1, StudioAssumption DEF StudioInv, JobsAreTracked, Working, Shapes, Job, StatusOf
    <3>3. \A f \in Ids : tracked'[f] \in Jobs => job'[tracked'[f]] = job[tracked'[f]] /\ tracked[f] = tracked'[f]
      BY <2>5, <2>6, StudioAssumption
    <3> QED BY <2>5, <3>1, <3>2, <3>3 DEF StudioInv, JobsAreTracked
  <2>9. \A j \in Jobs : (Holds(j)' <=> Holds(j)) /\ (Holds(j) => job'[j] = job[j])
    BY <2>6 DEF Holds
  <2>10. LocksAreHeld' /\ LocksAreGivenBack'
    BY <1>1, <2>9 DEF StudioInv, LocksAreHeld, LocksAreGivenBack
  <2> QED BY <2>3, <2>4, <2>7, <2>8, <2>10 DEF StudioInv
<1> QED BY <1>2, <1>3

\* A claim that is saved gives the holder the one row nothing tracks.
LEMMA ClaimKeepsInv ==
  ASSUME StudioInv, TypeOK', Claim PROVE StudioInv'
<1>1. holder.op = "claim" /\ UNCHANGED <<tracked, unsaved, job, heldBy>>
  BY DEF Claim
<1>2. ASSUME RowsStay, holder' = Idle, UNCHANGED phase
      PROVE  StudioInv'
  <2>1. HolderKnows'
    BY <1>2 DEF HolderKnows, Idle
  <2> QED BY <1>1, <1>2, <2>1, GoingOn
<1>3. CASE UNCHANGED vars /\ holder' = Idle
  BY <1>2, <1>3, NoCall
<1>4. CASE ClaimNext(holder.passed, Blocked)
  <2>1. /\ UNCHANGED phase /\ phase = "serving"
        /\ \/ UNCHANGED entries
           \/ /\ RunningRows' = RunningRows \cup Claimed(holder.passed, Blocked)
              /\ StoppingRows' = StoppingRows
    BY <1>4, ClaimNextRows DEF StudioInv
  <2>2. CASE (entries' = entries \/ Claimed(holder.passed, Blocked) = {}) /\ holder' = Idle
    <3>1. RowsStay
      BY <2>1, <2>2 DEF RowsStay, RunningRows, StoppingRows
    <3> QED BY <1>2, <2>1, <2>2, <3>1
  <2>3. ASSUME NEW e \in Claimed(holder.passed, Blocked), entries' # entries,
               holder' = [op |-> "start", entry |-> e, passed |-> holder.passed]
        PROVE  StudioInv'
    <3>1. Claimed(holder.passed, Blocked) = {e}
      BY ClaimsOne DEF StudioInv
    <3>2. RunningRows' = RunningRows \cup {e} /\ StoppingRows' = StoppingRows
      BY <2>1, <2>3, <3>1
    <3>3. e \in Ids /\ e \notin ActiveRows
      BY DEF Claimed, Candidates, ActiveRows, RunningRows, StoppingRows, InPlan
    <3>4. tracked[e] = None /\ e \notin unsaved
      BY <3>3 DEF StudioInv, TrackedRows, ActiveRows
    <3>5. HolderKnows'
      BY <1>1, <2>1, <2>3, <3>4 DEF HolderKnows, StudioInv
    <3>6. Shapes' /\ OnlyServingWorks' /\ JobsAreTracked'
      BY <1>1, <2>1 DEF StudioInv, Shapes, OnlyServingWorks, JobsAreTracked, Working
    <3>7. TrackedRows' /\ ActiveIsTracked' /\ StoppingWasTold'
      BY <1>1, <2>1, <2>3, <3>2
      DEF StudioInv, TrackedRows, ActiveIsTracked, StoppingWasTold, ActiveRows
    <3> QED BY <1>1, <3>5, <3>6, <3>7, LocksStay DEF StudioInv
  <2> QED BY <1>3, <1>4, <2>2, <2>3 DEF Claim
<1> QED BY <1>3, <1>4 DEF Claim

\* The claimed row goes back to the queue, or the worker remembers that it must.
LEMMA DeferClaimedKeepsInv ==
  ASSUME StudioInv, TypeOK', DeferClaimed PROVE StudioInv'
<1> DEFINE e == holder.entry
<1>1. /\ e \in RunningRows \ unsaved /\ e \in Ids /\ tracked[e] = None /\ holder.op = "start"
      /\ Defer(e) /\ UNCHANGED <<tracked, job, heldBy>> /\ holder.passed \subseteq Ids
  BY RowsAreIds DEF DeferClaimed, StudioInv, HolderKnows
<1>2. UNCHANGED phase /\ phase = "serving"
  BY <1>1, DeferRows DEF StudioInv
<1>3. CASE entries' = entries
  <2>1. RowsStay /\ holder' = Idle /\ unsaved' = unsaved \cup {e}
    BY <1>3 DEF DeferClaimed, RowsStay, RunningRows, StoppingRows
  <2>2. HolderKnows'
    BY <2>1 DEF HolderKnows, Idle
  <2> HIDE DEF e
  <2>3. Shapes' /\ OnlyServingWorks'
    BY <1>1, <1>2, <2>1 DEF StudioInv, Shapes, OnlyServingWorks
  <2>4. TrackedRows' /\ StoppingWasTold' /\ JobsAreTracked'
    BY <1>1, <1>2, <2>1
    DEF StudioInv, TrackedRows, StoppingWasTold, ActiveRows, RowsStay, JobsAreTracked, Working
  <2>5. ActiveIsTracked'
    BY <1>1, <1>2, <2>1 DEF StudioInv, ActiveIsTracked, ActiveRows, RowsStay
  <2> QED BY <1>1, <2>2, <2>3, <2>4, <2>5, LocksStay DEF StudioInv
<1>4. CASE entries' # entries
  <2>1. /\ RunningRows' = RunningRows \ {e} /\ StoppingRows' = StoppingRows
        /\ holder' = [op |-> "claim", passed |-> holder.passed \cup {e}] /\ UNCHANGED unsaved
    BY <1>1, <1>4, DeferRows DEF DeferClaimed, StudioInv
  <2>2. HolderKnows'
    BY <1>1, <1>2, <2>1 DEF HolderKnows, Idle
  <2> HIDE DEF e
  <2>3. Shapes' /\ OnlyServingWorks' /\ JobsAreTracked'
    BY <1>1, <1>2, <2>1 DEF StudioInv, Shapes, OnlyServingWorks, JobsAreTracked, Working
  <2>4. TrackedRows' /\ StoppingWasTold'
    BY <1>1, <1>2, <2>1 DEF StudioInv, TrackedRows, StoppingWasTold, ActiveRows
  <2>5. ActiveIsTracked'
    BY <1>1, <1>2, <2>1, RowsAreIds DEF StudioInv, ActiveIsTracked, ActiveRows
  <2> QED BY <1>1, <2>2, <2>3, <2>4, <2>5, LocksStay DEF StudioInv
<1> QED BY <1>3, <1>4

\* The claimed row fails, or a threadless job keeps it for the reap.
LEMMA FailClaimedKeepsInv ==
  ASSUME StudioInv, TypeOK', FailClaimed PROVE StudioInv'
<1> DEFINE e == holder.entry
<1>1. /\ e \in RunningRows \ unsaved /\ e \in Ids /\ tracked[e] = None /\ holder.op = "start"
      /\ MarkFinished(e, "failed", "ended") /\ UNCHANGED <<unsaved, job, heldBy>>
      /\ holder.passed \subseteq Ids /\ holder' = [op |-> "claim", passed |-> holder.passed]
  BY RowsAreIds DEF FailClaimed, StudioInv, HolderKnows
<1>2. UNCHANGED phase /\ phase = "serving"
  BY <1>1, MarkFinishedRows DEF StudioInv
<1>3. HolderKnows'
  BY <1>1, <1>2 DEF HolderKnows, Idle
<1>4. CASE entries' = entries
  <2>1. RowsStay /\ tracked' = [tracked EXCEPT ![e] = Pending]
    BY <1>4 DEF FailClaimed, RowsStay, RunningRows, StoppingRows
  <2>2. \A f \in Ids : tracked'[f] = IF f = e THEN Pending ELSE tracked[f]
    BY <2>1 DEF StudioInv, Shapes
  <2> HIDE DEF e
  <2>3. Shapes' /\ OnlyServingWorks'
    BY <1>1, <1>2, <2>1 DEF StudioInv, Shapes, OnlyServingWorks
  <2>4. TrackedRows'
    BY <1>1, <2>1 DEF StudioInv, TrackedRows, ActiveRows, RowsStay
  <2>5. ActiveIsTracked'
    BY <1>1, <1>2, <2>1, <2>2, StudioAssumption DEF StudioInv, ActiveIsTracked, ActiveRows, RowsStay
  <2>6. JobsAreTracked'
    <3>1. \A j \in Jobs : Working(j) => job[j].entry \in Ids /\ job[j].entry # e
      BY <1>1, StudioAssumption DEF StudioInv, JobsAreTracked, Working, Shapes, Job
    <3> QED BY <1>1, <2>2, <3>1, StudioAssumption DEF StudioInv, JobsAreTracked, Working
  <2>7. StoppingWasTold'
    BY <1>1, <1>2, <2>1, RowsAreIds DEF StudioInv, StoppingWasTold, RowsStay
  <2> QED BY <1>1, <1>3, <2>3, <2>4, <2>5, <2>6, <2>7, LocksStay DEF StudioInv
<1>5. CASE entries' # entries
  <2>1. /\ RunningRows' = RunningRows \ {e} /\ StoppingRows' = StoppingRows /\ UNCHANGED tracked
    BY <1>1, <1>5, MarkFinishedRows, RowsAreIds DEF FailClaimed, StudioInv
  <2> HIDE DEF e
  <2>3. Shapes' /\ OnlyServingWorks' /\ JobsAreTracked'
    BY <1>1, <1>2, <2>1 DEF StudioInv, Shapes, OnlyServingWorks, JobsAreTracked, Working
  <2>4. TrackedRows' /\ StoppingWasTold'
    BY <1>1, <1>2, <2>1 DEF StudioInv, TrackedRows, StoppingWasTold, ActiveRows
  <2>5. ActiveIsTracked'
    BY <1>1, <1>2, <2>1, RowsAreIds DEF StudioInv, ActiveIsTracked, ActiveRows
  <2> QED BY <1>1, <1>3, <2>3, <2>4, <2>5, LocksStay DEF StudioInv
<1> QED BY <1>4, <1>5

\* A thread starts tracked, with a row of its own and with locks nobody had.
LEMMA StartThreadKeepsInv ==
  ASSUME StudioInv, TypeOK', NEW j \in Jobs, StartThread(j) PROVE StudioInv'
<1> DEFINE e == holder.entry
           started == [entry |-> e, status |-> "running", at |-> "working", stop |-> FALSE]
<1>1. /\ e \in RunningRows \ unsaved /\ e \in Ids /\ tracked[e] = None /\ holder.op = "start"
      /\ holder # Idle /\ phase = "serving" /\ holder.passed \subseteq Ids
  BY RowsAreIds DEF StartThread, StudioInv, HolderKnows, Idle
<1>2. /\ job[j] = NoJob /\ Busy(e) = {} /\ UNCHANGED unsaved
      /\ heldBy' = [l \in Locks |-> IF l \in LocksOf[e] THEN j ELSE heldBy[l]]
      /\ job' = [job EXCEPT ![j] = started]
      /\ tracked' = [tracked EXCEPT ![e] = j]
      /\ holder' = [op |-> "tell", entry |-> e, passed |-> holder.passed]
      /\ UNCHANGED vars
  BY DEF StartThread, FreshJob
<1>3. RowsStay /\ UNCHANGED phase
  BY <1>2, NoCall
<1>4. started \in Job /\ started # NoJob
  <2>1. started \in Job
    BY <1>1 DEF Job
  <2> QED BY <2>1, StudioAssumption
<1>5. /\ \A f \in Ids : tracked'[f] = IF f = e THEN j ELSE tracked[f]
      /\ \A k \in Jobs : job'[k] = IF k = j THEN started ELSE job[k]
      /\ \A l \in Locks : heldBy'[l] = IF l \in LocksOf[e] THEN j ELSE heldBy[l]
  BY <1>1, <1>2 DEF StudioInv, Shapes
<1>6. started.entry = e /\ started.status = "running" /\ started.at = "working"
  OBVIOUS
<1>7. \A f \in Ids : tracked[f] # j
  BY <1>2 DEF StudioInv, JobsAreTracked
<1>8. HolderKnows'
  BY <1>1, <1>2, <1>3, <1>5 DEF HolderKnows
<1>9. j # None /\ j # Pending
  BY StudioAssumption
<1> HIDE DEF e, started
<1>10. Shapes'
  BY <1>1, <1>2, <1>4 DEF StudioInv, Shapes
<1>11. OnlyServingWorks'
  BY <1>1, <1>3 DEF OnlyServingWorks
<1>12. TrackedRows'
  BY <1>1, <1>2, <1>3 DEF StudioInv, TrackedRows, ActiveRows, RowsStay
<1>13. ActiveIsTracked'
  BY <1>2, <1>3, <1>5, <1>9, RowsAreIds DEF StudioInv, ActiveIsTracked, ActiveRows, RowsStay, e
<1>14. JobsAreTracked'
  <2>1. \A f \in Ids : tracked'[f] \in Jobs => job'[tracked'[f]] # NoJob /\ job'[tracked'[f]].entry = f
    BY <1>4, <1>5, <1>6, <1>7 DEF StudioInv, JobsAreTracked
  <2>2. ASSUME NEW k \in Jobs, Working(k)'
        PROVE  tracked'[job'[k].entry] = k /\ job'[k].status = "running"
    <3>1. CASE k = j
      BY <1>1, <1>5, <1>6, <3>1
    <3>2. CASE k # j
      <4>1. Working(k) /\ job'[k] = job[k] /\ job[k].entry \in Ids
        BY <1>5, <2>2, <3>2 DEF Working, StudioInv, Shapes, Job
      <4> QED BY <1>1, <1>5, <4>1, StudioAssumption DEF StudioInv, JobsAreTracked
    <3> QED BY <3>1, <3>2
  <2> QED BY <2>1, <2>2 DEF JobsAreTracked
<1>15. StoppingWasTold'
  <2>1. \A f \in StoppingRows : f \in Ids /\ f # e
    BY <1>1, RowsAreIds
  <2> QED BY <1>3, <1>5, <1>7, <2>1 DEF StudioInv, StoppingWasTold, RowsStay
<1>16. \A l \in LocksOf[e] : l \in Locks /\ heldBy[l] = None
  BY <1>1, <1>2, StudioAssumption DEF Busy
<1>17. LocksAreHeld'
  <2>1. ASSUME NEW k \in Jobs, Holds(k)', NEW l \in LocksOf[job'[k].entry]
        PROVE  heldBy'[l] = k
    <3>1. CASE k = j
      BY <1>5, <1>6, <1>16, <2>1, <3>1
    <3>2. CASE k # j
      <4>1. Holds(k) /\ job'[k] = job[k] /\ job[k].entry \in Ids
        BY <1>5, <2>1, <3>2 DEF Holds, StudioInv, Shapes, Job
      <4>2. heldBy[l] = k /\ k # None /\ l \in Locks
        BY <2>1, <4>1, StudioAssumption DEF StudioInv, LocksAreHeld
      <4> QED BY <1>5, <1>16, <4>2
    <3> QED BY <3>1, <3>2
  <2> QED BY <2>1 DEF LocksAreHeld
<1>18. LocksAreGivenBack'
  <2>1. ASSUME NEW l \in Locks, heldBy'[l] \in Jobs
        PROVE  Holds(heldBy[l])' /\ l \in LocksOf[job'[heldBy'[l]].entry]
    <3>1. CASE l \in LocksOf[e]
      BY <1>4, <1>5, <1>6, <3>1 DEF Holds
    <3>2. CASE l \notin LocksOf[e]
      <4>1. heldBy'[l] = heldBy[l] /\ Holds(heldBy[l]) /\ heldBy[l] # j
        BY <1>2, <2>1, <3>2 DEF StudioInv, LocksAreGivenBack, Holds
      <4> QED BY <1>5, <2>1, <4>1 DEF StudioInv, LocksAreGivenBack, Holds
    <3> QED BY <3>1, <3>2
  <2> QED BY <2>1 DEF LocksAreGivenBack
<1> QED BY <1>8, <1>10, <1>11, <1>12, <1>13, <1>14, <1>15, <1>17, <1>18 DEF StudioInv

\* The row may have changed meanwhile; the job is tracked either way.
LEMMA TellJobKeepsInv ==
  ASSUME StudioInv, TypeOK', TellJob PROVE StudioInv'
<1>1. /\ holder.op = "tell" /\ holder.entry \in Ids /\ tracked[holder.entry] \in Jobs
      /\ holder.passed \subseteq Ids
      /\ MarkRunning(holder.entry, None, tracked[holder.entry])
      /\ UNCHANGED <<tracked, unsaved, job, heldBy>>
      /\ \/ holder' = Idle
         \/ holder' = [op |-> "claim", passed |-> holder.passed]
  BY DEF TellJob, StudioInv, HolderKnows
<1>2. RowsStay /\ UNCHANGED phase /\ phase = "serving"
  BY <1>1, QuietCalls DEF StudioInv
<1>3. HolderKnows'
  BY <1>1, <1>2 DEF HolderKnows, Idle
<1> QED BY <1>1, <1>2, <1>3, GoingOn

\* A reading changes no state.
LEMMA ReportKeepsInv ==
  ASSUME StudioInv, TypeOK', NEW j \in Jobs, Report(j) PROVE StudioInv'
<1>1. /\ job[j].entry \in Ids /\ MarkRunning(job[j].entry, Reading, None)
      /\ UNCHANGED <<holder, tracked, unsaved, job, heldBy>>
  BY DEF Report, StudioInv, Shapes, Job
<1>2. RowsStay /\ UNCHANGED phase
  BY <1>1, QuietCalls DEF StudioInv
<1>3. HolderKnows'
  BY <1>1, <1>2, HolderStays
<1> QED BY <1>1, <1>2, <1>3, GoingOn

\* A job is over before its locks are: the thread keeps them for its finally.
LEMMA FinishKeepsInv ==
  ASSUME StudioInv, NEW j \in Jobs, NEW status \in {"done", "failed", "stopped"},
         Finish(j, status)
  PROVE  StudioInv'
<1>1. TypeOK' /\ RowsStay /\ UNCHANGED <<phase, holder, tracked, unsaved, heldBy>>
  BY NoCall DEF Finish
<1> DEFINE ended == [job[j] EXCEPT !.status = status, !.at = "closing"]
<1>2. job[j] \in Job /\ Working(j) /\ job' = [job EXCEPT ![j] = ended]
  BY DEF Finish, StudioInv, Shapes, Working
<1>3. /\ ended \in Job /\ ended.entry = job[j].entry /\ ended.stop = job[j].stop
      /\ ended.at = "closing"
  BY <1>2 DEF Job
<1> HIDE DEF ended
<1>4. ended # NoJob
  BY <1>3, StudioAssumption
<1>5. \A k \in Jobs : job'[k] = IF k = j THEN ended ELSE job[k]
  BY <1>2 DEF StudioInv, Shapes
<1>6. HolderKnows'
  BY <1>1, <1>3, <1>5, HolderStays
<1>7. Shapes' /\ OnlyServingWorks' /\ TrackedRows' /\ ActiveIsTracked'
  <2>1. Shapes' /\ TrackedRows' /\ ActiveIsTracked'
    BY <1>1, <1>2, <1>3 DEF StudioInv, Shapes, TrackedRows, ActiveIsTracked, ActiveRows, RowsStay
  <2>2. OnlyServingWorks'
    BY <1>1, <1>2 DEF StudioInv, OnlyServingWorks, Working
  <2> QED BY <2>1, <2>2
<1>8. JobsAreTracked'
  <2>1. \A k \in Jobs : Working(k)' => k # j /\ Working(k) /\ job'[k] = job[k]
    BY <1>3, <1>5 DEF Working
  <2> QED BY <1>1, <1>3, <1>4, <1>5, <2>1 DEF StudioInv, JobsAreTracked
<1>9. StoppingWasTold'
  BY <1>1, <1>3, <1>5 DEF StudioInv, StoppingWasTold, RowsStay
<1>10. \A k \in Jobs : (Holds(k)' <=> Holds(k)) /\ (Holds(k) => job'[k].entry = job[k].entry)
  BY <1>2, <1>3, <1>4 DEF Holds, Working
<1>11. LocksAreHeld' /\ LocksAreGivenBack'
  BY <1>1, <1>10 DEF StudioInv, LocksAreHeld, LocksAreGivenBack
<1> QED BY <1>1, <1>6, <1>7, <1>8, <1>9, <1>11 DEF StudioInv

\* A thread's finally, after its work or instead of it.
LEMMA ThreadEndsKeepsInv ==
  ASSUME StudioInv, NEW j \in Jobs, Release(j) \/ Die(j)
  PROVE  StudioInv'
<1>1. TypeOK' /\ RowsStay /\ UNCHANGED <<phase, holder, tracked, unsaved>>
  BY NoCall DEF Release, Die
<1> DEFINE gone == [job[j] EXCEPT !.at = "gone"]
           jobs == [job EXCEPT ![j] = gone]
<1>2. /\ job[j] \in Job /\ Holds(j) /\ job' = Settled(jobs, tracked)
      /\ heldBy' = [l \in Locks |-> IF heldBy[l] = j THEN None ELSE heldBy[l]]
  BY DEF Release, Die, Unlocked, Holds, StudioInv, Shapes
<1>3. gone \in Job /\ gone.entry = job[j].entry /\ gone.stop = job[j].stop /\ gone.at = "gone"
  BY <1>2 DEF Job
<1> HIDE DEF gone
<1>4. gone # NoJob
  BY <1>3, StudioAssumption
<1>5. /\ jobs \in [Jobs -> Job \cup {NoJob}]
      /\ \A k \in Jobs : jobs[k] = IF k = j THEN gone ELSE job[k]
  BY <1>3 DEF StudioInv, Shapes
<1> HIDE DEF jobs
<1>6. /\ job' \in [Jobs -> Job \cup {NoJob}]
      /\ \A k \in Jobs :
           \/ job'[k] = jobs[k]
           \/ job'[k] = NoJob /\ jobs[k].at = "gone" /\ \A f \in Ids : tracked[f] # k
  <2>1. job' \in [Jobs -> Job \cup {NoJob}]
    BY <1>2, <1>5 DEF Settled
  <2>2. ASSUME NEW k \in Jobs
        PROVE  \/ job'[k] = jobs[k]
               \/ job'[k] = NoJob /\ jobs[k].at = "gone" /\ \A f \in Ids : tracked[f] # k
    BY <1>2 DEF Settled
  <2> QED BY <2>1, <2>2
<1>7. \A f \in Ids : tracked[f] \in Jobs =>
        /\ job'[tracked[f]] # NoJob
        /\ job'[tracked[f]].entry = job[tracked[f]].entry
        /\ job'[tracked[f]].stop = job[tracked[f]].stop
  BY <1>3, <1>4, <1>5, <1>6 DEF StudioInv, JobsAreTracked
<1>8. HolderKnows'
  BY <1>1, <1>7, HolderStays
<1>9. Shapes' /\ OnlyServingWorks' /\ TrackedRows' /\ ActiveIsTracked' /\ StoppingWasTold'
  <2>1. Shapes'
    BY <1>1, <1>2, <1>6 DEF StudioInv, Shapes
  <2>2. OnlyServingWorks'
    BY <1>1, <1>2 DEF StudioInv, OnlyServingWorks, Holds
  <2>3. TrackedRows' /\ ActiveIsTracked' /\ StoppingWasTold'
    BY <1>1, <1>7, RowsAreIds
    DEF StudioInv, TrackedRows, ActiveIsTracked, StoppingWasTold, ActiveRows, RowsStay
  <2> QED BY <2>1, <2>2, <2>3
<1>10. JobsAreTracked'
  <2>1. \A k \in Jobs : Working(k)' => Working(k) /\ job'[k] = job[k]
    BY <1>3, <1>5, <1>6 DEF Working
  <2> QED BY <1>1, <1>7, <2>1 DEF StudioInv, JobsAreTracked
<1>11. \A k \in Jobs : (Holds(k)' <=> Holds(k) /\ k # j) /\ (Holds(k)' => job'[k] = job[k])
  BY <1>3, <1>5, <1>6 DEF Holds
<1>12. \A l \in Locks : heldBy'[l] = IF heldBy[l] = j THEN None ELSE heldBy[l]
  BY <1>2
<1>13. LocksAreHeld'
  <2>1. \A k \in Jobs : Holds(k) => LocksOf[job[k].entry] \subseteq Locks
    BY StudioAssumption DEF Holds, StudioInv, Shapes, Job
  <2> QED BY <1>11, <1>12, <2>1 DEF StudioInv, LocksAreHeld
<1>14. LocksAreGivenBack'
  BY <1>11, <1>12, StudioAssumption DEF StudioInv, LocksAreGivenBack
<1> QED BY <1>1, <1>8, <1>9, <1>10, <1>13, <1>14 DEF StudioInv

\* Routes that read the plan, or change rows nobody works on.
LEMMA QuietRouteKeepsInv ==
  ASSUME StudioInv, TypeOK',
         \/ \E kind \in known, after \in Ids \cup {None} : EnqueueBegins(kind, after)
         \/ \E e \in Ids : EnqueueEnds(e) \/ ChangePlan(e) \/ RemoveRoute(e)
         \/ Answer \/ RepairStorage
  PROVE  StudioInv'
<1>1. ASSUME NEW kind \in known, NEW after \in Ids \cup {None}, EnqueueBegins(kind, after)
      PROVE  StudioInv'
  <2>1. HolderKnows' /\ holder.op = "idle"
    BY <1>1, NoCall DEF EnqueueBegins, HolderKnows, Idle
  <2> QED BY <1>1, <2>1, NoCall, GoingOn DEF EnqueueBegins
<1>2. ASSUME RowsStay, phase' = phase, phase = "serving",
             UNCHANGED <<tracked, unsaved, job, heldBy>>,
             holder.op # "start", holder'.op \in {"idle", "answer"}
      PROVE  StudioInv'
  <2>1. HolderKnows'
    BY <1>2 DEF HolderKnows
  <2> QED BY <1>2, <2>1, GoingOn
<1>3. ASSUME NEW e \in Ids, EnqueueEnds(e)
      PROVE  StudioInv'
  <2>1. /\ holder.op = "enqueue" /\ phase = "serving" /\ UNCHANGED <<tracked, unsaved, job, heldBy>>
        /\ holder'.op \in {"idle", "answer"}
    BY <1>3 DEF EnqueueEnds, StudioInv, HolderKnows, Idle, Answering
  <2>2. CASE UNCHANGED vars
    BY <1>2, <2>1, <2>2, NoCall
  <2>3. CASE Enqueue(e, holder.kind, holder.after)
    <3>1. holder.kind \in Kinds /\ holder.after \in Ids \cup {None}
      BY <2>1, <2>3, QueueAssumption DEF StudioInv, HolderKnows, Enqueue, TypeOK
    <3>2. RowsStay /\ phase' = phase
      BY <2>3, <3>1, QuietCalls DEF StudioInv
    <3> QED BY <1>2, <2>1, <3>2
  <2> QED BY <1>3, <2>2, <2>3 DEF EnqueueEnds
<1>4. ASSUME NEW e \in Ids, ChangePlan(e)
      PROVE  StudioInv'
  <2>1. RowsStay /\ phase' = phase /\ phase = "serving"
    BY <1>4, QuietCalls DEF ChangePlan, StudioInv
  <2>2. /\ UNCHANGED <<tracked, unsaved, job, heldBy>>
        /\ holder.op = "idle" /\ holder'.op \in {"idle", "answer"}
    BY <1>4 DEF ChangePlan, Idle, Answering
  <2> QED BY <1>2, <2>1, <2>2
<1>5. ASSUME NEW e \in Ids, RemoveRoute(e)
      PROVE  StudioInv'
  <2>1. RowsStay /\ UNCHANGED <<phase, holder, tracked, unsaved, job, heldBy>>
    BY <1>5, QuietCalls DEF RemoveRoute, StudioInv
  <2>2. HolderKnows'
    BY <2>1, HolderStays
  <2> QED BY <2>1, <2>2, GoingOn
<1>6. CASE Answer
  <2>1. holder.op = "answer" /\ holder # Idle /\ holder' = Idle
    BY <1>6 DEF Answer, Idle
  <2>2. phase = "serving" /\ holder'.op = "idle"
    BY <2>1 DEF StudioInv, HolderKnows, Idle
  <2> QED BY <1>2, <1>6, <2>2, NoCall DEF Answer
<1>7. CASE RepairStorage
  <2>1. RowsStay /\ UNCHANGED <<phase, holder, tracked, unsaved, job, heldBy>>
    BY <1>7 DEF RepairStorage, ResumeStorage, RowsStay, RunningRows, StoppingRows
  <2>2. HolderKnows'
    BY <2>1, HolderStays
  <2> QED BY <2>1, <2>2, GoingOn
<1> QED BY <1>1, <1>3, <1>4, <1>5, <1>6, <1>7

\* The job is told first ...
LEMMA StopBeginsKeepsInv ==
  ASSUME StudioInv, NEW e \in Ids, StopBegins(e) PROVE StudioInv'
<1>1. TypeOK' /\ RowsStay /\ UNCHANGED <<phase, tracked, unsaved, heldBy>>
  BY NoCall DEF StopBegins
<1>2. /\ phase = "serving" /\ holder = Idle /\ tracked[e] \in Jobs
      /\ holder' = [op |-> "stop", entry |-> e]
      /\ job' = [job EXCEPT ![tracked[e]].stop = TRUE]
      /\ job[tracked[e]] \in Job
  BY DEF StopBegins, CanStop, StudioInv, JobsAreTracked, Shapes
<1> DEFINE told == [job[tracked[e]] EXCEPT !.stop = TRUE]
<1>3. /\ told \in Job /\ told.stop /\ told.entry = job[tracked[e]].entry
      /\ told.status = job[tracked[e]].status /\ told.at = job[tracked[e]].at
  BY <1>2 DEF Job
<1> HIDE DEF told
<1>4. told # NoJob
  BY <1>3, StudioAssumption
<1>5. \A k \in Jobs : job'[k] = IF k = tracked[e] THEN told ELSE job[k]
  BY <1>2 DEF StudioInv, Shapes, told
<1>6. Shapes'
  BY <1>1, <1>2, <1>3 DEF StudioInv, Shapes, told
<1>7. \A k \in Jobs : job[k] # NoJob =>
        /\ job'[k] # NoJob
        /\ job'[k].entry = job[k].entry
        /\ job'[k].status = job[k].status
        /\ job'[k].at = job[k].at
        /\ job[k].stop => job'[k].stop
  BY <1>3, <1>4, <1>5
<1>8. \A k \in Jobs : job[k] = NoJob => job'[k] = NoJob
  BY <1>2, <1>5, StudioAssumption
<1>9. HolderKnows'
  BY <1>1, <1>2, <1>3, <1>5 DEF HolderKnows
<1>10. OnlyServingWorks' /\ TrackedRows' /\ ActiveIsTracked'
  <2>1. OnlyServingWorks' /\ TrackedRows'
    BY <1>1, <1>2 DEF StudioInv, OnlyServingWorks, TrackedRows, ActiveRows, RowsStay
  <2>2. holder.op = "idle"
    BY <1>2 DEF Idle
  <2>3. ActiveIsTracked'
    BY <1>1, <2>2 DEF StudioInv, ActiveIsTracked, ActiveRows, RowsStay
  <2> QED BY <2>1, <2>3
<1>11. JobsAreTracked'
  <2>1. \A k \in Jobs : Working(k)' => Working(k)
    BY <1>7, <1>8 DEF Working
  <2> QED BY <1>1, <1>7, <2>1 DEF StudioInv, JobsAreTracked, Working
<1>12. StoppingWasTold'
  <2>1. \A f \in StoppingRows : f \in Ids
    BY RowsAreIds
  <2> QED BY <1>1, <1>7, <2>1 DEF StudioInv, StoppingWasTold, RowsStay, JobsAreTracked
<1>13. \A k \in Jobs :
        (Holds(k)' <=> Holds(k)) /\ (Holds(k) => job'[k].entry = job[k].entry)
  BY <1>7, <1>8 DEF Holds
<1>14. LocksAreHeld' /\ LocksAreGivenBack'
  BY <1>1, <1>13 DEF StudioInv, LocksAreHeld, LocksAreGivenBack
<1> QED BY <1>1, <1>6, <1>9, <1>10, <1>11, <1>12, <1>14 DEF StudioInv

\* ... so when the row says so, it has been.
LEMMA StopEndsKeepsInv ==
  ASSUME StudioInv, TypeOK', StopEnds PROVE StudioInv'
<1>1. /\ holder.op = "stop" /\ holder.entry \in Ids /\ tracked[holder.entry] \in Jobs
      /\ job[tracked[holder.entry]].stop /\ holder' = Idle
      /\ UNCHANGED <<tracked, unsaved, job, heldBy>>
  BY DEF StopEnds, StudioInv, HolderKnows
<1>2. HolderKnows'
  BY <1>1 DEF HolderKnows, Idle
<1>3. CASE RowsStay /\ UNCHANGED phase
  BY <1>1, <1>2, <1>3, GoingOn
<1>4. CASE UNCHANGED vars
  BY <1>3, <1>4, NoCall
<1>5. CASE MarkStopping(holder.entry)
  <2>1. UNCHANGED phase
    BY <1>1, <1>5, MarkStoppingRows DEF StudioInv
  <2>2. CASE entries' = entries
    BY <1>3, <2>1, <2>2 DEF RowsStay, RunningRows, StoppingRows
  <2>3. CASE entries' # entries
    <3>1. /\ RunningRows' = RunningRows \ {holder.entry}
          /\ StoppingRows' = StoppingRows \cup {holder.entry}
          /\ holder.entry \in RunningRows
      BY <1>1, <1>5, <2>3, MarkStoppingRows DEF StudioInv
    <3>2. Shapes' /\ OnlyServingWorks' /\ JobsAreTracked'
      BY <1>1, <2>1 DEF StudioInv, Shapes, OnlyServingWorks, JobsAreTracked, Working
    <3>3. TrackedRows' /\ ActiveIsTracked' /\ StoppingWasTold'
      BY <1>1, <2>1, <3>1, StudioAssumption
      DEF StudioInv, TrackedRows, ActiveIsTracked, StoppingWasTold, ActiveRows
    <3> QED BY <1>1, <1>2, <3>2, <3>3, LocksStay DEF StudioInv
  <2> QED BY <2>2, <2>3
<1> QED BY <1>4, <1>5 DEF StopEnds

\* Other processes take what is free and give back what is theirs.
LEMMA OutsideKeepsInv ==
  ASSUME StudioInv, NEW l \in Locks, OutsideTakes(l) \/ OutsideLeaves(l)
  PROVE  StudioInv'
<1>1. TypeOK' /\ RowsStay /\ UNCHANGED <<phase, holder, tracked, unsaved, job>>
  BY NoCall DEF OutsideTakes, OutsideLeaves
<1>2. HolderKnows'
  BY <1>1, HolderStays
<1>3. /\ heldBy[l] \notin Jobs /\ heldBy'[l] \in {None, Outside}
      /\ \A m \in Locks \ {l} : heldBy'[m] = heldBy[m]
      /\ Shapes'
  BY StudioAssumption DEF OutsideTakes, OutsideLeaves, StudioInv, Shapes
<1>4. OnlyServingWorks' /\ JobsAreTracked'
  BY <1>1 DEF StudioInv, OnlyServingWorks, JobsAreTracked, Working
<1>5. TrackedRows' /\ ActiveIsTracked' /\ StoppingWasTold'
  BY <1>1 DEF StudioInv, TrackedRows, ActiveIsTracked, StoppingWasTold, ActiveRows, RowsStay
<1>6. LocksAreHeld' /\ LocksAreGivenBack'
  <2>1. \A k \in Jobs : Holds(k) => LocksOf[job[k].entry] \subseteq Locks
    BY StudioAssumption DEF Holds, StudioInv, Shapes, Job
  <2>2. LocksAreHeld'
    BY <1>1, <1>3, <2>1 DEF StudioInv, LocksAreHeld, Holds
  <2>3. LocksAreGivenBack'
    BY <1>1, <1>3, StudioAssumption DEF StudioInv, LocksAreGivenBack, Holds
  <2> QED BY <2>2, <2>3
<1> QED BY <1>1, <1>2, <1>3, <1>4, <1>5, <1>6 DEF StudioInv

\* A later start interrupts only what has no work; the first one finds none.
LEMMA StartWorkerKeepsInv ==
  ASSUME StudioInv, TypeOK', StartWorker PROVE StudioInv'
<1> DEFINE mine == {e \in Ids : tracked[e] # None} \cup unsaved
<1>1. /\ holder = Idle /\ Recover(mine) /\ UNCHANGED <<holder, tracked, unsaved, job, heldBy>>
  BY DEF StartWorker
<1>2. holder.op = "idle"
  BY <1>1 DEF Idle
<1>3. CASE UNCHANGED <<entries, phase>>
  <2>1. RowsStay
    BY <1>3 DEF RowsStay, RunningRows, StoppingRows, InPlan
  <2>2. HolderKnows'
    BY <1>1, <1>3, <2>1, HolderStays
  <2> QED BY <1>1, <1>3, <2>1, <2>2, GoingOn
<1>4. CASE phase' = "serving" /\ RunningRows' = RunningRows \cap mine /\ StoppingRows' = StoppingRows \cap mine
  <2>1. HolderKnows'
    BY <1>1, <1>4 DEF HolderKnows, Idle
  <2>2. Shapes' /\ OnlyServingWorks' /\ JobsAreTracked'
    BY <1>1, <1>4 DEF StudioInv, Shapes, OnlyServingWorks, JobsAreTracked, Working
  <2>3. TrackedRows' /\ ActiveIsTracked'
    BY <1>1, <1>4 DEF StudioInv, TrackedRows, ActiveIsTracked, ActiveRows
  <2>4. StoppingWasTold'
    <3>1. ASSUME NEW e \in StoppingRows'
          PROVE  tracked[e] \in Jobs /\ job[tracked[e]].stop
      <4>1. e \in StoppingRows /\ e \in mine /\ e \in Ids /\ e \notin RunningRows
        BY <1>4, <3>1, RowsAreIds
      <4>2. tracked[e] # None
        BY <4>1 DEF StudioInv, TrackedRows
      <4>3. phase = "serving"
        BY <4>1, <4>2 DEF StudioInv, OnlyServingWorks
      <4> QED BY <4>1, <4>3 DEF StudioInv, StoppingWasTold
    <3> QED BY <1>1, <3>1 DEF StoppingWasTold
  <2> QED BY <1>1, <2>1, <2>2, <2>3, <2>4, LocksStay DEF StudioInv
<1> QED BY <1>1, <1>3, <1>4, RecoverRows DEF StudioInv

\* With the process end its threads, its locks and what it remembers.
LEMMA StudioEndsKeepsInv ==
  ASSUME StudioInv, TypeOK', StudioEnds PROVE StudioInv'
<1>1. /\ phase' = "down" /\ RunningRows' = {} /\ StoppingRows' = {}
      /\ holder' = Idle /\ unsaved' = {}
      /\ tracked' = [e \in Ids |-> None] /\ job' = [j \in Jobs |-> NoJob]
      /\ heldBy' = [l \in Locks |-> IF heldBy[l] \in Jobs THEN None ELSE heldBy[l]]
  BY DEF StudioEnds, Crash, EmptyEntries, RunningRows, StoppingRows, InPlan
<1>2. HolderKnows'
  BY <1>1 DEF HolderKnows, Idle
<1>3. Shapes' /\ OnlyServingWorks'
  BY <1>1 DEF StudioInv, Shapes, OnlyServingWorks
<1>4. TrackedRows' /\ ActiveIsTracked' /\ StoppingWasTold'
  BY <1>1 DEF TrackedRows, ActiveIsTracked, StoppingWasTold, ActiveRows
<1>5. JobsAreTracked' /\ LocksAreHeld' /\ LocksAreGivenBack'
  BY <1>1, StudioAssumption DEF JobsAreTracked, Working, LocksAreHeld, LocksAreGivenBack, Holds
<1> QED BY <1>2, <1>3, <1>4, <1>5 DEF StudioInv

\* What the next process loads, nobody works on yet.
LEMMA StudioLoadsKeepsInv ==
  ASSUME StudioInv, TypeOK', StudioLoads PROVE StudioInv'
<1>1. /\ phase = "down" /\ phase' = "loaded"
      /\ UNCHANGED <<holder, tracked, unsaved, job, heldBy>>
  BY DEF StudioLoads, LoadPlan
<1>2. HolderKnows' /\ Shapes' /\ OnlyServingWorks'
  BY <1>1 DEF StudioInv, HolderKnows, Shapes, OnlyServingWorks, Idle
<1>3. TrackedRows' /\ ActiveIsTracked' /\ StoppingWasTold'
  BY <1>1 DEF StudioInv, OnlyServingWorks, TrackedRows, ActiveIsTracked, StoppingWasTold
<1>4. JobsAreTracked'
  BY <1>1 DEF StudioInv, JobsAreTracked, Working
<1> QED BY <1>1, <1>2, <1>3, <1>4, LocksStay DEF StudioInv

----------------------------------------------------------------------------
(* The theorems *)

\* A studio starts with nothing to do.
LEMMA StudioInitInv == StudioInit => StudioInv
<1> SUFFICES ASSUME StudioInit PROVE StudioInv
  OBVIOUS
<1>1. TypeOK /\ RunningRows = {} /\ StoppingRows = {}
  BY InitTypeOK DEF StudioInit, Init, EmptyEntries, RunningRows, StoppingRows, InPlan
<1>2. HolderKnows /\ Shapes /\ OnlyServingWorks
  BY DEF StudioInit, HolderKnows, Idle, Shapes, OnlyServingWorks
<1>3. TrackedRows /\ ActiveIsTracked /\ StoppingWasTold
  BY <1>1 DEF StudioInit, TrackedRows, ActiveIsTracked, StoppingWasTold, ActiveRows
<1>4. JobsAreTracked /\ LocksAreHeld /\ LocksAreGivenBack
  BY StudioAssumption
  DEF StudioInit, JobsAreTracked, Working, LocksAreHeld, LocksAreGivenBack, Holds
<1> QED BY <1>1, <1>2, <1>3, <1>4 DEF StudioInv

\* Whoever takes the next step keeps the invariant.
LEMMA StudioStepKeepsInv ==
  ASSUME StudioInv, [StudioNext]_studioVars
  PROVE  StudioInv'
<1>1. TypeOK'
  BY StudioStepIsQueueCall, StepTypeOK DEF StudioInv
<1>2. CASE WorkerStep
  BY <1>1, <1>2, PassBeginsKeepsInv, ReapEndsKeepsInv, ClaimKeepsInv, DeferClaimedKeepsInv,
     FailClaimedKeepsInv, TellJobKeepsInv, ReapDeferredKeepsInv, ReapRunningKeepsInv, ReapKeepsInv,
     StartThreadKeepsInv
  DEF WorkerStep
<1>3. CASE JobStep
  BY <1>1, <1>3, ReportKeepsInv, ThreadEndsKeepsInv, FinishKeepsInv DEF JobStep
<1>4. CASE RouteStep
  BY <1>1, <1>4, QuietRouteKeepsInv, StopBeginsKeepsInv, StopEndsKeepsInv DEF RouteStep
<1>5. CASE \E l \in Locks : OutsideTakes(l) \/ OutsideLeaves(l)
  BY <1>5, OutsideKeepsInv
<1>6. CASE StartWorker \/ StudioEnds \/ StudioLoads
  BY <1>1, <1>6, StartWorkerKeepsInv, StudioEndsKeepsInv, StudioLoadsKeepsInv
<1>7. CASE UNCHANGED studioVars
  <2>1. UNCHANGED vars /\ UNCHANGED <<holder, tracked, unsaved, job, heldBy>>
    BY <1>7 DEF studioVars
  <2>2. RowsStay /\ UNCHANGED phase
    BY <2>1, NoCall
  <2>3. HolderKnows'
    BY <2>1, <2>2, HolderStays
  <2> QED BY <1>1, <2>1, <2>2, <2>3, GoingOn
<1> QED BY <1>2, <1>3, <1>4, <1>5, <1>6, <1>7 DEF StudioNext

\* The inductive invariant holds of every behaviour of the studio.
THEOREM StudioInvariantHolds == StudioSpec => []StudioInv
BY StudioInitInv, StudioStepKeepsInv, PTL DEF StudioSpec

\* The studio's plan is well-formed, and what it keeps beside it has its type.
THEOREM StudioTypeCorrect == StudioSpec => []StudioTypeOK
<1>1. StudioInv => StudioTypeOK
  BY DEF StudioInv, StudioTypeOK, TypeOK, Shapes, HolderKnows
<1> QED BY <1>1, StudioInvariantHolds, PTL

\* A thread never works unseen, and no entry has two.
THEOREM ThreadsAlwaysHaveTheirRow == StudioSpec => []EveryThreadHasItsRow
<1>1. StudioInv => EveryThreadHasItsRow
  <2> SUFFICES ASSUME StudioInv, NEW j \in Jobs, Working(j)
               PROVE  LET e == job[j].entry
                      IN tracked[e] = j /\ e \in InPlan(entries) /\ entries[e].state \in ActiveStates
    BY DEF EveryThreadHasItsRow
  <2>1. tracked[job[j].entry] = j /\ job[j].entry \in Ids
    BY DEF StudioInv, JobsAreTracked, Working, Shapes, Job
  <2>2. job[j].entry \in ActiveRows
    BY <2>1, StudioAssumption DEF StudioInv, TrackedRows
  <2> QED BY <2>1, <2>2 DEF ActiveRows, RunningRows, StoppingRows, ActiveStates
<1> QED BY <1>1, StudioInvariantHolds, PTL

\* Between passes, no row is active that the worker will not come back to.
THEOREM ActiveRowsAreAlwaysTracked == StudioSpec => []EveryActiveRowIsTracked
<1>1. StudioInv => EveryActiveRowIsTracked
  BY DEF StudioInv, ActiveIsTracked, EveryActiveRowIsTracked, ActiveRows, RunningRows, StoppingRows,
         ActiveStates, Idle
<1> QED BY <1>1, StudioInvariantHolds, PTL

\* A row never says "stopping" of work that was not told to stop.
THEOREM StoppingWorkWasAlwaysTold == StudioSpec => []StoppingWorkWasTold
<1>1. StudioInv => StoppingWorkWasTold
  BY DEF StudioInv, StoppingWasTold, StoppingWorkWasTold, StoppingRows
<1> QED BY <1>1, StudioInvariantHolds, PTL

\* Two threads that work at the same time need no lock in common.
LocksSeparateWork ==
  \A j, k \in Jobs : Working(j) /\ Working(k) /\ j # k =>
    LocksOf[job[j].entry] \cap LocksOf[job[k].entry] = {}

\* What one thread has taken, another's starter refuses until its finally.
THEOREM LocksAlwaysSeparateWork == StudioSpec => []LocksSeparateWork
<1>1. StudioInv => LocksSeparateWork
  BY DEF StudioInv, LocksSeparateWork, LocksAreHeld, Holds, Working
<1> QED BY <1>1, StudioInvariantHolds, PTL

\* No thread leaves a lock behind, however it ends: one that is held by a job
\* is held by a thread whose finally is still to come.
THEOREM LocksAreAlwaysGivenBack == StudioSpec => []LocksAreGivenBack
BY StudioInvariantHolds, PTL DEF StudioInv

----------------------------------------------------------------------------
(* The studio implements the queue, so what the queue promises whoever calls *)
(* it is true of the studio's plan.                                          *)

\* Every step of worker, threads, routes and restarts is a call of the queue
\* or leaves the plan alone.
THEOREM StudioImplementsQueue == StudioSpec => Spec
<1>1. StudioInit => Init
  BY DEF StudioInit
<1>2. StudioInv /\ [StudioNext]_studioVars => [Next]_vars
  BY StudioStepIsQueueCall
<1> QED BY <1>1, <1>2, StudioInvariantHolds, PTL DEF StudioSpec, Spec

\* A restart of the studio finds the plan the studio answered from.
THEOREM StudioMemoryIsOnDisk == StudioSpec => []MemoryIsOnDisk
BY StudioImplementsQueue, MemoryIsAlwaysOnDisk

\* The studio starts no thread for an entry whose prerequisite is not done,
\* and lets none become undone, even if the DELETE route took a prerequisite
\* away between the look and the enqueue of another route.
THEOREM StudioStartsOnlySatisfiedWork == StudioSpec => []OnlySatisfiedWorkStarts
BY StudioImplementsQueue, OnlySatisfiedWorkEverStarts

\* Once a row and what it waits on are both in the plan, no route, pass,
\* retention or restart of the studio takes the other one out.
THEOREM StudioKeepsPrerequisites == StudioSpec => PrerequisitesAreKept
BY StudioImplementsQueue, PrerequisitesAreAlwaysKept

\* What a row says is of its own run, whichever thread reported last.
THEOREM StudioRowsDescribeTheirOwnRun == StudioSpec => []RowsDescribeTheirOwnRun
BY StudioImplementsQueue, RowsAlwaysDescribeTheirOwnRun

\* No thread, route or restart of the studio takes a success back.
THEOREM StudioKeepsDone == StudioSpec => DoneIsFinal
BY StudioImplementsQueue, DoneStaysFinal

\* The worker's passes never put more threads on a pool than its limit.
THEOREM StudioBoundsPools == StudioSpec => PoolsNeverOversubscribed
BY StudioImplementsQueue, PoolsAreNeverOversubscribed
=============================================================================
