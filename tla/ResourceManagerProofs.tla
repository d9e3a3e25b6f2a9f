----------------------- MODULE ResourceManagerProofs -----------------------
(***************************************************************************)
(* Proofs about ResourceManager, for any number of goroutines, problems    *)
(* and resources.                                                          *)
(*                                                                         *)
(* LockInv (type correctness, mutual exclusion, the exact lock count and   *)
(* the presence of held entries) is inductive by itself, with all faults.  *)
(* IndexInv rests on it.  FileInv rests on both and needs a run without    *)
(* faults and a directory of the process's own.  LockInv and FileInv       *)
(* together give the refinement of ProblemCache.                           *)
(***************************************************************************)
EXTENDS ResourceManager, TLAPS, FiniteSetTheorems

-----------------------------------------------------------------------------
(* How the set of holders of a problem changes. *)

(* The holders of a problem are finitely many, so that they can be counted. *)
LEMMA HoldersFinite ==
    ASSUME NEW p
    PROVE  IsFiniteSet(Holders(p)) /\ Cardinality(Holders(p)) \in Nat
<1>1. Holders(p) \subseteq Workers
    BY DEF Holders
<1> QED
    BY <1>1, ConstantsAssumption, FS_Subset, FS_CardinalityType DEF ConstantsAssumption

(* A step that lets no worker take or give up a problem keeps the holders. *)
LEMMA HoldersKept ==
    ASSUME \A v \in Workers : Locking(v)' = Locking(v),
           \A v \in Workers : Locking(v) => key'[v] = key[v],
           NEW p
    PROVE  Holders(p)' = Holders(p)
BY DEF Holders

(* A worker that gets hold of problem q is one more of its holders. *)
LEMMA HolderAdded ==
    ASSUME NEW w \in Workers, NEW q, ~Locking(w), Locking(w)', key'[w] = q,
           \A v \in Workers \ {w} : Locking(v)' = Locking(v) /\ key'[v] = key[v],
           NEW p
    PROVE  Cardinality(Holders(p)') =
               IF p = q THEN Cardinality(Holders(p)) + 1 ELSE Cardinality(Holders(p))
<1>1. CASE p = q
    <2>1. Holders(p)' = Holders(p) \cup {w}
        BY <1>1 DEF Holders
    <2>2. w \notin Holders(p)
        BY DEF Holders
    <2>3. IsFiniteSet(Holders(p))
        BY HoldersFinite
    <2>4. Cardinality(Holders(p) \cup {w}) = Cardinality(Holders(p)) + 1
        BY <2>2, <2>3, FS_AddElement
    <2> QED
        BY <1>1, <2>1, <2>4
<1>2. CASE p # q
    <2>1. Holders(p)' = Holders(p)
        BY <1>2 DEF Holders
    <2> QED
        BY <1>2, <2>1
<1> QED
    BY <1>1, <1>2

(* A worker that unlocks problem q is one less of its holders. *)
LEMMA HolderRemoved ==
    ASSUME NEW w \in Workers, NEW q, Locking(w), ~Locking(w)', key[w] = q,
           \A v \in Workers \ {w} : Locking(v)' = Locking(v) /\ key'[v] = key[v],
           NEW p
    PROVE  Cardinality(Holders(p)') =
               IF p = q THEN Cardinality(Holders(p)) - 1 ELSE Cardinality(Holders(p))
<1>1. CASE p = q
    <2>1. Holders(p)' = Holders(p) \ {w}
        BY <1>1 DEF Holders
    <2>2. w \in Holders(p)
        BY <1>1 DEF Holders
    <2>3. IsFiniteSet(Holders(p))
        BY HoldersFinite
    <2>4. Cardinality(Holders(p) \ {w}) = Cardinality(Holders(p)) - 1
        BY <2>2, <2>3, FS_RemoveElement
    <2> QED
        BY <1>1, <2>1, <2>4
<1>2. CASE p # q
    <2>1. Holders(p)' = Holders(p)
        BY <1>2 DEF Holders
    <2> QED
        BY <1>2, <2>1
<1> QED
    BY <1>1, <1>2

(* A count of zero means that nobody holds the problem. *)
LEMMA NoHolders ==
    ASSUME NEW p, Cardinality(Holders(p)) <= 0
    PROVE  \A w \in Workers : ~(Locking(w) /\ key[w] = p)
<1>1. Cardinality(Holders(p)) = 0
    BY HoldersFinite
<1>2. Holders(p) = {}
    BY <1>1, HoldersFinite, FS_EmptySet
<1> QED
    BY <1>2 DEF Holders

-----------------------------------------------------------------------------
(* LockInv *)

LEMMA LockInvInit == Init => LockInv
<1> SUFFICES ASSUME Init PROVE LockInv
    OBVIOUS
<1>1. TypeOK
    BY ConstantsAssumption
    DEF Init, TypeOK, AllAbsent, FileStates, PcStates, ConstantsAssumption
<1>2. MutexDiscipline /\ FetchedKeyNew /\ HeldEntryPresent
    BY ConstantsAssumption
    DEF Init, MutexDiscipline, FetchedKeyNew, HeldEntryPresent, InCall, Locking,
        ConstantsAssumption
<1>3. \A p \in Problems : Holders(p) = {}
    BY DEF Init, Holders, Locking
<1>4. LockCountExact
    BY <1>3, FS_EmptySet DEF Init, LockCountExact
<1> QED
    BY <1>1, <1>2, <1>4 DEF LockInv

(* Writing the state of one file keeps the type of disk. *)
LEMMA SetFileType ==
    ASSUME TypeOK, NEW p \in Problems, NEW k \in Keys[p], NEW state \in FileStates,
           SetFile(p, k, state)
    PROVE  /\ DOMAIN disk' = Problems
           /\ \A q \in Problems : disk'[q] \in [Keys[q] -> FileStates]
<1>1. disk' = [disk EXCEPT ![p] = [disk[p] EXCEPT ![k] = state]]
    BY DEF SetFile
<1>2. [disk[p] EXCEPT ![k] = state] \in [Keys[p] -> FileStates]
    BY DEF TypeOK
<1> QED
    BY <1>1, <1>2 DEF TypeOK

(* LockInv is preserved by every step. *)
LEMMA LockInvNext == LockInv /\ [Next]_vars => LockInv'
<1> SUFFICES ASSUME LockInv, [Next]_vars PROVE LockInv'
    OBVIOUS
<1> USE ConstantsAssumption DEF ConstantsAssumption, LockInv
<1>0. \A p \in Problems : locks[p] = Cardinality(Holders(p))
    BY DEF LockCountExact
<1>1. ASSUME NEW w \in Workers, Call(w) PROVE LockInv'
    <2>1. /\ \A v \in Workers : Locking(v)' = Locking(v)
          /\ \A v \in Workers : Locking(v) => key'[v] = key[v]
        BY <1>1 DEF Call, Goto, cacheVars, indexVars, fileVars, Locking, TypeOK
    <2>2. \A q \in Problems : Holders(q)' = Holders(q)
        BY <2>1, HoldersKept
    <2>3. LockCountExact'
        BY <1>1, <1>0, <2>2
        DEF Call, Goto, cacheVars, indexVars, fileVars, LockCountExact, TypeOK
    <2>4. TypeOK'
        BY <1>1
        DEF Call, Goto, cacheVars, indexVars, fileVars, TypeOK, PcStates,
            FileStates, Requests, Problems
    <2>5. MutexDiscipline'
        BY <1>1
        DEF Call, Goto, cacheVars, indexVars, fileVars, MutexDiscipline, InCall,
            TypeOK
    <2>6. FetchedKeyNew'
        BY <1>1
        DEF Call, Goto, cacheVars, indexVars, fileVars, FetchedKeyNew,
            MutexDiscipline, InCall, TypeOK
    <2>7. HeldEntryPresent'
        BY <1>1
        DEF Call, Goto, cacheVars, indexVars, fileVars, HeldEntryPresent,
            Locking, TypeOK
    <2> QED
        BY <2>3, <2>4, <2>5, <2>6, <2>7
<1>2. ASSUME NEW w \in Workers, LockHit(w) PROVE LockInv'
    <2>1. /\ ~Locking(w) /\ Locking(w)' /\ key'[w] = key[w]
          /\ \A v \in Workers \ {w} : Locking(v)' = Locking(v) /\ key'[v] = key[v]
        BY <1>2 DEF LockHit, Goto, indexVars, fileVars, Locking, TypeOK
    <2>2. \A p \in Problems : Cardinality(Holders(p)') =
              IF p = key[w] THEN Cardinality(Holders(p)) + 1 ELSE Cardinality(Holders(p))
        BY <2>1, HolderAdded
    <2>3. LockCountExact'
        BY <1>2, <1>0, <2>2
        DEF LockHit, Goto, indexVars, fileVars, LockCountExact, TypeOK
    <2>4. TypeOK'
        BY <1>2
        DEF LockHit, Goto, indexVars, fileVars, TypeOK, PcStates, FileStates,
            Requests, Problems
    <2>5. MutexDiscipline'
        BY <1>2 DEF LockHit, Goto, indexVars, fileVars, MutexDiscipline, InCall, TypeOK
    <2>6. FetchedKeyNew'
        BY <1>2
        DEF LockHit, Goto, indexVars, fileVars, FetchedKeyNew, MutexDiscipline,
            InCall, TypeOK
    <2>7. HeldEntryPresent'
        BY <1>2
        DEF LockHit, Goto, indexVars, fileVars, HeldEntryPresent, Locking,
            TypeOK
    <2> QED
        BY <2>3, <2>4, <2>5, <2>6, <2>7
<1>3. ASSUME NEW w \in Workers, LockMiss(w) PROVE LockInv'
    <2>1. /\ \A v \in Workers : Locking(v)' = Locking(v)
          /\ \A v \in Workers : Locking(v) => key'[v] = key[v]
        BY <1>3 DEF LockMiss, Goto, cacheVars, indexVars, fileVars, Locking, TypeOK
    <2>2. \A q \in Problems : Holders(q)' = Holders(q)
        BY <2>1, HoldersKept
    <2>3. LockCountExact'
        BY <1>3, <1>0, <2>2
        DEF LockMiss, Goto, cacheVars, indexVars, fileVars, LockCountExact,
            TypeOK
    <2>4. TypeOK'
        BY <1>3
        DEF LockMiss, Goto, cacheVars, indexVars, fileVars, TypeOK, PcStates,
            FileStates, Requests, Problems
    <2>5. MutexDiscipline'
        BY <1>3
        DEF LockMiss, Goto, cacheVars, indexVars, fileVars, MutexDiscipline,
            InCall, TypeOK
    <2>6. FetchedKeyNew'
        BY <1>3
        DEF LockMiss, Goto, cacheVars, indexVars, fileVars, FetchedKeyNew,
            MutexDiscipline, InCall, TypeOK
    <2>7. HeldEntryPresent'
        BY <1>3
        DEF LockMiss, Goto, cacheVars, indexVars, fileVars, HeldEntryPresent,
            Locking, TypeOK
    <2> QED
        BY <2>3, <2>4, <2>5, <2>6, <2>7
<1>4. ASSUME NEW w \in Workers, ResolveCached(w) PROVE LockInv'
    <2> PICK q \in Answers(key[w]) \cap problems :
              /\ key' = [key EXCEPT ![w] = q]
              /\ locks' = [locks EXCEPT ![q] = @ + 1]
        BY <1>4 DEF ResolveCached
    <2> q \in Problems
        BY DEF Answers
    <2>1. /\ ~Locking(w) /\ Locking(w)' /\ key'[w] = q
          /\ \A v \in Workers \ {w} : Locking(v)' = Locking(v) /\ key'[v] = key[v]
        BY <1>4 DEF ResolveCached, Goto, indexVars, fileVars, Locking, TypeOK
    <2>2. \A p \in Problems : Cardinality(Holders(p)') =
              IF p = q THEN Cardinality(Holders(p)) + 1 ELSE Cardinality(Holders(p))
        BY <2>1, HolderAdded
    <2>3. LockCountExact'
        BY <1>4, <1>0, <2>2
        DEF ResolveCached, Goto, indexVars, fileVars, LockCountExact, TypeOK
    <2>4. TypeOK'
        BY <1>4
        DEF ResolveCached, Goto, indexVars, fileVars, TypeOK, PcStates,
            FileStates, Requests, Problems
    <2>5. MutexDiscipline'
        BY <1>4
        DEF ResolveCached, Goto, indexVars, fileVars, MutexDiscipline, InCall,
            TypeOK
    <2>6. FetchedKeyNew'
        BY <1>4
        DEF ResolveCached, Goto, indexVars, fileVars, FetchedKeyNew,
            MutexDiscipline, InCall, TypeOK
    <2>7. HeldEntryPresent'
        BY <1>4
        DEF ResolveCached, Goto, indexVars, fileVars, HeldEntryPresent, Locking,
            TypeOK
    <2> QED
        BY <2>3, <2>4, <2>5, <2>6, <2>7
<1>5. ASSUME NEW w \in Workers, StartFetch(w) PROVE LockInv'
    <2>1. /\ \A v \in Workers : Locking(v)' = Locking(v)
          /\ \A v \in Workers : Locking(v) => key'[v] = key[v]
        BY <1>5
        DEF StartFetch, Goto, cacheVars, indexVars, fileVars, Answers, Locking,
            TypeOK
    <2>2. \A q \in Problems : Holders(q)' = Holders(q)
        BY <2>1, HoldersKept
    <2>3. LockCountExact'
        BY <1>5, <1>0, <2>2
        DEF StartFetch, Goto, cacheVars, indexVars, fileVars, Answers,
            LockCountExact, TypeOK
    <2>4. TypeOK'
        BY <1>5
        DEF StartFetch, Goto, cacheVars, indexVars, fileVars, Answers, TypeOK,
            PcStates, FileStates, Requests, Problems
    <2>5. MutexDiscipline'
        BY <1>5
        DEF StartFetch, Goto, cacheVars, indexVars, fileVars, Answers,
            MutexDiscipline, InCall, TypeOK
    <2>6. FetchedKeyNew'
        BY <1>5
        DEF StartFetch, Goto, cacheVars, indexVars, fileVars, Answers,
            FetchedKeyNew, MutexDiscipline, InCall, TypeOK
    <2>7. HeldEntryPresent'
        BY <1>5
        DEF StartFetch, Goto, cacheVars, indexVars, fileVars, Answers,
            HeldEntryPresent, Locking, TypeOK
    <2> QED
        BY <2>3, <2>4, <2>5, <2>6, <2>7
<1>6. ASSUME NEW w \in Workers, FetchProblemFails(w) PROVE LockInv'
    <2>1. /\ \A v \in Workers : Locking(v)' = Locking(v)
          /\ \A v \in Workers : Locking(v) => key'[v] = key[v]
        BY <1>6
        DEF FetchProblemFails, Goto, Return, cacheVars, indexVars, fileVars,
            Locking, TypeOK
    <2>2. \A q \in Problems : Holders(q)' = Holders(q)
        BY <2>1, HoldersKept
    <2>3. LockCountExact'
        BY <1>6, <1>0, <2>2
        DEF FetchProblemFails, Goto, Return, cacheVars, indexVars, fileVars,
            LockCountExact, TypeOK
    <2>4. TypeOK'
        BY <1>6
        DEF FetchProblemFails, Goto, Return, cacheVars, indexVars, fileVars,
            TypeOK, PcStates, FileStates, Requests, Problems
    <2>5. MutexDiscipline'
        BY <1>6
        DEF FetchProblemFails, Goto, Return, cacheVars, indexVars, fileVars,
            MutexDiscipline, InCall, TypeOK
    <2>6. FetchedKeyNew'
        BY <1>6
        DEF FetchProblemFails, Goto, Return, cacheVars, indexVars, fileVars,
            FetchedKeyNew, MutexDiscipline, InCall, TypeOK
    <2>7. HeldEntryPresent'
        BY <1>6
        DEF FetchProblemFails, Goto, Return, cacheVars, indexVars, fileVars,
            HeldEntryPresent, Locking, TypeOK
    <2> QED
        BY <2>3, <2>4, <2>5, <2>6, <2>7
<1>7. ASSUME NEW w \in Workers, NEW k \in Resources, SaveBegin(w, k) PROVE LockInv'
    <2>0. /\ key[w] \in Problems
          /\ DOMAIN disk' = Problems
          /\ \A q \in Problems : disk'[q] \in [Keys[q] -> FileStates]
        BY <1>7, SetFileType DEF SaveBegin, FetchedKeyNew, FileStates
    <2>1. /\ \A v \in Workers : Locking(v)' = Locking(v)
          /\ \A v \in Workers : Locking(v) => key'[v] = key[v]
        BY <1>7 DEF SaveBegin, cacheVars, indexVars, Locking, TypeOK
    <2>2. \A q \in Problems : Holders(q)' = Holders(q)
        BY <2>1, HoldersKept
    <2>3. LockCountExact'
        BY <1>7, <1>0, <2>2 DEF SaveBegin, cacheVars, indexVars, LockCountExact, TypeOK
    <2>4. TypeOK'
        BY <1>7, <2>0
        DEF SaveBegin, cacheVars, indexVars, TypeOK, PcStates, FileStates,
            Requests, Problems
    <2>5. MutexDiscipline'
        BY <1>7 DEF SaveBegin, cacheVars, indexVars, MutexDiscipline, InCall, TypeOK
    <2>6. FetchedKeyNew'
        BY <1>7
        DEF SaveBegin, cacheVars, indexVars, FetchedKeyNew, MutexDiscipline,
            InCall, TypeOK
    <2>7. HeldEntryPresent'
        BY <1>7 DEF SaveBegin, cacheVars, indexVars, HeldEntryPresent, Locking, TypeOK
    <2> QED
        BY <2>3, <2>4, <2>5, <2>6, <2>7
<1>8. ASSUME NEW w \in Workers, NEW k \in Resources, SaveEnd(w, k) PROVE LockInv'
    <2>0. /\ key[w] \in Problems
          /\ DOMAIN disk' = Problems
          /\ \A q \in Problems : disk'[q] \in [Keys[q] -> FileStates]
        BY <1>8, SetFileType DEF SaveEnd, FetchedKeyNew, FileStates
    <2>1. /\ \A v \in Workers : Locking(v)' = Locking(v)
          /\ \A v \in Workers : Locking(v) => key'[v] = key[v]
        BY <1>8 DEF SaveEnd, cacheVars, indexVars, Locking, TypeOK
    <2>2. \A q \in Problems : Holders(q)' = Holders(q)
        BY <2>1, HoldersKept
    <2>3. LockCountExact'
        BY <1>8, <1>0, <2>2 DEF SaveEnd, cacheVars, indexVars, LockCountExact, TypeOK
    <2>4. TypeOK'
        BY <1>8, <2>0
        DEF SaveEnd, cacheVars, indexVars, TypeOK, PcStates, FileStates,
            Requests, Problems
    <2>5. MutexDiscipline'
        BY <1>8 DEF SaveEnd, cacheVars, indexVars, MutexDiscipline, InCall, TypeOK
    <2>6. FetchedKeyNew'
        BY <1>8
        DEF SaveEnd, cacheVars, indexVars, FetchedKeyNew, MutexDiscipline,
            InCall, TypeOK
    <2>7. HeldEntryPresent'
        BY <1>8 DEF SaveEnd, cacheVars, indexVars, HeldEntryPresent, Locking, TypeOK
    <2> QED
        BY <2>3, <2>4, <2>5, <2>6, <2>7
<1>9. ASSUME NEW w \in Workers, NEW k \in Resources, SaveRollback(w, k) PROVE LockInv'
    <2>0. /\ key[w] \in Problems
          /\ DOMAIN disk' = Problems
          /\ \A q \in Problems : disk'[q] \in [Keys[q] -> FileStates]
        BY <1>9, SetFileType DEF SaveRollback, FetchedKeyNew, FileStates
    <2>1. /\ \A v \in Workers : Locking(v)' = Locking(v)
          /\ \A v \in Workers : Locking(v) => key'[v] = key[v]
        BY <1>9 DEF SaveRollback, cacheVars, indexVars, Locking, TypeOK
    <2>2. \A q \in Problems : Holders(q)' = Holders(q)
        BY <2>1, HoldersKept
    <2>3. LockCountExact'
        BY <1>9, <1>0, <2>2
        DEF SaveRollback, cacheVars, indexVars, LockCountExact, TypeOK
    <2>4. TypeOK'
        BY <1>9, <2>0
        DEF SaveRollback, cacheVars, indexVars, TypeOK, PcStates, FileStates,
            Requests, Problems
    <2>5. MutexDiscipline'
        BY <1>9 DEF SaveRollback, cacheVars, indexVars, MutexDiscipline, InCall, TypeOK
    <2>6. FetchedKeyNew'
        BY <1>9
        DEF SaveRollback, cacheVars, indexVars, FetchedKeyNew, MutexDiscipline,
            InCall, TypeOK
    <2>7. HeldEntryPresent'
        BY <1>9
        DEF SaveRollback, cacheVars, indexVars, HeldEntryPresent, Locking,
            TypeOK
    <2> QED
        BY <2>3, <2>4, <2>5, <2>6, <2>7
<1>10. ASSUME NEW w \in Workers, FetchResOk(w) PROVE LockInv'
    <2>0. key[w] \in Problems /\ Keys[key[w]] \subseteq Resources
        BY <1>10 DEF FetchResOk, FetchedKeyNew, Resources
    <2>1. /\ \A v \in Workers : Locking(v)' = Locking(v)
          /\ \A v \in Workers : Locking(v) => key'[v] = key[v]
        BY <1>10
        DEF FetchResOk, SubmitResourceKeys, Goto, cacheVars, fileVars, Locking,
            TypeOK
    <2>2. \A q \in Problems : Holders(q)' = Holders(q)
        BY <2>1, HoldersKept
    <2>3. LockCountExact'
        BY <1>10, <1>0, <2>2
        DEF FetchResOk, SubmitResourceKeys, Goto, cacheVars, fileVars,
            LockCountExact, TypeOK
    <2>4. TypeOK'
        BY <1>10, <2>0
        DEF FetchResOk, SubmitResourceKeys, Goto, cacheVars, fileVars, TypeOK,
            PcStates, FileStates, Requests, Problems
    <2>5. MutexDiscipline'
        BY <1>10
        DEF FetchResOk, SubmitResourceKeys, Goto, cacheVars, fileVars,
            MutexDiscipline, InCall, TypeOK
    <2>6. FetchedKeyNew'
        BY <1>10
        DEF FetchResOk, SubmitResourceKeys, Goto, cacheVars, fileVars,
            FetchedKeyNew, MutexDiscipline, InCall, TypeOK
    <2>7. HeldEntryPresent'
        BY <1>10
        DEF FetchResOk, SubmitResourceKeys, Goto, cacheVars, fileVars,
            HeldEntryPresent, Locking, TypeOK
    <2> QED
        BY <2>3, <2>4, <2>5, <2>6, <2>7
<1>11. ASSUME NEW w \in Workers, FetchResFails(w) PROVE LockInv'
    <2>1. /\ \A v \in Workers : Locking(v)' = Locking(v)
          /\ \A v \in Workers : Locking(v) => key'[v] = key[v]
        BY <1>11
        DEF FetchResFails, Goto, Return, cacheVars, indexVars, fileVars,
            Locking, TypeOK
    <2>2. \A q \in Problems : Holders(q)' = Holders(q)
        BY <2>1, HoldersKept
    <2>3. LockCountExact'
        BY <1>11, <1>0, <2>2
        DEF FetchResFails, Goto, Return, cacheVars, indexVars, fileVars,
            LockCountExact, TypeOK
    <2>4. TypeOK'
        BY <1>11
        DEF FetchResFails, Goto, Return, cacheVars, indexVars, fileVars, TypeOK,
            PcStates, FileStates, Requests, Problems
    <2>5. MutexDiscipline'
        BY <1>11
        DEF FetchResFails, Goto, Return, cacheVars, indexVars, fileVars,
            MutexDiscipline, InCall, TypeOK
    <2>6. FetchedKeyNew'
        BY <1>11
        DEF FetchResFails, Goto, Return, cacheVars, indexVars, fileVars,
            FetchedKeyNew, MutexDiscipline, InCall, TypeOK
    <2>7. HeldEntryPresent'
        BY <1>11
        DEF FetchResFails, Goto, Return, cacheVars, indexVars, fileVars,
            HeldEntryPresent, Locking, TypeOK
    <2> QED
        BY <2>3, <2>4, <2>5, <2>6, <2>7
<1>12. ASSUME NEW w \in Workers, Install(w) PROVE LockInv'
    <2>0. key[w] \in Problems \ problems
        BY <1>12 DEF Install, FetchedKeyNew
    <2>a. Holders(key[w]) = {}
        BY <2>0 DEF HeldEntryPresent, Holders
    <2>b. Cardinality(Holders(key[w])) = 0
        BY <2>a, FS_EmptySet
    <2>1. /\ ~Locking(w) /\ Locking(w)' /\ key'[w] = key[w]
          /\ \A v \in Workers \ {w} : Locking(v)' = Locking(v) /\ key'[v] = key[v]
        BY <1>12 DEF Install, Goto, indexVars, fileVars, Locking, TypeOK
    <2>2. \A p \in Problems : Cardinality(Holders(p)') =
              IF p = key[w] THEN Cardinality(Holders(p)) + 1 ELSE Cardinality(Holders(p))
        BY <2>1, HolderAdded
    <2>3. LockCountExact'
        BY <1>12, <1>0, <2>2, <2>0, <2>b
        DEF Install, Goto, indexVars, fileVars, LockCountExact, TypeOK
    <2>4. TypeOK'
        BY <1>12, <2>0
        DEF Install, Goto, indexVars, fileVars, TypeOK, PcStates, FileStates,
            Requests, Problems
    <2>5. MutexDiscipline'
        BY <1>12 DEF Install, Goto, indexVars, fileVars, MutexDiscipline, InCall, TypeOK
    <2>6. FetchedKeyNew'
        BY <1>12, <2>0
        DEF Install, Goto, indexVars, fileVars, FetchedKeyNew, MutexDiscipline,
            InCall, TypeOK
    <2>7. HeldEntryPresent'
        BY <1>12, <2>0
        DEF Install, Goto, indexVars, fileVars, HeldEntryPresent, Locking,
            TypeOK
    <2> QED
        BY <2>3, <2>4, <2>5, <2>6, <2>7
<1>13. ASSUME NEW w \in Workers, UnlockRead(w) PROVE LockInv'
    <2>1. /\ \A v \in Workers : Locking(v)' = Locking(v)
          /\ \A v \in Workers : Locking(v) => key'[v] = key[v]
        BY <1>13 DEF UnlockRead, Goto, cacheVars, indexVars, fileVars, Locking, TypeOK
    <2>2. \A q \in Problems : Holders(q)' = Holders(q)
        BY <2>1, HoldersKept
    <2>3. LockCountExact'
        BY <1>13, <1>0, <2>2
        DEF UnlockRead, Goto, cacheVars, indexVars, fileVars, LockCountExact,
            TypeOK
    <2>4. TypeOK'
        BY <1>13
        DEF UnlockRead, Goto, cacheVars, indexVars, fileVars, TypeOK, PcStates,
            FileStates, Requests, Problems
    <2>5. MutexDiscipline'
        BY <1>13
        DEF UnlockRead, Goto, cacheVars, indexVars, fileVars, MutexDiscipline,
            InCall, TypeOK
    <2>6. FetchedKeyNew'
        BY <1>13
        DEF UnlockRead, Goto, cacheVars, indexVars, fileVars, FetchedKeyNew,
            MutexDiscipline, InCall, TypeOK
    <2>7. HeldEntryPresent'
        BY <1>13
        DEF UnlockRead, Goto, cacheVars, indexVars, fileVars, HeldEntryPresent,
            Locking, TypeOK
    <2> QED
        BY <2>3, <2>4, <2>5, <2>6, <2>7
<1>14. ASSUME NEW w \in Workers, Unlock(w) PROVE LockInv'
    <2>0. key[w] \in problems /\ key[w] \in Problems
        BY <1>14 DEF Unlock, HeldEntryPresent, Locking, TypeOK
    <2>1. /\ Locking(w) /\ ~Locking(w)'
          /\ \A v \in Workers \ {w} : Locking(v)' = Locking(v) /\ key'[v] = key[v]
        BY <1>14 DEF Unlock, Goto, Return, indexVars, fileVars, Locking, TypeOK
    <2>2. \A p \in Problems : Cardinality(Holders(p)') =
              IF p = key[w] THEN Cardinality(Holders(p)) - 1 ELSE Cardinality(Holders(p))
        BY <2>1, HolderRemoved
    <2>3. LockCountExact'
        BY <1>14, <1>0, <2>0, <2>2
        DEF Unlock, Goto, Return, indexVars, fileVars, LockCountExact, TypeOK
    <2>a. \A p \in Problems : Holders(p)' \subseteq Workers
        BY DEF Holders
    <2>b. \A p \in Problems : Cardinality(Holders(p)') \in Nat
        BY <2>a, FS_Subset, FS_CardinalityType
    <2>c. \A p \in Problems : locks'[p] \in Nat
        BY <2>3, <2>b DEF LockCountExact
    <2>4. TypeOK'
        BY <1>14, <2>0, <2>c
        DEF Unlock, Goto, Return, indexVars, fileVars, TypeOK, PcStates,
            FileStates, Requests, Problems
    <2>5. MutexDiscipline'
        BY <1>14
        DEF Unlock, Goto, Return, indexVars, fileVars, MutexDiscipline, InCall,
            TypeOK
    <2>6. FetchedKeyNew'
        BY <1>14
        DEF Unlock, Goto, Return, indexVars, fileVars, FetchedKeyNew,
            MutexDiscipline, InCall, TypeOK
    <2>7. HeldEntryPresent'
        BY <1>14
        DEF Unlock, Goto, Return, indexVars, fileVars, HeldEntryPresent,
            Locking, TypeOK
    <2> QED
        BY <2>3, <2>4, <2>5, <2>6, <2>7
<1>15. CASE EvictBegin
    <2>1. /\ \A v \in Workers : Locking(v)' = Locking(v)
          /\ \A v \in Workers : Locking(v) => key'[v] = key[v]
        BY <1>15 DEF EvictBegin, cacheVars, indexVars, fileVars, Locking, TypeOK
    <2>2. \A q \in Problems : Holders(q)' = Holders(q)
        BY <2>1, HoldersKept
    <2>3. LockCountExact'
        BY <1>15, <1>0, <2>2
        DEF EvictBegin, cacheVars, indexVars, fileVars, LockCountExact, TypeOK
    <2>4. TypeOK'
        BY <1>15
        DEF EvictBegin, cacheVars, indexVars, fileVars, TypeOK, PcStates,
            FileStates, Requests, Problems
    <2>5. MutexDiscipline'
        BY <1>15
        DEF EvictBegin, cacheVars, indexVars, fileVars, MutexDiscipline, InCall,
            TypeOK
    <2>6. FetchedKeyNew'
        BY <1>15
        DEF EvictBegin, cacheVars, indexVars, fileVars, FetchedKeyNew,
            MutexDiscipline, InCall, TypeOK
    <2>7. HeldEntryPresent'
        BY <1>15
        DEF EvictBegin, cacheVars, indexVars, fileVars, HeldEntryPresent,
            Locking, TypeOK
    <2> QED
        BY <2>3, <2>4, <2>5, <2>6, <2>7
<1>16. ASSUME NEW p \in Problems, EvictSkip(p) PROVE LockInv'
    <2>1. /\ \A v \in Workers : Locking(v)' = Locking(v)
          /\ \A v \in Workers : Locking(v) => key'[v] = key[v]
        BY <1>16 DEF EvictSkip, Visit, cacheVars, indexVars, fileVars, Locking, TypeOK
    <2>2. \A q \in Problems : Holders(q)' = Holders(q)
        BY <2>1, HoldersKept
    <2>3. LockCountExact'
        BY <1>16, <1>0, <2>2
        DEF EvictSkip, Visit, cacheVars, indexVars, fileVars, LockCountExact,
            TypeOK
    <2>4. TypeOK'
        BY <1>16
        DEF EvictSkip, Visit, cacheVars, indexVars, fileVars, TypeOK, PcStates,
            FileStates, Requests, Problems
    <2>5. MutexDiscipline'
        BY <1>16
        DEF EvictSkip, Visit, cacheVars, indexVars, fileVars, MutexDiscipline,
            InCall, TypeOK
    <2>6. FetchedKeyNew'
        BY <1>16
        DEF EvictSkip, Visit, cacheVars, indexVars, fileVars, FetchedKeyNew,
            MutexDiscipline, InCall, TypeOK
    <2>7. HeldEntryPresent'
        BY <1>16
        DEF EvictSkip, Visit, cacheVars, indexVars, fileVars, HeldEntryPresent,
            Locking, TypeOK
    <2> QED
        BY <2>3, <2>4, <2>5, <2>6, <2>7
<1>17. ASSUME NEW p \in Problems, EvictProblem(p) PROVE LockInv'
    <2>1. /\ \A v \in Workers : Locking(v)' = Locking(v)
          /\ \A v \in Workers : Locking(v) => key'[v] = key[v]
        BY <1>17 DEF EvictProblem, Visit, Locking, TypeOK
    <2>2. \A q \in Problems : Holders(q)' = Holders(q)
        BY <2>1, HoldersKept
    <2>3. LockCountExact'
        BY <1>17, <1>0, <2>2 DEF EvictProblem, Visit, LockCountExact, TypeOK
    <2>4. TypeOK'
        BY <1>17
        DEF EvictProblem, Visit, TypeOK, PcStates, FileStates, Requests,
            Problems
    <2>5. MutexDiscipline'
        BY <1>17 DEF EvictProblem, Visit, MutexDiscipline, InCall, TypeOK
    <2>6. FetchedKeyNew'
        BY <1>17 DEF EvictProblem, Visit, FetchedKeyNew, MutexDiscipline, InCall, TypeOK
    <2>7. HeldEntryPresent'
        BY <1>17, <1>0, NoHolders
        DEF EvictProblem, Visit, HeldEntryPresent, Locking, TypeOK
    <2> QED
        BY <2>3, <2>4, <2>5, <2>6, <2>7
<1>18. ASSUME NEW p \in Problems, EvictNoDir(p) PROVE LockInv'
    <2>1. /\ \A v \in Workers : Locking(v)' = Locking(v)
          /\ \A v \in Workers : Locking(v) => key'[v] = key[v]
        BY <1>18 DEF EvictNoDir, Visit, cacheVars, indexVars, fileVars, Locking, TypeOK
    <2>2. \A q \in Problems : Holders(q)' = Holders(q)
        BY <2>1, HoldersKept
    <2>3. LockCountExact'
        BY <1>18, <1>0, <2>2
        DEF EvictNoDir, Visit, cacheVars, indexVars, fileVars, LockCountExact,
            TypeOK
    <2>4. TypeOK'
        BY <1>18
        DEF EvictNoDir, Visit, cacheVars, indexVars, fileVars, TypeOK, PcStates,
            FileStates, Requests, Problems
    <2>5. MutexDiscipline'
        BY <1>18
        DEF EvictNoDir, Visit, cacheVars, indexVars, fileVars, MutexDiscipline,
            InCall, TypeOK
    <2>6. FetchedKeyNew'
        BY <1>18
        DEF EvictNoDir, Visit, cacheVars, indexVars, fileVars, FetchedKeyNew,
            MutexDiscipline, InCall, TypeOK
    <2>7. HeldEntryPresent'
        BY <1>18
        DEF EvictNoDir, Visit, cacheVars, indexVars, fileVars, HeldEntryPresent,
            Locking, TypeOK
    <2> QED
        BY <2>3, <2>4, <2>5, <2>6, <2>7
<1>19. ASSUME NEW p \in Problems, EvictFails(p) PROVE LockInv'
    <2>1. /\ \A v \in Workers : Locking(v)' = Locking(v)
          /\ \A v \in Workers : Locking(v) => key'[v] = key[v]
        BY <1>19 DEF EvictFails, Visit, cacheVars, Locking, TypeOK
    <2>2. \A q \in Problems : Holders(q)' = Holders(q)
        BY <2>1, HoldersKept
    <2>3. LockCountExact'
        BY <1>19, <1>0, <2>2 DEF EvictFails, Visit, cacheVars, LockCountExact, TypeOK
    <2>4. TypeOK'
        BY <1>19
        DEF EvictFails, Visit, cacheVars, TypeOK, PcStates, FileStates,
            Requests, Problems
    <2>5. MutexDiscipline'
        BY <1>19 DEF EvictFails, Visit, cacheVars, MutexDiscipline, InCall, TypeOK
    <2>6. FetchedKeyNew'
        BY <1>19
        DEF EvictFails, Visit, cacheVars, FetchedKeyNew, MutexDiscipline,
            InCall, TypeOK
    <2>7. HeldEntryPresent'
        BY <1>19 DEF EvictFails, Visit, cacheVars, HeldEntryPresent, Locking, TypeOK
    <2> QED
        BY <2>3, <2>4, <2>5, <2>6, <2>7
<1>20. CASE EvictEnd
    <2>1. /\ \A v \in Workers : Locking(v)' = Locking(v)
          /\ \A v \in Workers : Locking(v) => key'[v] = key[v]
        BY <1>20 DEF EvictEnd, cacheVars, indexVars, fileVars, Locking, TypeOK
    <2>2. \A q \in Problems : Holders(q)' = Holders(q)
        BY <2>1, HoldersKept
    <2>3. LockCountExact'
        BY <1>20, <1>0, <2>2
        DEF EvictEnd, cacheVars, indexVars, fileVars, LockCountExact, TypeOK
    <2>4. TypeOK'
        BY <1>20
        DEF EvictEnd, cacheVars, indexVars, fileVars, TypeOK, PcStates,
            FileStates, Requests, Problems
    <2>5. MutexDiscipline'
        BY <1>20
        DEF EvictEnd, cacheVars, indexVars, fileVars, MutexDiscipline, InCall,
            TypeOK
    <2>6. FetchedKeyNew'
        BY <1>20
        DEF EvictEnd, cacheVars, indexVars, fileVars, FetchedKeyNew,
            MutexDiscipline, InCall, TypeOK
    <2>7. HeldEntryPresent'
        BY <1>20
        DEF EvictEnd, cacheVars, indexVars, fileVars, HeldEntryPresent, Locking,
            TypeOK
    <2> QED
        BY <2>3, <2>4, <2>5, <2>6, <2>7
<1>21. CASE Restart
    <2>1. TypeOK'
        BY <1>21 DEF Restart, TypeOK, PcStates, FileStates, AllAbsent, Truncated
    <2>2. MutexDiscipline' /\ FetchedKeyNew' /\ HeldEntryPresent'
        BY <1>21
        DEF Restart, MutexDiscipline, FetchedKeyNew, HeldEntryPresent, InCall,
            Locking
    <2>3. \A p \in Problems : Holders(p)' = {}
        BY <1>21 DEF Restart, Holders, Locking
    <2>4. LockCountExact'
        BY <1>21, <2>3, FS_EmptySet DEF Restart, LockCountExact
    <2> QED
        BY <2>1, <2>2, <2>4
<1>22. CASE UNCHANGED vars
    BY <1>22
    DEF vars, cacheVars, indexVars, fileVars, TypeOK, MutexDiscipline,
        FetchedKeyNew,
       LockCountExact, HeldEntryPresent, InCall, Locking, Holders
<1> QED
    BY <1>1, <1>2, <1>3, <1>4, <1>5, <1>6, <1>7, <1>8, <1>9, <1>10, <1>11, <1>12,
       <1>13, <1>14, <1>15, <1>16, <1>17, <1>18, <1>19, <1>20, <1>21, <1>22
    DEF Next, WorkerStep, EvictorStep, Crash, MapThrow

-----------------------------------------------------------------------------
(* The lock discipline as theorems. *)

LEMMA LockInvHolds == Spec => []LockInv
BY LockInvInit, LockInvNext, PTL DEF Spec

(* The variables keep their types; in particular no lock count is ever     *)
(* negative, however calls and unlocks interleave (manager.go:284, 294).   *)
THEOREM TypeCorrect == Spec => []TypeOK
<1>1. LockInv => TypeOK
    BY DEF LockInv
<1> QED
    BY <1>1, LockInvHolds, PTL

(* The lock count of a problem is the number of submissions that hold it   *)
(* (PrepareThenLock, unlock and evictAll of manager.go).                   *)
THEOREM LockCountCorrect == Spec => []LockCountExact
<1>1. LockInv => LockCountExact
    BY DEF LockInv
<1> QED
    BY <1>1, LockInvHolds, PTL

(* evictAll never takes away a held problem: the entry that the closure of *)
(* PrepareThenLock dereferences is there (manager.go:287).                 *)
THEOREM HeldEntryCorrect == Spec => []HeldEntryPresent
<1>1. LockInv => HeldEntryPresent
    BY DEF LockInv
<1> QED
    BY <1>1, LockInvHolds, PTL

(* At most one call downloads, and nothing that is cached already.         *)
THEOREM SingleFetchCorrect == Spec => []SingleFetch
<1>1. LockInv => SingleFetch
    BY DEF LockInv, SingleFetch, MutexDiscipline, FetchedKeyNew, InCall
<1> QED
    BY <1>1, LockInvHolds, PTL

(* A worker that keeps a problem over a step keeps its files: downloads go *)
(* to other problems, eviction passes held problems over, and a restart    *)
(* ends every hold.                                                        *)
LEMMA HeldFilesStep ==
    ASSUME LockInv, [Next]_vars, NEW w \in Workers,
           Locking(w), Locking(w)', key'[w] = key[w]
    PROVE  disk'[key[w]] = disk[key[w]]
<1> USE DEF LockInv
<1>1. key[w] \in problems /\ key[w] \in Problems
    BY DEF HeldEntryPresent, TypeOK
<1>2. \A p \in Problems : locks[p] <= 0 => p # key[w]
    <2> SUFFICES ASSUME NEW p \in Problems, locks[p] <= 0 PROVE p # key[w]
        OBVIOUS
    <2>1. Cardinality(Holders(p)) <= 0
        BY DEF LockCountExact
    <2> QED
        BY <2>1, NoHolders
<1>3. ASSUME NEW v \in Workers, NEW k \in Resources,
             SaveBegin(v, k) \/ SaveEnd(v, k) \/ SaveRollback(v, k)
      PROVE  disk'[key[w]] = disk[key[w]]
    <2>1. key[v] # key[w]
        BY <1>1, <1>3 DEF FetchedKeyNew, SaveBegin, SaveEnd, SaveRollback
    <2> QED
        BY <1>1, <1>3, <2>1 DEF SaveBegin, SaveEnd, SaveRollback, SetFile, TypeOK
<1>4. ASSUME NEW p \in Problems, EvictProblem(p) \/ EvictFails(p)
      PROVE  disk'[key[w]] = disk[key[w]]
    BY <1>1, <1>2, <1>4 DEF EvictProblem, EvictFails, TypeOK
<1>5. ~Restart
    BY DEF Restart, Locking
<1>6. ASSUME NEW v \in Workers,
             \/ Call(v) \/ LockHit(v) \/ LockMiss(v) \/ ResolveCached(v)
             \/ StartFetch(v) \/ FetchProblemFails(v) \/ FetchResOk(v)
             \/ FetchResFails(v) \/ Install(v) \/ UnlockRead(v) \/ Unlock(v)
      PROVE  disk' = disk
    BY <1>6 DEF Call, LockHit, LockMiss, ResolveCached, StartFetch, FetchProblemFails,
                FetchResOk, FetchResFails, Install, UnlockRead, Unlock, fileVars
<1>7. ASSUME NEW p \in Problems, EvictSkip(p) \/ EvictNoDir(p)
      PROVE  disk' = disk
    BY <1>7 DEF EvictSkip, EvictNoDir, fileVars
<1>8. ASSUME EvictBegin \/ EvictEnd \/ UNCHANGED vars
      PROVE  disk' = disk
    BY <1>8 DEF EvictBegin, EvictEnd, vars, fileVars
<1> QED
    BY <1>3, <1>4, <1>5, <1>6, <1>7, <1>8
    DEF Next, WorkerStep, EvictorStep, Crash, MapThrow

(* No step writes, truncates or removes a file of a held problem           *)
(* (saveResource and evictProblem of filestore.go).                        *)
THEOREM HeldFilesCorrect == Spec => HeldFilesUntouched
<1>1. LockInv /\ [Next]_vars =>
          [\A w \in Workers : (Locking(w) /\ Locking(w)' /\ key'[w] = key[w])
               => disk'[key[w]] = disk[key[w]]]_vars
    BY HeldFilesStep
<1> QED
    BY <1>1, LockInvHolds, PTL DEF Spec, HeldFilesUntouched

-----------------------------------------------------------------------------
(* The index and the files. *)

(* The steps of the manager that touch neither the map, the index nor the  *)
(* files, and let no call enter or leave the window before the map write.  *)
Quiet ==
    /\ UNCHANGED <<problems, indexVars, fileVars>>
    /\ \A v \in Workers :
        /\ pc'[v] = "install" <=> pc[v] = "install"
        /\ pc[v] = "install" => key'[v] = key[v]

LEMMA QuietSteps ==
    ASSUME LockInv,
           \/ \E w \in Workers :
                \/ Call(w) \/ LockHit(w) \/ LockMiss(w) \/ ResolveCached(w)
                \/ StartFetch(w) \/ FetchProblemFails(w) \/ FetchResFails(w)
                \/ UnlockRead(w) \/ Unlock(w)
           \/ EvictBegin \/ EvictEnd
           \/ \E p \in Problems : EvictSkip(p) \/ EvictNoDir(p)
           \/ UNCHANGED vars
    PROVE  Quiet
<1> USE DEF LockInv, TypeOK, Quiet, indexVars, fileVars, cacheVars
<1>1. ASSUME NEW w \in Workers,
             \/ Call(w) \/ LockHit(w) \/ LockMiss(w) \/ ResolveCached(w) \/ StartFetch(w)
      PROVE  Quiet
    BY <1>1 DEF Call, LockHit, LockMiss, ResolveCached, StartFetch, Goto
<1>2. ASSUME NEW w \in Workers,
             FetchProblemFails(w) \/ FetchResFails(w) \/ UnlockRead(w) \/ Unlock(w)
      PROVE  Quiet
    BY <1>2 DEF FetchProblemFails, FetchResFails, UnlockRead, Unlock, Goto, Return
<1>3. ASSUME NEW p \in Problems, EvictSkip(p) \/ EvictNoDir(p)
      PROVE  Quiet
    BY <1>3 DEF EvictSkip, EvictNoDir, Visit
<1>4. ASSUME EvictBegin \/ EvictEnd \/ UNCHANGED vars
      PROVE  Quiet
    BY <1>4 DEF EvictBegin, EvictEnd, vars
<1> QED
    BY <1>1, <1>2, <1>3, <1>4

(* A transfer writes to a problem that the index does not name yet.        *)
LEMMA SaveTarget ==
    ASSUME LockInv, NEW w \in Workers, NEW k \in Resources,
           SaveBegin(w, k) \/ SaveEnd(w, k) \/ SaveRollback(w, k)
    PROVE  /\ key[w] \in Problems \ problems
           /\ \A v \in Workers : pc[v] = "install" => key[v] # key[w]
           /\ \A p \in Problems \ {key[w]} : disk'[p] = disk[p]
           /\ UNCHANGED <<problems, probFiles, shaToKey, pc, key>>
<1> USE DEF LockInv, cacheVars, indexVars
<1>1. pc[w] = "fetchRes"
    BY DEF SaveBegin, SaveEnd, SaveRollback
<1>2. key[w] \in Problems \ problems
    BY <1>1 DEF FetchedKeyNew
<1>3. \A v \in Workers : pc[v] # "install"
    BY <1>1 DEF MutexDiscipline, InCall
<1>4. \A p \in Problems \ {key[w]} : disk'[p] = disk[p]
    BY <1>2 DEF SaveBegin, SaveEnd, SaveRollback, SetFile, TypeOK
<1>5. UNCHANGED <<problems, probFiles, shaToKey, pc, key>>
    BY DEF SaveBegin, SaveEnd, SaveRollback
<1> QED
    BY <1>2, <1>3, <1>4, <1>5

(* Eviction drops every index entry of the problem it visits.              *)
LEMMA EvictedFromIndex ==
    ASSUME LockInv, IndexInv, NEW p \in Problems, probFiles' = probFiles \ Listed(p)
    PROVE  \A e \in probFiles' : e \in probFiles /\ e[1] \in Problems /\ e[1] # p
<1> SUFFICES ASSUME NEW e \in probFiles' PROVE e \in probFiles /\ e[1] \in Problems /\ e[1] # p
    OBVIOUS
<1>1. e \in probFiles /\ e = <<e[1], e[2]>> /\ e[1] \in Problems
    BY DEF LockInv, TypeOK
<1>2. ASSUME e[1] = p PROVE e \in Listed(p)
    BY <1>1, <1>2 DEF IndexInv, IndexFound, Listed
<1> QED
    BY <1>1, <1>2

LEMMA IndexInvInit == Init => IndexInv
BY DEF Init, IndexInv, IndexFound, NoStaleIndex

LEMMA IndexInvNext == LockInv /\ IndexInv /\ [Next]_vars => IndexInv'
<1> SUFFICES ASSUME LockInv, IndexInv, [Next]_vars PROVE IndexInv'
    OBVIOUS
<1>0. \A e \in probFiles : e[1] \in Problems /\ e[2] \in Resources /\ e = <<e[1], e[2]>>
    BY DEF LockInv, TypeOK
<1>1. CASE Quiet
    BY <1>1 DEF Quiet, IndexInv, IndexFound, NoStaleIndex, indexVars, fileVars
<1>2. ASSUME NEW w \in Workers, NEW k \in Resources,
             SaveBegin(w, k) \/ SaveEnd(w, k) \/ SaveRollback(w, k)
      PROVE  IndexInv'
    <2>1. \A e \in probFiles : e[1] # key[w]
        BY <1>2, SaveTarget DEF IndexInv, NoStaleIndex
    <2>2. \A e \in probFiles : disk'[e[1]] = disk[e[1]]
        BY <1>0, <1>2, <2>1, SaveTarget
    <2> QED
        BY <1>2, <2>2, SaveTarget DEF IndexInv, IndexFound, NoStaleIndex
<1>3. ASSUME NEW w \in Workers, FetchResOk(w) PROVE IndexInv'
    <2>1. \A e \in probFiles' : e \in probFiles \/ (e[1] = key[w] /\ e[2] \in Keys[key[w]])
        BY <1>3 DEF FetchResOk, SubmitResourceKeys
    <2>2. pc'[w] = "install" /\ key' = key /\ \A v \in Workers : pc[v] = "install" => pc'[v] = "install"
        BY <1>3 DEF FetchResOk, Goto, LockInv, TypeOK
    <2>3. IndexFound'
        BY <1>3, <2>1 DEF FetchResOk, SubmitResourceKeys, IndexInv, IndexFound, fileVars
    <2>4. NoStaleIndex'
        BY <1>3, <2>1, <2>2 DEF FetchResOk, IndexInv, NoStaleIndex, cacheVars
    <2> QED
        BY <2>3, <2>4 DEF IndexInv
<1>4. ASSUME NEW w \in Workers, Install(w) PROVE IndexInv'
    <2>1. \A v \in Workers : pc[v] = "install" => v = w
        BY <1>4 DEF Install, LockInv, MutexDiscipline, InCall
    <2> QED
        BY <1>4, <2>1 DEF Install, IndexInv, IndexFound, NoStaleIndex, indexVars, fileVars
<1>5. ASSUME NEW p \in Problems, EvictProblem(p) \/ EvictFails(p) PROVE IndexInv'
    <2>1. \A e \in probFiles' : e \in probFiles /\ e[1] \in Problems /\ e[1] # p
        BY <1>5, EvictedFromIndex DEF EvictProblem, EvictFails
    <2>2. \A q \in Problems \ {p} : disk'[q] = disk[q]
        BY <1>5 DEF EvictProblem, EvictFails, LockInv, TypeOK
    <2>3. IndexFound'
        BY <1>5, <2>1, <2>2 DEF EvictProblem, EvictFails, IndexInv, IndexFound
    <2>4. NoStaleIndex'
        BY <1>5, <2>1 DEF EvictProblem, EvictFails, Visit, IndexInv, NoStaleIndex, cacheVars
    <2> QED
        BY <2>3, <2>4 DEF IndexInv
<1>6. CASE Restart
    BY <1>6 DEF Restart, IndexInv, IndexFound, NoStaleIndex
<1> QED
    BY <1>1, <1>2, <1>3, <1>4, <1>5, <1>6, QuietSteps
    DEF Next, WorkerStep, EvictorStep, Crash, MapThrow

(* The index names files of cached problems only, with every fault and     *)
(* every restart: evictProblem finds all entries of the problem it removes *)
(* (filestore.go:146-154).                                                 *)
THEOREM IndexCorrect == Spec => []NoStaleIndex
<1>1. Spec => []IndexInv
    BY IndexInvInit, IndexInvNext, LockInvHolds, PTL DEF Spec
<1>2. IndexInv => NoStaleIndex
    BY DEF IndexInv
<1> QED
    BY <1>1, <1>2, PTL

-----------------------------------------------------------------------------
(* Without faults and without a configured directory. *)

LEMMA FileInvInit == Init => FileInv
BY DEF Init, FileInv, NoPartialFile, CachedComplete, InstallComplete, AllAbsent

LEMMA FileInvNext ==
    ASSUME Faults = {}, PersistentDir = FALSE,
           LockInv, FileInv, [Next]_vars
    PROVE  FileInv'
<1>1. CASE Quiet
    BY <1>1 DEF Quiet, FileInv, NoPartialFile, CachedComplete, InstallComplete, Complete,
                indexVars, fileVars
<1>2. ASSUME NEW w \in Workers, NEW k \in Resources,
             SaveBegin(w, k) \/ SaveEnd(w, k) \/ SaveRollback(w, k)
      PROVE  FileInv'
    <2>1. \A r \in Keys[key[w]] : disk'[key[w]][r] # "partial"
        BY <1>2, SaveTarget
        DEF SaveBegin, SaveEnd, SaveRollback, SetFile, LockInv, TypeOK, FileInv, NoPartialFile
    <2>2. NoPartialFile'
        BY <1>2, <2>1, SaveTarget DEF FileInv, NoPartialFile
    <2>3. \A p \in Problems \ {key[w]} : Complete(p) => Complete(p)'
        BY <1>2, SaveTarget DEF Complete
    <2>4. CachedComplete' /\ InstallComplete'
        BY <1>2, <2>3, SaveTarget
        DEF FileInv, CachedComplete, InstallComplete, LockInv, TypeOK, FetchedKeyNew
    <2> QED
        BY <2>2, <2>4 DEF FileInv
<1>3. ASSUME NEW w \in Workers, FetchResOk(w) PROVE FileInv'
    <2>1. key[w] \in Problems \ Cyclic
        BY <1>3 DEF FetchResOk, LockInv, FetchedKeyNew
    <2>2. Complete(key[w])'
        BY <1>3, <2>1
        DEF FetchResOk, SubmitResourceKeys, FileInv, NoPartialFile, Complete, fileVars
    <2>3. \A p : Complete(p) => Complete(p)'
        BY <1>3 DEF FetchResOk, SubmitResourceKeys, Complete, fileVars
    <2> QED
        BY <1>3, <2>2, <2>3
        DEF FetchResOk, Goto, FileInv, NoPartialFile, CachedComplete, InstallComplete,
            LockInv, TypeOK, cacheVars, fileVars
<1>4. ASSUME NEW w \in Workers, Install(w) PROVE FileInv'
    BY <1>4
    DEF Install, Goto, FileInv, NoPartialFile, CachedComplete, InstallComplete, Complete,
        LockInv, TypeOK, indexVars, fileVars
<1>5. ASSUME NEW p \in Problems, EvictProblem(p) PROVE FileInv'
    <2>1. /\ \A q \in Problems \ {p} : disk'[q] = disk[q]
          /\ disk'[p] = [k \in Keys[p] |-> "absent"]
        BY <1>5 DEF EvictProblem, LockInv, TypeOK
    <2>2. \A q \in Problems \ {p} : Complete(q) => Complete(q)'
        BY <1>5, <2>1 DEF EvictProblem, Complete, Listed
    <2>3. \A w \in Workers : pc[w] # "install"
        BY <1>5, ConstantsAssumption
        DEF EvictProblem, Visit, LockInv, MutexDiscipline, InCall, ConstantsAssumption
    <2>4. NoPartialFile'
        BY <2>1 DEF FileInv, NoPartialFile
    <2>5. CachedComplete'
        BY <1>5, <2>2 DEF EvictProblem, FileInv, CachedComplete, LockInv, TypeOK
    <2>6. InstallComplete'
        BY <1>5, <2>3 DEF EvictProblem, Visit, InstallComplete
    <2> QED
        BY <2>4, <2>5, <2>6 DEF FileInv
<1>6. CASE Restart
    BY <1>6 DEF Restart, AllAbsent, FileInv, NoPartialFile, CachedComplete, InstallComplete
<1>7. \A p \in Problems : ~EvictFails(p)
    BY DEF EvictFails
<1> QED
    BY <1>1, <1>2, <1>3, <1>4, <1>5, <1>6, <1>7, QuietSteps
    DEF Next, WorkerStep, EvictorStep, Crash, MapThrow

(* The promise of PrepareThenLock: a problem somebody holds was verified,  *)
(* and all of its files are indexed and complete.  It needs a working      *)
(* directory of the process's own and file removals that do not fail: a    *)
(* configured directory may hold truncated files of an earlier process.    *)
THEOREM HeldProblemCorrect ==
    ASSUME Faults = {}, PersistentDir = FALSE
    PROVE  Spec => []HeldProblemIntact
<1>1. LockInv /\ FileInv /\ [Next]_vars => FileInv'
    BY FileInvNext
<1>2. LockInv /\ FileInv => HeldProblemIntact
    BY DEF LockInv, FileInv, HeldEntryPresent, CachedComplete, HeldProblemIntact
<1>3. Spec => []FileInv
    BY <1>1, FileInvInit, LockInvHolds, PTL DEF Spec
<1> QED
    BY <1>2, <1>3, LockInvHolds, PTL

-----------------------------------------------------------------------------
(* ProblemCache *)

(* What ResourceManager shows of itself as a cache (Cache), read off its   *)
(* variables.                                                              *)
Mapping ==
    /\ Usable = problems
    /\ \A w \in Workers : pc[w] \in {"fetchRes", "install"} => Downloaded = key[w] /\ Downloaded # NoKey
    /\ (\A w \in Workers : pc[w] \notin {"fetchRes", "install"}) => Downloaded = NoKey

LEMMA MappingHolds == LockInv /\ FileInv => Mapping
<1> SUFFICES ASSUME LockInv, FileInv PROVE Mapping
    OBVIOUS
<1>1. Usable = problems
    BY DEF Usable, FileInv, CachedComplete
<1>2. ASSUME NEW w \in Workers, pc[w] \in {"fetchRes", "install"}
      PROVE  Downloaded = key[w] /\ Downloaded # NoKey
    <2>1. Downloads = {w}
        BY <1>2 DEF Downloads, LockInv, MutexDiscipline, InCall
    <2>2. key[w] \in Problems
        BY <1>2 DEF LockInv, FetchedKeyNew
    <2>3. NoKey \notin Problems
        BY ConstantsAssumption DEF ConstantsAssumption, NoKey, Problems
    <2> QED
        BY <2>1, <2>2, <2>3 DEF Downloaded
<1>3. (\A w \in Workers : pc[w] \notin {"fetchRes", "install"}) => Downloads = {}
    BY DEF Downloads
<1> QED
    BY <1>1, <1>2, <1>3 DEF Mapping, Downloaded

LEMMA HeldKept ==
    ASSUME \A v \in Workers : Locking(v)' = Locking(v),
           \A v \in Workers : Locking(v) => key'[v] = key[v]
    PROVE  Held' = Held
BY DEF Held

LEMMA HeldChanged ==
    ASSUME NEW w \in Workers, NEW q, q = IF Locking(w)' THEN key'[w] ELSE NoKey,
           \A v \in Workers \ {w} : Locking(v)' = Locking(v) /\ key'[v] = key[v]
    PROVE  Held' = [Held EXCEPT ![w] = q]
<1>1. Held' = [v \in Workers |-> IF v = w THEN q ELSE IF Locking(v) THEN key[v] ELSE NoKey]
    BY DEF Held
<1> QED
    BY <1>1 DEF Held

(* The downloader is the one worker in a download: no download goes on     *)
(* while mut is free, taken by evictAll or by a call that still asks for   *)
(* the problem.                                                            *)
LEMMA DownloadFollows ==
    ASSUME LockInv, Mapping
    PROVE  /\ mut \in {Free, Evictor} => Downloaded = NoKey
           /\ \A w \in Workers : pc[w] = "fetchProblem" => Downloaded = NoKey
<1>1. \A w \in Workers : mut \in {Free, Evictor} => pc[w] \notin {"fetchRes", "install"}
    BY ConstantsAssumption DEF ConstantsAssumption, LockInv, MutexDiscipline, InCall
<1>2. ASSUME NEW w \in Workers, pc[w] = "fetchProblem"
      PROVE  \A v \in Workers : pc[v] \notin {"fetchRes", "install"}
    BY <1>2 DEF LockInv, MutexDiscipline, InCall
<1> QED
    BY <1>1, <1>2 DEF Mapping

(* Steps that the cache does not see. *)
LEMMA UnseenSteps ==
    ASSUME LockInv, Mapping, Mapping',
           \/ \E w \in Workers :
                \/ Call(w) \/ LockMiss(w) \/ FetchProblemFails(w) \/ FetchResOk(w) \/ UnlockRead(w)
                \/ \E k \in Resources : SaveBegin(w, k) \/ SaveEnd(w, k) \/ SaveRollback(w, k)
           \/ EvictBegin \/ EvictEnd
           \/ \E p \in Problems : EvictSkip(p) \/ EvictNoDir(p)
           \/ UNCHANGED vars
    PROVE  UNCHANGED (Cache!vars)
<1> USE DEF cacheVars
<1>1. ASSUME NEW w \in Workers,
             \/ Call(w) \/ LockMiss(w) \/ FetchProblemFails(w) \/ FetchResOk(w) \/ UnlockRead(w)
      PROVE  /\ problems' = problems
             /\ \A v \in Workers :
                /\ Locking(v)' = Locking(v)
                /\ pc'[v] \in {"fetchRes", "install"} <=> pc[v] \in {"fetchRes", "install"}
                /\ Locking(v) \/ pc[v] \in {"fetchRes", "install"} => key'[v] = key[v]
    BY <1>1 DEF Call, LockMiss, FetchProblemFails, FetchResOk, UnlockRead, Goto, Return, Locking, LockInv, TypeOK
<1>2. ASSUME \/ \E w \in Workers, k \in Resources : SaveBegin(w, k) \/ SaveEnd(w, k) \/ SaveRollback(w, k)
             \/ EvictBegin \/ EvictEnd
             \/ \E p \in Problems : EvictSkip(p) \/ EvictNoDir(p)
             \/ UNCHANGED vars
      PROVE  UNCHANGED <<problems, pc, key>>
    BY <1>2 DEF SaveBegin, SaveEnd, SaveRollback, EvictBegin, EvictEnd, EvictSkip, EvictNoDir, Visit, vars
<1>3. /\ problems' = problems
      /\ \A v \in Workers :
         /\ Locking(v)' = Locking(v)
         /\ pc'[v] \in {"fetchRes", "install"} <=> pc[v] \in {"fetchRes", "install"}
         /\ Locking(v) \/ pc[v] \in {"fetchRes", "install"} => key'[v] = key[v]
    BY <1>1, <1>2 DEF Locking
<1>4. Held' = Held
    BY <1>3, HeldKept
<1>5. Downloaded' = Downloaded
    <2>1. CASE \E v \in Workers : pc[v] \in {"fetchRes", "install"}
        BY <1>3, <2>1 DEF Mapping
    <2>2. CASE \A v \in Workers : pc[v] \notin {"fetchRes", "install"}
        BY <1>3, <2>2 DEF Mapping
    <2> QED
        BY <2>1, <2>2
<1>6. Usable' = Usable
    BY <1>3 DEF Mapping
<1> QED
    BY <1>4, <1>5, <1>6 DEF Cache!vars

(* Steps of a call that the cache sees. *)
LEMMA CallSteps ==
    ASSUME LockInv, LockInv', Mapping, Mapping', NEW w \in Workers,
           \/ LockHit(w) \/ ResolveCached(w) \/ StartFetch(w) \/ FetchResFails(w) \/ Install(w)
           \/ Unlock(w) \/ MapThrow(w)
    PROVE  Cache!Next
<1> USE DEF cacheVars, LockInv, TypeOK, Goto
<1>0. /\ mut \in {Free, Evictor} => Downloaded = NoKey
      /\ pc[w] = "fetchProblem" => Downloaded = NoKey
      /\ mut' \in {Free, Evictor} => Downloaded' = NoKey
    <2>1. (LockInv /\ Mapping => (mut \in {Free, Evictor} => Downloaded = NoKey))'
        BY DownloadFollows, PTL
    <2> QED
        BY <2>1, DownloadFollows
<1>1. CASE LockHit(w)
    <2>1. key[w] \in problems /\ key[w] \in Problems /\ mut = Free /\ mut' = Free
        BY <1>1 DEF LockHit
    <2>2. Held[w] = NoKey
        BY <1>1 DEF LockHit, Held, Locking
    <2>3. Held' = [Held EXCEPT ![w] = key[w]]
        BY <1>1, HeldChanged DEF LockHit, Locking
    <2>4. Usable' = Usable /\ key[w] \in Usable /\ Downloaded' = Downloaded
        BY <1>0, <1>1, <2>1 DEF LockHit, Mapping
    <2>5. Cache!Lock(w, key[w])
        BY <1>0, <2>1, <2>2, <2>3, <2>4 DEF Cache!Lock, Cache!Take
    <2> QED
        BY <2>1, <2>5 DEF Cache!Next
<1>2. CASE ResolveCached(w)
    <2>1. PICK p \in Answers(key[w]) \cap problems : key' = [key EXCEPT ![w] = p]
        BY <1>2 DEF ResolveCached
    <2>2. Held[w] = NoKey
        BY <1>2 DEF ResolveCached, Held, Locking
    <2>3. Held' = [Held EXCEPT ![w] = p]
        BY <1>2, <2>1, HeldChanged DEF ResolveCached, Locking
    <2>4. Usable' = Usable /\ p \in Usable /\ Downloaded' = Downloaded /\ Downloaded = NoKey
        BY <1>0, <1>2, <2>1 DEF ResolveCached, Mapping
    <2>5. Cache!Lock(w, p)
        BY <2>2, <2>3, <2>4 DEF Cache!Lock, Cache!Take
    <2> QED
        BY <2>1, <2>5 DEF Cache!Next
<1>3. CASE StartFetch(w)
    <2>1. PICK p \in Answers(key[w]) \ (problems \cup Cyclic) : key' = [key EXCEPT ![w] = p]
        BY <1>3 DEF StartFetch
    <2>2. p \in Problems \ problems
        BY <2>1 DEF Answers
    <2>3. Held' = Held
        BY <1>3, <2>1, HeldKept DEF StartFetch, Locking
    <2>4. Usable' = Usable /\ Downloaded' = p /\ Downloaded = NoKey
        BY <1>0, <1>3, <2>1 DEF StartFetch, Mapping
    <2>5. Cache!StartDownload(p)
        BY <2>2, <2>3, <2>4 DEF Cache!StartDownload, Mapping
    <2> QED
        BY <2>2, <2>5 DEF Cache!Next
<1>4. CASE FetchResFails(w)
    <2>1. Held' = Held
        BY <1>4, HeldKept DEF FetchResFails, Return, Locking
    <2>2. Usable' = Usable /\ Downloaded' = NoKey /\ Downloaded # NoKey
        BY <1>0, <1>4 DEF FetchResFails, Mapping
    <2>3. Cache!GiveUp
        BY <2>1, <2>2 DEF Cache!GiveUp
    <2> QED
        BY <2>3 DEF Cache!Next
<1>5. CASE Install(w)
    <2>1. Downloaded = key[w] /\ Downloaded # NoKey /\ Downloaded' = NoKey
        BY <1>0, <1>5 DEF Install, Mapping
    <2>2. Held[w] = NoKey
        BY <1>5 DEF Install, Held, Locking
    <2>3. Held' = [Held EXCEPT ![w] = key[w]]
        BY <1>5, HeldChanged DEF Install, Locking
    <2>4. Usable' = Usable \cup {key[w]}
        BY <1>5 DEF Install, Mapping
    <2>5. Cache!Publish(w)
        BY <2>1, <2>2, <2>3, <2>4 DEF Cache!Publish, Cache!Take
    <2> QED
        BY <2>5 DEF Cache!Next
<1>6. CASE Unlock(w)
    <2>1. Held' = [Held EXCEPT ![w] = NoKey]
        BY <1>6, HeldChanged DEF Unlock, Return, Locking
    <2>2. Usable' = Usable /\ Downloaded' = NoKey /\ Downloaded = NoKey
        BY <1>0, <1>6 DEF Unlock, Mapping
    <2>3. Cache!Unlock(w)
        BY <2>1, <2>2 DEF Cache!Unlock
    <2> QED
        BY <2>3 DEF Cache!Next
<1>7. CASE MapThrow(w)
    <2>1. Held' = [v \in Workers |-> NoKey]
        BY <1>7 DEF MapThrow, Restart, Held, Locking
    <2>2. Usable' = {} /\ Downloaded' = NoKey
        BY <1>0, <1>7 DEF MapThrow, Restart, Mapping
    <2>3. Cache!Restart
        BY <2>1, <2>2 DEF Cache!Restart
    <2> QED
        BY <2>3 DEF Cache!Next
<1> QED
    BY <1>1, <1>2, <1>3, <1>4, <1>5, <1>6, <1>7

LEMMA EvictStep ==
    ASSUME LockInv, LockInv', Mapping, Mapping', NEW p \in Problems, EvictProblem(p)
    PROVE  Cache!Next
<1>1. Held' = Held
    BY HeldKept DEF EvictProblem, Visit, Locking
<1>2. ASSUME NEW w \in Workers  PROVE Held[w] # p
    <2>1. Cardinality(Holders(p)) <= 0
        BY DEF EvictProblem, LockInv, LockCountExact
    <2>2. ~(Locking(w) /\ key[w] = p)
        BY <2>1, NoHolders
    <2>3. NoKey # p
        BY ConstantsAssumption DEF ConstantsAssumption, NoKey, Problems
    <2> QED
        BY <2>2, <2>3 DEF Held
<1>3. mut = Evictor /\ mut' = Evictor
    BY DEF EvictProblem, Visit
<1>4. Downloaded = NoKey
    BY <1>3, DownloadFollows
<1>5. Downloaded' = NoKey
    <2>1. (LockInv /\ Mapping => (mut \in {Free, Evictor} => Downloaded = NoKey))'
        BY DownloadFollows, PTL
    <2> QED
        BY <1>3, <2>1
<1>6. Usable' = Usable \ {p}
    BY DEF EvictProblem, Mapping
<1>7. Cache!Evict(p)
    BY <1>1, <1>2, <1>4, <1>5, <1>6 DEF Cache!Evict
<1> QED
    BY <1>7 DEF Cache!Next

(* The map, the lock counts, the files and the mutex together are the      *)
(* cache that ProblemCache describes in single steps: every step of the    *)
(* manager is one of the cache, or invisible to it.  The assumptions are   *)
(* those of HeldProblemCorrect.                                            *)
THEOREM CacheImplemented ==
    ASSUME Faults = {}, PersistentDir = FALSE
    PROVE  Spec => ImplementsCache
<1>1. Init => Cache!Init
    <2> SUFFICES ASSUME Init PROVE Cache!Init
        OBVIOUS
    <2>1. Usable = {}
        BY DEF Init, Usable
    <2>2. Downloads = {} /\ Downloaded = NoKey
        BY DEF Init, Downloads, Downloaded
    <2>3. Held = [w \in Workers |-> NoKey]
        BY DEF Init, Held, Locking
    <2> QED
        BY <2>1, <2>2, <2>3 DEF Cache!Init
<1>2. ASSUME LockInv, LockInv', Mapping, Mapping', [Next]_vars
      PROVE  [Cache!Next]_(Cache!vars)
    <2>1. ~Crash /\ \A p \in Problems : ~EvictFails(p)
        BY DEF Crash, EvictFails
    <2> QED
        BY <1>2, <2>1, UnseenSteps, CallSteps, EvictStep DEF Next, WorkerStep, EvictorStep
<1>3. LockInv /\ FileInv /\ [Next]_vars => FileInv'
    BY FileInvNext
<1>4. Spec => []FileInv
    BY <1>3, FileInvInit, LockInvHolds, PTL DEF Spec
<1>5. Spec => []Mapping
    BY <1>4, LockInvHolds, MappingHolds, PTL
<1> QED
    BY <1>1, <1>2, <1>5, LockInvHolds, PTL DEF Spec, ImplementsCache, Cache!Spec
=============================================================================
