--------------------------- MODULE StoreFileProofs --------------------------
(***************************************************************************)
(* Proofs about StoreFile: its types, that Close saves what there was, and *)
(* that a store with its file is a durable set of changes.                 *)
(***************************************************************************)
EXTENDS StoreFile, TLAPS

\* An empty store, without a file, is of its types.
LEMMA StoreFileInitType == StoreFileInit => StoreFileTypeOK
<1> SUFFICES ASSUME StoreFileInit PROVE StoreFileTypeOK
  OBVIOUS
<1> USE DEF StoreFileInit
<1>1. dirty \in BOOLEAN /\ failed \in BOOLEAN /\ serving \in BOOLEAN /\ intact \in BOOLEAN
  OBVIOUS
<1>2. pc \in [saver : {"waiting", "ticked", "flushing", "gone"},
             closer : {"open", "stopping", "flushing", "saved", "failed"}]
  OBVIOUS
<1>3. snap \in [Flushers -> SUBSET Changes]
  OBVIOUS
<1> QED
  BY <1>1, <1>2, <1>3 DEF StoreFileTypeOK

\* The types of every variable are kept.
THEOREM StoreFileTypeCorrect == StoreFileSpec => []StoreFileTypeOK
<1> USE DEF StoreFileTypeOK, Flushers
<1>1. StoreFileInit => StoreFileTypeOK
  BY StoreFileInitType
<1>2. StoreFileTypeOK /\ [StoreFileNext]_storeFileVars => StoreFileTypeOK'
  <2> SUFFICES ASSUME StoreFileTypeOK, [StoreFileNext]_storeFileVars
               PROVE  StoreFileTypeOK'
    OBVIOUS
  <2>1. ASSUME NEW c \in Changes, Change(c) PROVE StoreFileTypeOK'
    BY <2>1 DEF Change
  <2>2. CASE SaverTick
    BY <2>2 DEF SaverTick, At
  <2>3. CASE SaverFlush
    BY <2>3 DEF SaverFlush, FlushSnapshot, At
  <2>4. CASE SaverStop
    BY <2>4 DEF SaverStop, At
  <2>5. ASSUME NEW f \in Flushers, FlushRename(f) PROVE StoreFileTypeOK'
    BY <2>5 DEF FlushRename, AfterFlush, At
  <2>6. ASSUME NEW f \in Flushers, FlushFail(f) PROVE StoreFileTypeOK'
    BY <2>6 DEF FlushFail, AfterFlush, At
  <2>7. CASE Close
    BY <2>7 DEF Close, At
  <2>8. CASE CloseFlush
    BY <2>8 DEF CloseFlush, FlushSnapshot, At
  <2>9. CASE ServerClose
    BY <2>9 DEF ServerClose
  <2>10. CASE Restart
    BY <2>10 DEF Restart
  <2>11. CASE UNCHANGED storeFileVars
    BY <2>11 DEF storeFileVars
  <2> QED
    BY <2>1, <2>2, <2>3, <2>4, <2>5, <2>6, <2>7, <2>8, <2>9, <2>10, <2>11
       DEF StoreFileNext, SaverStep
<1> QED
  BY <1>1, <1>2, PTL DEF StoreFileSpec

-----------------------------------------------------------------------------

\* The closer flushes only once saveLoop is over, so at most one snapshot is
\* on its way to the file.
OneFlush ==
    /\ pc["closer"] \in {"flushing", "saved", "failed"} => pc["saver"] = "gone"
    /\ \A f \in Flushers : pc[f] = "flushing" => snap[f] \subseteq mem

\* What Close promised is in memory, then in its snapshot, then in the file.
PromiseKept ==
    /\ promised \subseteq mem
    /\ pc["closer"] = "flushing" => promised \subseteq snap["closer"]
    /\ pc["closer"] = "saved" => promised \subseteq file

CloseInv == StoreFileTypeOK /\ OneFlush /\ PromiseKept

\* Unless load failed, the file is part of what replaces it.
FileGrows ==
    intact =>
        /\ file \subseteq mem
        /\ \A f \in Flushers : pc[f] = "flushing" => file \subseteq snap[f]

FileInv == CloseInv /\ FileGrows

\* The invariant holds of an empty store without a file.
LEMMA FileInvInit == StoreFileInit => FileInv
BY StoreFileInitType
   DEF StoreFileInit, FileInv, CloseInv, OneFlush, PromiseKept, FileGrows, Flushers

\* Every step keeps what a Close promises, a load that fails too: the process
\* it starts has promised nothing.
LEMMA CloseInvNext ==
    ASSUME CloseInv, [StoreFileNext]_storeFileVars, StoreFileTypeOK'
    PROVE  CloseInv'
<1> USE DEF CloseInv, StoreFileTypeOK, OneFlush, PromiseKept, Flushers
<1>1. ASSUME NEW c \in Changes, Change(c) PROVE CloseInv'
  BY <1>1 DEF Change
<1>2. CASE SaverTick
  BY <1>2 DEF SaverTick, At
<1>3. CASE SaverFlush
  BY <1>3 DEF SaverFlush, FlushSnapshot, At
<1>4. CASE SaverStop
  BY <1>4 DEF SaverStop, At
<1>5. ASSUME NEW f \in Flushers, FlushRename(f) PROVE CloseInv'
  BY <1>5 DEF FlushRename, AfterFlush, At
<1>6. ASSUME NEW f \in Flushers, FlushFail(f) PROVE CloseInv'
  BY <1>6 DEF FlushFail, AfterFlush, At
<1>7. CASE Close
  BY <1>7 DEF Close, At
<1>8. CASE CloseFlush
  BY <1>8 DEF CloseFlush, FlushSnapshot, At
<1>9. CASE ServerClose
  BY <1>9 DEF ServerClose
<1>10. CASE Restart
  BY <1>10 DEF Restart
<1>11. CASE UNCHANGED storeFileVars
  BY <1>11 DEF storeFileVars
<1> QED
  BY <1>1, <1>2, <1>3, <1>4, <1>5, <1>6, <1>7, <1>8, <1>9, <1>10, <1>11
     DEF StoreFileNext, SaverStep

LEMMA CloseInvariant == StoreFileSpec => []CloseInv
<1>1. StoreFileInit => CloseInv
  BY FileInvInit DEF FileInv
<1>2. CloseInv /\ [StoreFileNext]_storeFileVars /\ StoreFileTypeOK' => CloseInv'
  BY CloseInvNext
<1> QED
  BY <1>1, <1>2, StoreFileTypeCorrect, PTL DEF StoreFileSpec

\* When Close returns without an error, everything there was is in the file,
\* whatever writes and loads failed before.
THEOREM CloseSavesAll == StoreFileSpec => []CloseSaves
<1>1. CloseInv => CloseSaves
  BY DEF CloseInv, PromiseKept, CloseSaves
<1> QED
  BY <1>1, CloseInvariant, PTL

\* Every step keeps the file part of what replaces it: the process that a failed
\* load starts has to replace the file first.
LEMMA FileGrowsNext ==
    ASSUME FileInv, [StoreFileNext]_storeFileVars
    PROVE  FileGrows'
<1> USE DEF FileInv, CloseInv, FileGrows, StoreFileTypeOK, OneFlush, Flushers
<1>1. ASSUME NEW c \in Changes, Change(c) PROVE FileGrows'
  BY <1>1 DEF Change
<1>2. CASE SaverTick
  BY <1>2 DEF SaverTick, At
<1>3. CASE SaverFlush
  BY <1>3 DEF SaverFlush, FlushSnapshot, At
<1>4. CASE SaverStop
  BY <1>4 DEF SaverStop, At
<1>5. ASSUME NEW f \in Flushers, FlushRename(f) PROVE FileGrows'
  BY <1>5 DEF FlushRename, AfterFlush, At
<1>6. ASSUME NEW f \in Flushers, FlushFail(f) PROVE FileGrows'
  BY <1>6 DEF FlushFail, AfterFlush, At
<1>7. CASE Close
  BY <1>7 DEF Close, At
<1>8. CASE CloseFlush
  BY <1>8 DEF CloseFlush, FlushSnapshot, At
<1>9. CASE ServerClose
  BY <1>9 DEF ServerClose
<1>10. CASE Restart
  BY <1>10 DEF Restart
<1>11. CASE UNCHANGED storeFileVars
  BY <1>11 DEF storeFileVars
<1> QED
  BY <1>1, <1>2, <1>3, <1>4, <1>5, <1>6, <1>7, <1>8, <1>9, <1>10, <1>11
     DEF StoreFileNext, SaverStep

\* The invariant always holds, whatever writes and loads fail.
THEOREM FileInvariant == StoreFileSpec => []FileInv
<1>1. FileInv /\ [StoreFileNext]_storeFileVars => FileGrows'
  BY FileGrowsNext
<1>2. FileInv <=> CloseInv /\ FileGrows
  BY DEF FileInv
<1> QED
  BY <1>1, <1>2, FileInvInit, CloseInvariant, PTL DEF StoreFileSpec

-----------------------------------------------------------------------------

\* Every step of the store is a step of the durable set, or no step of it.
LEMMA StepIsDurable ==
    ASSUME FileInv, [StoreFileNext]_storeFileVars
    PROVE  [Durable!DurableNext]_Durable!durableVars
<1> USE DEF Durable!DurableNext, Durable!durableVars
<1>1. ASSUME NEW c \in Changes, Change(c) PROVE Durable!DurableNext
  BY <1>1 DEF Change, Durable!Accept
<1>2. ASSUME NEW f \in Flushers, FlushRename(f) PROVE Durable!DurableNext
  <2>1. snap[f] \in SUBSET mem /\ (intact => file \subseteq snap[f])
    BY <1>2 DEF FlushRename, FileInv, FileGrows, CloseInv, OneFlush
  <2> QED
    BY <1>2, <2>1 DEF FlushRename, Durable!Save
<1>3. CASE Restart
  BY <1>3 DEF Restart, Durable!FallBack, Durable!StartEmpty
<1>4. CASE \/ SaverStep
           \/ \E f \in Flushers : FlushFail(f)
           \/ Close
           \/ CloseFlush
           \/ ServerClose
           \/ UNCHANGED storeFileVars
  BY <1>4 DEF SaverStep, SaverTick, SaverFlush, SaverStop, FlushFail, FlushSnapshot,
     Close, CloseFlush, ServerClose, storeFileVars
<1> QED
  BY <1>1, <1>2, <1>3, <1>4 DEF StoreFileNext

\* Whoever flushes, whatever write or load fails and whenever the process ends,
\* the store and its file behave as a durable set of changes.
THEOREM StoreFileIsDurable == StoreFileSpec => ImplementsDurableSet
<1>1. StoreFileInit => Durable!DurableInit
  BY DEF StoreFileInit, Durable!DurableInit
<1>2. FileInv /\ [StoreFileNext]_storeFileVars => [Durable!DurableNext]_Durable!durableVars
  BY StepIsDurable
<1> QED
  BY <1>1, <1>2, FileInvariant, PTL
     DEF StoreFileSpec, ImplementsDurableSet, Durable!DurableSpec

-----------------------------------------------------------------------------

\* While the flag is not set, whoever flushes has everything in its snapshot.
DirtyInv ==
    /\ DirtyCoversChanges
    /\ \A f \in Flushers : pc[f] = "flushing" /\ ~dirty => snap[f] = mem

\* Every step keeps it; a load that fails leaves nothing to be announced.
LEMMA DirtyInvNext ==
    ASSUME FileInv, DirtyInv, [StoreFileNext]_storeFileVars
    PROVE  DirtyInv'
<1> USE DEF FileInv, CloseInv, FileGrows, StoreFileTypeOK, OneFlush, DirtyInv, DirtyCoversChanges, Flushers
<1>1. ASSUME NEW c \in Changes, Change(c) PROVE DirtyInv'
  BY <1>1 DEF Change
<1>2. CASE SaverTick
  BY <1>2 DEF SaverTick, At
<1>3. CASE SaverFlush
  BY <1>3 DEF SaverFlush, FlushSnapshot, At
<1>4. CASE SaverStop
  BY <1>4 DEF SaverStop, At
<1>5. ASSUME NEW f \in Flushers, FlushRename(f) PROVE DirtyInv'
  BY <1>5 DEF FlushRename, AfterFlush, At
<1>6. ASSUME NEW f \in Flushers, FlushFail(f) PROVE DirtyInv'
  BY <1>6 DEF FlushFail, AfterFlush, At
<1>7. CASE Close
  BY <1>7 DEF Close, At
<1>8. CASE CloseFlush
  BY <1>8 DEF CloseFlush, FlushSnapshot, At
<1>9. CASE ServerClose
  BY <1>9 DEF ServerClose
<1>10. CASE Restart
  BY <1>10 DEF Restart
<1>11. CASE UNCHANGED storeFileVars
  BY <1>11 DEF storeFileVars
<1> QED
  BY <1>1, <1>2, <1>3, <1>4, <1>5, <1>6, <1>7, <1>8, <1>9, <1>10, <1>11
     DEF StoreFileNext, SaverStep

\* A change is in the file, on its way there, or the flag or a failed flush
\* tells of it, whatever is changed while a flush writes.
THEOREM DirtyFlagSound == StoreFileSpec => []DirtyCoversChanges
<1>1. StoreFileInit => DirtyInv
  BY DEF StoreFileInit, DirtyInv, DirtyCoversChanges, Flushers
<1>2. FileInv /\ DirtyInv /\ [StoreFileNext]_storeFileVars => DirtyInv'
  BY DirtyInvNext
<1>3. DirtyInv => DirtyCoversChanges
  BY DEF DirtyInv
<1> QED
  BY <1>1, <1>2, <1>3, FileInvariant, PTL DEF StoreFileSpec

=============================================================================
