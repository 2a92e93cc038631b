------------------------------ MODULE StoreFile -----------------------------
(***************************************************************************)
(* A store and its JSON file, the part the five Memory...Stores share: the *)
(* dirty flag, the saveLoop goroutine, flush, Close and load.              *)
(*                                                                         *)
(* The contents are the set of changes made to the store: a flush writes   *)
(* the whole map, so the file has exactly the changes the snapshot had.    *)
(* The rename replaces the file in one step; a crash before it leaves the  *)
(* old file.                                                               *)
(***************************************************************************)

CONSTANTS
    Changes,        \* the changes requests make to the store
    WritesFail,     \* whether writing the temporary file may fail
    LoadsFail       \* whether reading the file may fail

ASSUME StoreFileAssumption == WritesFail \in BOOLEAN /\ LoadsFail \in BOOLEAN

VARIABLES
    mem,            \* items: the changes the map in memory has
    dirty,          \* dirty
    file,           \* the changes the file has
    pc,             \* where the saveLoop goroutine and the caller of Close are
    snap,           \* the snapshot each of the two is writing
    promised,       \* the changes there were when Close was called
    failed,         \* whether the last flush failed
    serving,        \* whether Server.Close was not called yet
    intact          \* whether load read the file, or this process replaced it

storeFileVars == <<mem, dirty, file, pc, snap, promised, failed, serving, intact>>

Flushers == {"saver", "closer"}

\* load, at the start of a process; dirty is false, whatever was read.
StoreFileInit ==
    /\ mem = {}
    /\ file = {}
    /\ dirty = FALSE
    /\ pc = [saver |-> "waiting", closer |-> "open"]
    /\ snap = [f \in Flushers |-> {}]
    /\ promised = {}
    /\ failed = FALSE
    /\ serving = TRUE
    /\ intact = TRUE

At(f, place) == pc' = [pc EXCEPT ![f] = place]

\* Any store method that changes an item.
Change(c) ==
    /\ serving
    /\ c \notin mem
    /\ mem' = mem \cup {c}
    /\ dirty' = TRUE
    /\ UNCHANGED <<file, pc, snap, promised, failed, serving, intact>>

-----------------------------------------------------------------------------

\* flush, the part under the lock.
FlushSnapshot(f) ==
    /\ snap' = [snap EXCEPT ![f] = mem]
    /\ dirty' = FALSE
    /\ At(f, "flushing")
    /\ UNCHANGED <<mem, file, promised, failed, serving, intact>>

\* A saveLoop that returns after its first flush.
AfterFlush_Ends(f, result) == At(f, result)

\* Where a flush that is over leaves its caller; saveLoop drops its error.
AfterFlush(f, result) == At(f, IF f = "saver" THEN "waiting" ELSE result)

\* A rename with the flag reset behind it.
FlushRename_ClearsDirty(f) ==
    /\ pc[f] = "flushing"
    /\ file' = snap[f]
    /\ dirty' = FALSE
    /\ failed' = FALSE
    /\ AfterFlush(f, "saved")
    /\ intact' = TRUE
    /\ UNCHANGED <<mem, snap, promised, serving>>

\* flush, the rest: the temporary file is written, closed and renamed.
FlushRename(f) ==
    /\ pc[f] = "flushing"
    /\ file' = snap[f]
    /\ failed' = FALSE
    /\ AfterFlush(f, "saved")
    /\ intact' = TRUE
    /\ UNCHANGED <<mem, dirty, snap, promised, serving>>

\* flush, an error on the way: the old file stays, and so does the flag.
FlushFail(f) ==
    /\ WritesFail
    /\ pc[f] = "flushing"
    /\ failed' = TRUE
    /\ AfterFlush(f, "failed")
    /\ UNCHANGED <<mem, dirty, file, snap, promised, serving, intact>>

-----------------------------------------------------------------------------

\* saveLoop, a tick that finds the flag set; it lets go of the lock again.
SaverTick ==
    /\ pc["saver"] = "waiting"
    /\ dirty
    /\ At("saver", "ticked")
    /\ UNCHANGED <<mem, dirty, file, snap, promised, failed, serving, intact>>

SaverFlush ==
    /\ pc["saver"] = "ticked"
    /\ FlushSnapshot("saver")

\* saveLoop, its end; a tick that is due at the same time may come first.
SaverStop ==
    /\ pc["saver"] = "waiting"
    /\ pc["closer"] # "open"
    /\ At("saver", "gone")
    /\ UNCHANGED <<mem, dirty, file, snap, promised, failed, serving, intact>>

\* Close, up to the closing of the stop channel.
Close ==
    /\ pc["closer"] = "open"
    /\ At("closer", "stopping")
    /\ promised' = mem
    /\ UNCHANGED <<mem, dirty, file, snap, failed, serving, intact>>

\* A Close that does not wait for saveLoop.
CloseFlush_NoWait ==
    /\ pc["closer"] = "stopping"
    /\ FlushSnapshot("closer")

\* A Close that saves nothing when the flag is not set.
CloseFlush_OnlyDirty ==
    /\ pc["closer"] = "stopping"
    /\ pc["saver"] = "gone"
    /\ IF dirty THEN FlushSnapshot("closer")
       ELSE /\ At("closer", "saved")
            /\ UNCHANGED <<mem, dirty, file, snap, promised, failed, serving, intact>>

\* Close, once saveLoop is over; it saves whether or not the flag is set.
CloseFlush ==
    /\ pc["closer"] = "stopping"
    /\ pc["saver"] = "gone"
    /\ FlushSnapshot("closer")

\* Server.Close: no more requests; it closes no store.
ServerClose ==
    /\ serving
    /\ serving' = FALSE
    /\ UNCHANGED <<mem, dirty, file, pc, snap, promised, failed, intact>>

\* The process ends, killed or because it was closed, and a new one starts
\* with what load reads.  When load fails the constructor only warns, and the
\* store starts with nothing.
Restart ==
    /\ \/ mem' = file /\ intact' = TRUE
       \/ LoadsFail /\ mem' = {} /\ intact' = FALSE
    /\ dirty' = FALSE
    /\ pc' = [saver |-> "waiting", closer |-> "open"]
    /\ snap' = [f \in Flushers |-> {}]
    /\ promised' = {}
    /\ failed' = FALSE
    /\ serving' = TRUE
    /\ UNCHANGED file

SaverStep == SaverTick \/ SaverFlush \/ SaverStop

StoreFileNext ==
    \/ \E c \in Changes : Change(c)
    \/ SaverStep
    \/ \E f \in Flushers : FlushRename(f) \/ FlushFail(f)
    \/ Close
    \/ CloseFlush
    \/ ServerClose
    \/ Restart

\* The ticker fires and a goroutine that can run runs; a flush that has begun
\* ends, well or not.  Nobody has to call Close.
Fairness ==
    /\ WF_storeFileVars(SaverStep)
    /\ WF_storeFileVars(\E f \in Flushers : FlushRename(f) \/ FlushFail(f))

StoreFileSpec == StoreFileInit /\ [][StoreFileNext]_storeFileVars /\ Fairness

-----------------------------------------------------------------------------

\* The store, its file and the two goroutines hold values of their types.
StoreFileTypeOK ==
    /\ mem \subseteq Changes /\ file \subseteq Changes /\ promised \subseteq Changes
    /\ dirty \in BOOLEAN /\ failed \in BOOLEAN
    /\ serving \in BOOLEAN /\ intact \in BOOLEAN
    /\ pc \in [saver : {"waiting", "ticked", "flushing", "gone"},
               closer : {"open", "stopping", "flushing", "saved", "failed"}]
    /\ snap \in [Flushers -> SUBSET Changes]

\* When the flag is not set, everything is in the file or in the snapshot
\* being written, unless the last write failed: a change made while a flush
\* writes is not forgotten, and a flush makes up for one that failed before.
DirtyCoversChanges ==
    \/ dirty
    \/ failed
    \/ mem \subseteq file
    \/ \E f \in Flushers : pc[f] = "flushing" /\ snap[f] = mem

\* When Close returns without an error, the file has every change made before
\* Close was called, also those of an earlier flush that failed.
CloseSaves == pc["closer"] = "saved" => promised \subseteq file

\* A restart after an orderly shutdown ("Close gracefully shuts down the
\* server.") finds what the server had.
ShutdownKeepsChanges ==
    [][~serving /\ serving' => mem \subseteq mem']_storeFileVars

\* Every change gets into the file, unless the process ends, the store is closed
\* or a flush fails first.
SavedUnlessFailed ==
    \A c \in Changes :
        c \in mem ~> c \in file \/ c \notin mem \/ pc["closer"] # "open" \/ failed

\* The store and its file are a durable set of changes: the file only grows,
\* and only by changes the store had, whoever flushes, whatever write fails and
\* whenever the process ends.  Only a load that fails lets go of what the file has.
Durable == INSTANCE DurableSet

ImplementsDurableSet == Durable!DurableSpec

=============================================================================
