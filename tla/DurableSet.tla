----------------------------- MODULE DurableSet -----------------------------
(***************************************************************************)
(* What a store with a JSON file promises: changes are accepted in memory, *)
(* the file is now and then replaced by more of what was accepted, and a   *)
(* restart falls back to the file.  A change once in the file stays there, *)
(* and nothing enters the file that was not accepted.                      *)
(*                                                                         *)
(* The exception is a restart that could not read the file: until the next *)
(* save the store knows nothing of what the file has, and that save may    *)
(* replace it by anything accepted since.                                  *)
(***************************************************************************)

CONSTANT Changes    \* the changes made to the store

VARIABLES
    mem,            \* the changes the store in memory has
    file,           \* the changes its file has
    intact          \* whether the store started from the file, or has replaced it

durableVars == <<mem, file, intact>>

Accept(c) ==
    /\ mem' = mem \cup {c}
    /\ UNCHANGED <<file, intact>>

Save(saved) ==
    /\ intact => file \subseteq saved
    /\ file' = saved
    /\ intact' = TRUE
    /\ UNCHANGED mem

FallBack ==
    /\ mem' = file
    /\ intact' = TRUE
    /\ UNCHANGED file

\* A restart without the file.
StartEmpty ==
    /\ mem' = {}
    /\ intact' = FALSE
    /\ UNCHANGED file

DurableInit == mem = {} /\ file = {} /\ intact = TRUE

DurableNext ==
    \/ \E c \in Changes \ mem : Accept(c)
    \/ \E saved \in SUBSET mem : Save(saved)
    \/ FallBack
    \/ StartEmpty

DurableSpec == DurableInit /\ [][DurableNext]_durableVars

=============================================================================
