--------------------------- MODULE DecompressPool ---------------------------
(***************************************************************************)
(* What the decompression pool of src/dm/vm-save.c promises its user      *)
(* (uxenvm_load_readbatch and decompress_wait_all), stated without         *)
(* buffers, lists or events: at most N jobs are held at a time; a job is   *)
(* worked exactly once, with a result; a finished job is held until its   *)
(* completion is processed; the pool is opened once and closed only when  *)
(* it holds no job.                                                       *)
(***************************************************************************)
EXTENDS Naturals, FiniteSets

CONSTANTS
  N,      \* DECOMPRESS_THREADS: the number of scratch buffers
  Jobs    \* the jobs that may be submitted

VARIABLES
  open,      \* the pool is set up (dc.async_op_ctx # NULL)
  running,   \* jobs submitted and not yet worked
  finished,  \* jobs worked whose completion is not processed yet
  issued,    \* every job ever submitted
  ok,        \* jobs whose work succeeded
  failed     \* jobs whose work failed

avars == <<open, running, finished, issued, ok, failed>>

Held == running \cup finished

PInit ==
  /\ open = FALSE
  /\ running = {} /\ finished = {}
  /\ issued = {} /\ ok = {} /\ failed = {}

Open ==
  /\ ~open /\ issued = {}
  /\ open' = TRUE
  /\ UNCHANGED <<running, finished, issued, ok, failed>>

(* The completions of the jobs in R are processed, and the jobs in J (at   *)
(* most one) are submitted into the room this leaves; a step that does    *)
(* neither is no step.                                                    *)
Acquire(R, J) ==
  /\ open
  /\ R \subseteq finished
  /\ R # {} \/ J # {}
  /\ J \cap issued = {}
  /\ Cardinality(Held \ R) + Cardinality(J) <= N
  /\ finished' = finished \ R
  /\ running' = running \cup J
  /\ issued' = issued \cup J
  /\ UNCHANGED <<open, ok, failed>>

Work(j) ==
  /\ j \in running
  /\ running' = running \ {j}
  /\ finished' = finished \cup {j}
  /\ \/ ok' = ok \cup {j} /\ UNCHANGED failed
     \/ failed' = failed \cup {j} /\ UNCHANGED ok
  /\ UNCHANGED <<open, issued>>

Close ==
  /\ open /\ Held = {}
  /\ open' = FALSE
  /\ UNCHANGED <<running, finished, issued, ok, failed>>

PNext ==
  \/ Open \/ Close
  \/ \E j \in Jobs : Work(j)
  \/ \E R \in SUBSET finished, J \in {{}} \cup {{j} : j \in Jobs} : Acquire(R, J)

(* Every job handed to the pool is eventually worked.                     *)
PSpec == PInit /\ [][PNext]_avars /\ \A j \in Jobs : WF_avars(Work(j))

=============================================================================
