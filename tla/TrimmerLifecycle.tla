-------------------------- MODULE TrimmerLifecycle --------------------------
(* Creation of a utils.trimmer component and of its message iterator     *)
(* (plugins/utils/trimmer/trimmer.c): trimmer_init, trimmer_msg_iter_init *)
(* and the first call the graph makes on an iterator it created.  Every   *)
(* allocation and library call that can fail is a nondeterministic choice; *)
(* the validity of the parameters is the result of                        *)
(* init_trimmer_comp_from_params (module Trimmer).  An uninitialized       *)
(* status returned to the library is any status.                           *)
EXTENDS Integers

CONSTANTS
    CanFail   \* whether allocations, port additions and iterator creation may fail

ASSUME CanFail \in BOOLEAN

IterAllocs == {"iter", "upstream", "queue", "table"}

VARIABLES
    phase,       \* "comp_init", "iter_init", "iterating", "failed",
                 \* "finalized", "done" or "crashed"
    compData,    \* the component's user data is set
    compStatus,  \* what trimmer_init returned
    iterData,    \* the message iterator's user data is set
    iterStatus,  \* what trimmer_msg_iter_init returned
    allocated    \* live allocations: the comp and the iterator's parts

vars == <<phase, compData, compStatus, iterData, iterStatus, allocated>>

Fails == IF CanFail THEN BOOLEAN ELSE {FALSE}

Init ==
    /\ phase = "comp_init" /\ compData = FALSE /\ compStatus = "none"
    /\ iterData = FALSE /\ iterStatus = "none" /\ allocated = {}

(* trimmer_init.  create_trimmer_comp may fail (NOMEM).  When adding a   *)
(* port fails the code jumps to error with ret never assigned, destroys  *)
(* the comp and returns ret: any status.  Invalid parameters return      *)
(* ERROR.  Only on success is the comp set as the component's data.       *)
trimmer_init ==
    /\ phase = "comp_init"
    /\ \E noMem, portFails \in Fails, paramsOk \in BOOLEAN :
         CASE noMem ->
                compStatus' = "NOMEM" /\ UNCHANGED <<compData, allocated>>
           [] portFails ->
                \E ret \in {"OK", "ERROR"} :
                   compStatus' = ret /\ UNCHANGED <<compData, allocated>>
           [] ~paramsOk ->
                compStatus' = "ERROR" /\ UNCHANGED <<compData, allocated>>
           [] OTHER ->
                /\ compStatus' = "OK" /\ compData' = TRUE
                /\ allocated' = allocated \cup {"comp"}
    /\ phase' = IF compStatus' = "OK" THEN "iter_init" ELSE "failed"
    /\ UNCHANGED <<iterData, iterStatus>>

(* trimmer_msg_iter_init: g_new0 may fail (NOMEM, nothing to destroy);    *)
(* BT_ASSERT(trimmer_comp) aborts when the component has no data; a       *)
(* failure to create the upstream iterator (ERROR), the queue or the hash *)
(* table (NOMEM) destroys what was built (destroy_trimmer_iterator puts   *)
(* the upstream iterator and frees the rest).  On success the iterator is *)
(* never given to bt_self_message_iterator_set_data.                      *)
trimmer_msg_iter_init ==
    /\ phase = "iter_init"
    /\ \E step \in IF CanFail THEN {"new", "upstream", "queue", "table", "done"}
                              ELSE {"done"} :
         CASE step = "new" ->
                iterStatus' = "NOMEM" /\ phase' = "failed" /\ UNCHANGED allocated
           [] ~compData ->
                phase' = "crashed" /\ UNCHANGED <<iterStatus, allocated>>
           [] step = "upstream" ->
                iterStatus' = "ERROR" /\ phase' = "failed" /\ UNCHANGED allocated
           [] step \in {"queue", "table"} ->
                iterStatus' = "NOMEM" /\ phase' = "failed" /\ UNCHANGED allocated
           [] OTHER ->
                /\ iterStatus' = "OK" /\ phase' = "iterating"
                /\ allocated' = allocated \cup IterAllocs
    /\ UNCHANGED <<compData, compStatus, iterData>>

(* trimmer_msg_iter_next (and trimmer_msg_iter_finalize) start with      *)
(* bt_self_message_iterator_get_data and BT_ASSERT(trimmer_it): with no  *)
(* data set, the assertion aborts (or, without assertions, the NULL      *)
(* iterator is dereferenced).                                             *)
trimmer_msg_iter_next ==
    /\ phase = "iterating"
    /\ phase' = IF iterData THEN "iterating" ELSE "crashed"
    /\ UNCHANGED <<compData, compStatus, iterData, iterStatus, allocated>>

(* trimmer_msg_iter_finalize: the same BT_ASSERT, then                      *)
(* destroy_trimmer_iterator.                                               *)
trimmer_msg_iter_finalize ==
    /\ phase = "iterating"
    /\ IF iterData THEN phase' = "finalized" /\ allocated' = allocated \ IterAllocs
       ELSE phase' = "crashed" /\ UNCHANGED allocated
    /\ UNCHANGED <<compData, compStatus, iterData, iterStatus>>

(* trimmer_finalize, once the component's iterators are gone: the comp is *)
(* destroyed if it is the component's data.                               *)
trimmer_finalize ==
    /\ \/ phase = "finalized"
       \/ phase = "failed" /\ compStatus = "OK"
    /\ phase' = "done"
    /\ allocated' = IF compData THEN allocated \ {"comp"} ELSE allocated
    /\ UNCHANGED <<compData, compStatus, iterData, iterStatus>>

(* A failed trimmer_init, a finalized component or an abort ends the run. *)
Stopped == /\ \/ phase \in {"crashed", "done"}
              \/ phase = "failed" /\ compStatus # "OK"
           /\ UNCHANGED vars

Next == \/ trimmer_init \/ trimmer_msg_iter_init \/ trimmer_msg_iter_next
        \/ trimmer_msg_iter_finalize \/ trimmer_finalize \/ Stopped

Spec == Init /\ [][Next]_vars

-----------------------------------------------------------------------------
(* Properties *)

(* A component and an iterator whose initialization succeeded never      *)
(* abort: the iterator methods find the iterator the init built.         *)
NeverAborts == phase # "crashed"
====
