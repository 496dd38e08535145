----------------------------- MODULE ReturnStatus -----------------------------
(***************************************************************************)
(* Return<T> and details::return_status (base/include/hidl/Status.h,       *)
(* base/Status.cpp): the result of a HIDL call.  An error that nobody has  *)
(* looked at aborts the process when its object is destroyed or assigned   *)
(* to.  A move swaps both the status and the flag mCheckedStatus.          *)
(*                                                                         *)
(* Every error is told apart, that of a call and that of a result made     *)
(* from another one, so that its way through the moves can be followed.    *)
(* The value mVal is left out.                                             *)
(***************************************************************************)

CONSTANTS Results,       \* Return<T> objects
          Errors,        \* failures of calls, and their copies
          DeadObjects,   \* the errors that are DEAD_OBJECT
          Ok             \* the status of a call that succeeded

ASSUME ReturnStatusAssumption == Ok \notin Errors /\ DeadObjects \subseteq Errors

VARIABLES results,       \* objects that are constructed
          mStatus, mCheckedStatus,
          raised,        \* errors that results were made with
          seen,          \* errors the client has been told of
          emptied,       \* objects that were moved from and not used since
          aborted        \* LOG(FATAL) has ended the process

statusVars == <<results, mStatus, mCheckedStatus, raised, seen, emptied, aborted>>

StatusInit ==
    /\ results = {}
    /\ mStatus = [r \in Results |-> Ok]
    /\ mCheckedStatus = [r \in Results |-> FALSE]
    /\ raised = {}
    /\ seen = {}
    /\ emptied = {}
    /\ aborted = FALSE

(* Plausible bugs, used only to show that the properties can fail.         *)
StatusMovedOnly(r, q) ==
    /\ mStatus' = [mStatus EXCEPT ![r] = mStatus[q], ![q] = mStatus[r]]
    /\ mCheckedStatus' = [mCheckedStatus EXCEPT ![r] = mCheckedStatus[q]]
FlagSetAnyway(r) == TRUE

-----------------------------------------------------------------------------
(* !mCheckedStatus && !isOk(): the object still holds an unchecked error.  *)
Unchecked(r) == ~mCheckedStatus[r] /\ mStatus[r] # Ok

Abort ==
    /\ aborted' = TRUE
    /\ UNCHANGED <<results, mStatus, mCheckedStatus, raised, seen, emptied>>

(* The two std::swap() of the move assignment.  The test before them calls *)
(* isOk() on an unchecked target, so its flag is set by then.              *)
Swap(r, q) ==
    /\ mStatus' = [mStatus EXCEPT ![r] = mStatus[q], ![q] = mStatus[r]]
    /\ mCheckedStatus' = [mCheckedStatus EXCEPT ![r] = mCheckedStatus[q],
                                                ![q] = TRUE]

(* A call returns: Return(v) or Return(Status).                            *)
ConstructResult(r, s) ==
    /\ r \notin results
    /\ results' = results \union {r}
    /\ mStatus' = [mStatus EXCEPT ![r] = s]
    /\ mCheckedStatus' = [mCheckedStatus EXCEPT ![r] = FALSE]
    /\ raised' = raised \union ({s} \ {Ok})
    /\ UNCHANGED <<seen, emptied, aborted>>

(* The client is told the status of r.                                     *)
Tell(r) ==
    /\ mCheckedStatus' = [mCheckedStatus EXCEPT ![r] = TRUE]
    /\ seen' = seen \union ({mStatus[r]} \ {Ok})
    /\ UNCHANGED <<results, mStatus, raised, emptied, aborted>>

(* isOk(), and withDefault() through it.                                   *)
isOk(r) == r \in results /\ Tell(r)

(* Does isDeadObject() count as a check of the status of r?                *)
DeadObjectSeen(r) == mStatus[r] \in DeadObjects

isDeadObject(r) ==
    /\ r \in results
    /\ IF DeadObjectSeen(r)
       THEN /\ mCheckedStatus' = [mCheckedStatus EXCEPT ![r] = TRUE]
            /\ seen' = seen \union ({mStatus[r]} \cap DeadObjects)
       ELSE UNCHANGED <<mCheckedStatus, seen>>
    /\ UNCHANGED <<results, mStatus, raised, emptied, aborted>>

(* operator T(): assertOk() aborts on an error.                            *)
Value(r) ==
    /\ r \in results
    /\ IF mStatus[r] = Ok THEN Tell(r) ELSE Abort

(* Return(Return&&): a fresh, OK object is swapped with q.                 *)
MoveConstructResult(r, q) ==
    /\ r \notin results /\ q \in results
    /\ results' = results \union {r}
    /\ Swap(r, q)
    /\ emptied' = emptied \union {q}
    /\ UNCHANGED <<raised, seen, aborted>>

MoveAssignResult(r, q) ==
    /\ r \in results /\ q \in results
    /\ IF Unchecked(r) THEN Abort
       ELSE /\ Swap(r, q)
            /\ emptied' = (emptied \ {r}) \union {q}
            /\ UNCHANGED <<results, raised, seen, aborted>>

(* StatusOf(q): a new result with the error of q, to be checked again.     *)
StatusOf(r, q) ==
    /\ r \notin results /\ q \in results
    /\ IF mStatus[q] = Ok \/ ~mCheckedStatus[q] THEN Abort
       ELSE \E s \in Errors \ raised :
               /\ s \in DeadObjects <=> mStatus[q] \in DeadObjects
               /\ ConstructResult(r, s)

(* ~return_status(); the slot is reset for a later object.                 *)
DestroyResult(r) ==
    /\ r \in results
    /\ IF Unchecked(r) THEN Abort
       ELSE /\ results' = results \ {r}
            /\ mStatus' = [mStatus EXCEPT ![r] = Ok]
            /\ mCheckedStatus' = [mCheckedStatus EXCEPT ![r] = FALSE]
            /\ emptied' = emptied \ {r}
            /\ UNCHANGED <<raised, seen, aborted>>

StatusNext ==
    /\ ~aborted
    /\ \E r \in Results :
          \/ \E s \in (Errors \ raised) \union {Ok} : ConstructResult(r, s)
          \/ isOk(r) \/ isDeadObject(r) \/ Value(r) \/ DestroyResult(r)
          \/ \E q \in Results :
                MoveConstructResult(r, q) \/ MoveAssignResult(r, q) \/ StatusOf(r, q)

StatusSpec == StatusInit /\ [][StatusNext]_statusVars

-----------------------------------------------------------------------------
(***************************************************************************)
(* No error is swallowed: along any chain of moves and checks, an error    *)
(* the client was never told of is still held by a live object that has    *)
(* not been marked as checked, and whose destruction would abort.          *)
(***************************************************************************)
ErrorNotSwallowed ==
    \A e \in raised \ seen :
        \E r \in results : mStatus[r] = e /\ ~mCheckedStatus[r]

(***************************************************************************)
(* The converse: an object that would abort the process when destroyed or  *)
(* assigned to holds an error the client was never told of.  So a result   *)
(* that was checked stays checked wherever it is moved, and "other is safe *)
(* to destroy after moving to *this" (Status.h).                           *)
(***************************************************************************)
AbortsOnlyOnUnseen ==
    \A r \in results : Unchecked(r) => mStatus[r] \notin seen /\ r \notin emptied
==============================================================================
