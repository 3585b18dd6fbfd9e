--------------------------- MODULE ParallelWorkJoin ---------------------------
(***************************************************************************)
(* models/parallel_work_join_contract.py: work split into branches, what   *)
(* they returned, what the join waits for, the join and the merge.         *)
(* Accepts(e) says whether an envelope with the parts e can be             *)
(* constructed; conventions as in ClarificationResolution.  An optional    *)
(* record is a set of at most one.  Who works on a branch and on what is   *)
(* compared with nothing and left out.  The branches a join requires, and  *)
(* those it says it has done with (completed, failed or late), are not     *)
(* compared with the assignments either, and kept.                         *)
(***************************************************************************)
EXTENDS Integers, Sequences, FiniteSets

CONSTANTS BranchId, NoCount

JoinPolicy == {"wait_for_all", "wait_for_quorum", "wait_for_first_success",
               "wait_for_required_set", "manual_join"}
JoinStatus == {"pending", "waiting", "ready_to_merge", "merged",
               "partial_merge", "failed", "cancelled"}
BranchStatus == {"planned", "ready", "running", "waiting", "completed",
                 "failed", "cancelled", "blocked"}
MergeOutcome == {"success", "partial", "conflict", "rejected", "needs_review"}

ParallelWorkRequest == [join_policy : JoinPolicy]
BranchAssignment == [branch_id : BranchId, status : BranchStatus]
BranchOutput == [branch_id : BranchId, status : BranchStatus]
BranchConflict == [branch_ids : Seq(BranchId)]
JoinRequirement == [required_branch_ids : Seq(BranchId),
                    required_completion_count : Int \cup {NoCount}]
JoinExecution == [join_status : JoinStatus, done : SUBSET BranchId]
MergeResult == [merge_outcome : MergeOutcome]

Optional(S) == {{}} \cup {{x} : x \in S}

Envelope == [parallel_request : ParallelWorkRequest,
             branch_assignments : SUBSET BranchAssignment,
             branch_outputs : SUBSET BranchOutput,
             conflicts : SUBSET BranchConflict,
             join_requirements : JoinRequirement,
             join_execution : Optional(JoinExecution),
             merge_result : Optional(MergeResult)]

-----------------------------------------------------------------------------
(* The validators, which run on construction. *)

(* At least two branches conflict, and no branch with itself.              *)
ConflictBranchIdsMustBeUnique(c) ==
    /\ Len(c.branch_ids) >= 2
    /\ \A i, j \in DOMAIN c.branch_ids :
          c.branch_ids[i] = c.branch_ids[j] => i = j

BranchIds(e) == {b.branch_id : b \in e.branch_assignments}

BranchIdsMustBeUnique(e) ==
    /\ e.branch_assignments # {}
    /\ \A a, b \in e.branch_assignments : a.branch_id = b.branch_id => a = b

OutputBranchIdsMustExist(e) ==
    {o.branch_id : o \in e.branch_outputs} \subseteq BranchIds(e)

ConflictBranchIdsMustExist(e) ==
    \A c \in e.conflicts : \A i \in DOMAIN c.branch_ids :
        c.branch_ids[i] \in BranchIds(e)

\* mutant
ValidateJoinRequirementsFieldLeniently(e) ==
    LET count == e.join_requirements.required_completion_count
        total == Len(e.join_requirements.required_branch_ids)
    IN  /\ count # NoCount =>
              count >= 1 /\ (total > 0 => count <= total + 1)
        /\ (e.parallel_request.join_policy = "wait_for_first_success"
              /\ total > 1) => count # NoCount

(* The length of the list counts, whether or not its branches are assigned *)
(* or differ; a count is not bounded when the list is empty.               *)
ValidateJoinRequirementsField(e) ==
    LET count == e.join_requirements.required_completion_count
        total == Len(e.join_requirements.required_branch_ids)
    IN  /\ count # NoCount =>
              count >= 1 /\ (total > 0 => count <= total)
        /\ (e.parallel_request.join_policy = "wait_for_first_success"
              /\ total > 1) => count # NoCount

MergeRequiresCompletedOrPartialJoin(e) ==
    e.merge_result # {} =>
        \A j \in e.join_execution : j.join_status \in {"merged", "partial_merge"}

Accepts(e) ==
    /\ \A c \in e.conflicts : ConflictBranchIdsMustBeUnique(c)
    /\ BranchIdsMustBeUnique(e)
    /\ OutputBranchIdsMustExist(e)
    /\ ConflictBranchIdsMustExist(e)
    /\ ValidateJoinRequirementsField(e)
    /\ MergeRequiresCompletedOrPartialJoin(e)

(* The same rules once more, as methods of a constructed envelope.  The    *)
(* loop over the required branches of wait_for_all decides nothing.        *)
ValidateJoinRequirements(e) ==
    LET req == e.join_requirements
        n == Len(req.required_branch_ids)
    IN  /\ \/ req.required_completion_count = NoCount
           \/ /\ ~(req.required_completion_count < 1)
              /\ ~(n > 0 /\ req.required_completion_count > n)
        /\ ~ /\ e.parallel_request.join_policy = "wait_for_first_success"
             /\ n > 1
             /\ req.required_completion_count = NoCount

CheckMergeRequiresCompletedJoin(e) ==
    \A m \in e.merge_result, j \in e.join_execution :
        j.join_status \in {"merged", "partial_merge"}

CheckAllEnvelopeRules(e) ==
    ValidateJoinRequirements(e) /\ CheckMergeRequiresCompletedJoin(e)

-----------------------------------------------------------------------------
(* What an accepted envelope promises. *)

(* An output belongs to exactly one branch, and a conflict is between two  *)
(* different branches at least (parallel/PARALLEL.md:94-95).               *)
CheckedReferencesResolve(e) ==
    /\ \A o \in e.branch_outputs :
          \E b \in e.branch_assignments :
              /\ b.branch_id = o.branch_id
              /\ \A x \in e.branch_assignments : x.branch_id = o.branch_id => x = b
    /\ \A c \in e.conflicts : \E i, j \in DOMAIN c.branch_ids :
          \E a, b \in e.branch_assignments :
              /\ a # b
              /\ a.branch_id = c.branch_ids[i] /\ b.branch_id = c.branch_ids[j]

(* The rules that are written twice agree.                                 *)
RecheckAgrees(e) == CheckAllEnvelopeRules(e)

Completed(e) == {o.branch_id : o \in {x \in e.branch_outputs : x.status = "completed"}}
Required(e) == {e.join_requirements.required_branch_ids[i] :
                   i \in DOMAIN e.join_requirements.required_branch_ids}

(* "wait_for_all requires all required branches to complete before merge"   *)
(* (parallel/PARALLEL.md:91); the code leaves this to its caller.          *)
MergeWaitsForAll(e) ==
    (e.parallel_request.join_policy = "wait_for_all" /\ e.merge_result # {})
        => Required(e) \subseteq Completed(e)

(* While nothing is merged, neither the final output of an assigned branch *)
(* nor the conflict of two makes an acceptable envelope refused, and a join *)
(* may wait, fail or be cancelled.  Once whatever any policy could wait    *)
(* for is there, and without conflict, it may be merged.                   *)
FinalStatus == {"completed", "failed", "cancelled", "blocked"}

ReadyToMerge(e) ==
    LET count == e.join_requirements.required_completion_count
    IN  /\ e.conflicts = {} /\ Completed(e) # {}
        /\ Required(e) \subseteq Completed(e)
        /\ count # NoCount => Cardinality(Completed(e)) >= count

Joined(e, status) ==
    [e EXCEPT !.join_execution = {[join_status |-> status, done |-> Completed(e)]}]

ProgressIsAccepted(e) ==
    e.merge_result = {} =>
        /\ \A b \in BranchIds(e) \ {o.branch_id : o \in e.branch_outputs},
              s \in FinalStatus :
              Accepts([e EXCEPT !.branch_outputs =
                          @ \cup {[branch_id |-> b, status |-> s]}])
        /\ \A a, b \in BranchIds(e) : a # b =>
              Accepts([e EXCEPT !.conflicts = @ \cup {[branch_ids |-> <<a, b>>]}])
        /\ \A status \in {"pending", "waiting", "failed", "cancelled"} :
              Accepts(Joined(e, status))
        /\ ReadyToMerge(e) =>
              Accepts([Joined(e, "merged") EXCEPT
                          !.merge_result = {[merge_outcome |-> "success"]}])
=============================================================================
