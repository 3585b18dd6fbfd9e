--------------------------- MODULE ContextSelection ---------------------------
(***************************************************************************)
(* The context selection policy: context_selection/candidates.py,          *)
(* scoring.py and policy.py.                                               *)
(*                                                                         *)
(* select() gathers candidates of three kinds, scores them, sorts each     *)
(* kind by falling score and walks the kinds in a fixed order, taking a    *)
(* candidate while the cap of its kind and the total cap leave room.  The  *)
(* loop over the candidates is modelled one candidate per step.            *)
(*                                                                         *)
(* A path is a model value; what the code reads off its text (excluded,    *)
(* a test, under src, containing a keyword, in the chosen directory) is a  *)
(* set of paths.  Reasons are left out.                                    *)
(***************************************************************************)
EXTENDS Integers, Sequences, FiniteSets, Functions

CONSTANTS
    Requests,       \* the arguments select() is called with
    Policies,       \* max_files, max_failures, max_docs, max_total of a policy
    ExcludedPaths,  \* is_excluded
    TestPaths,      \* the path contains "test"
    SourcePaths,    \* the path contains "src", "lib" or "app"
    KeywordPaths,   \* a task keyword occurs in the path
    KeywordInTitle, \* a task keyword occurs in the title
    ImportedPaths,  \* imported_by
    NearPaths,      \* in selected_dir
    ErrorLogs,      \* the log names a traceback, an error or an exception
    NoFile          \* a failure that points to no file

ASSUME PoliciesAssumption ==
    Policies \subseteq [file : Nat, failure : Nat, doc : Nat, total : Nat]

IsList(s) == s \in Seq(Range(s))

(* The callers pass lists. *)
ASSUME RequestsAssumption ==
    \A r \in Requests :
        /\ IsList(r.relevant_files) /\ IsList(r.repo_top_paths)
        /\ IsList(r.failing_tests) /\ IsList(r.error_logs)

Kinds == <<"file", "failure", "doc">>
KindSet == {"file", "failure", "doc"}

-----------------------------------------------------------------------------
(* Candidates *)

(* The elements of a set in order, from the set of those that come before   *)
(* each: the k-th is the one that k - 1 others come before.                 *)
InOrder(before) ==
    [k \in 1..Cardinality(DOMAIN before) |->
        CHOOSE i \in DOMAIN before : Cardinality(before[i]) = k - 1]

(* Where the Wanted elements of s first occur. *)
FirstPlaces(s, Wanted) ==
    {i \in 1..Len(s) : s[i] \in Wanted /\ \A j \in 1..(i - 1) : s[j] # s[i]}

(* The Wanted elements of s, each where it first occurs. *)
Distinct(s, Wanted) ==
    LET places == FirstPlaces(s, Wanted)
        order == InOrder([i \in places |-> {j \in places : j < i}])
    IN  [k \in 1..Cardinality(places) |-> s[order[k]]]

(* Files: each path once, excluded ones dropped, the task's files first.   *)
\* mutant
GatherFilesTwice(relevant, top) ==
    SelectSeq(relevant \o top, LAMBDA p : p \notin ExcludedPaths)

GatherFileCandidates(relevant, top) ==
    LET all == relevant \o top IN Distinct(all, Range(all) \ ExcludedPaths)

(* Failures: every failing test, repeated ones too; one candidate for each *)
(* distinct error log, all under the same name.                            *)
GatherFailureCandidates(failing, logs) ==
    failing \o [i \in 1..Len(Distinct(logs, ErrorLogs)) |->
                    [test_name |-> "runtime error", file_path |-> NoFile]]

(* The document source is a stub: the keywords are walked, nothing is found. *)
GatherDocCandidates == <<>>

-----------------------------------------------------------------------------
(* Scores *)

Points(condition, n) == IF condition THEN n ELSE 0

(* A keyword counts only in a call that has keywords. *)
ScoreFile(r, path) ==
      Points(path \in Range(r.relevant_files), 100)
    + Points(path \in TestPaths, 40) + Points(path \in SourcePaths, 15)
    + Points(r.keywords /\ path \in KeywordPaths, 10)
    + Points(r.keywords /\ KeywordInTitle, 5)
    + Points(path \in ImportedPaths, 40) + Points(path \in NearPaths, 20)

ScoreFailure(r, failure) ==
      Points(failure.file_path # NoFile
                /\ failure.file_path \in Range(r.relevant_files), 90)
    + Points(failure.file_path # NoFile
                /\ r.keywords /\ failure.file_path \in KeywordPaths, 20)

Candidates(r, kind) ==
    CASE kind = "file"    -> GatherFileCandidates(r.relevant_files, r.repo_top_paths)
      [] kind = "failure" -> GatherFailureCandidates(r.failing_tests, r.error_logs)
      [] kind = "doc"     -> GatherDocCandidates

Score(r, kind, candidate) ==
    IF kind = "file" THEN ScoreFile(r, candidate) ELSE ScoreFailure(r, candidate)

\* mutant
LowestFirst(score, j, i) == score[j] < score[i] \/ (score[j] = score[i] /\ j < i)

(* sort(key = -score): stable, so ties keep the order of gathering. *)
Ahead(score, j, i) == score[j] > score[i] \/ (score[j] = score[i] /\ j < i)

Ranked(r, kind) ==
    LET cs == Candidates(r, kind)
        places == 1..Len(cs)
        score == [i \in places |-> Score(r, kind, cs[i])]
        order == InOrder([i \in places |-> {j \in places : Ahead(score, j, i)}])
    IN  [k \in places |-> [item |-> cs[order[k]], score |-> score[order[k]]]]

-----------------------------------------------------------------------------
VARIABLES
    caps,           \* the caps of the policy object
    request,        \* the arguments of the call
    ranked,         \* scored_files, scored_failures, scored_docs
    turn,           \* position in Kinds of the loop that runs
    next,           \* position in ranked of the candidate looked at
    selected,       \* selected_*_ids, by kind
    dropped,        \* dropped_item_ids
    decisions,      \* decisions
    total_selected

selectionVars == <<caps, request, ranked, turn, next, selected, dropped, decisions,
                   total_selected>>

Kind == Kinds[turn]
Done == turn > Len(Kinds)

SelectInit ==
    /\ caps \in Policies
    /\ request \in Requests
    /\ ranked = [kind \in KindSet |-> Ranked(request, kind)]
    /\ turn = 1 /\ next = 1
    /\ selected = [kind \in KindSet |-> <<>>]
    /\ dropped = <<>> /\ decisions = <<>> /\ total_selected = 0

\* mutant
HasRoomOfKind == Len(selected[Kind]) < caps[Kind]
\* mutant
HasRoomButOne == Len(selected[Kind]) + 1 < caps[Kind] /\ total_selected < caps.total

HasRoom == Len(selected[Kind]) < caps[Kind] /\ total_selected < caps.total

Decide(kept) ==
    /\ decisions' = Append(decisions, [item |-> ranked[Kind][next].item,
                                       kind |-> Kind, kept |-> kept])
    /\ next' = next + 1
    /\ UNCHANGED <<caps, request, ranked, turn>>

Take ==
    /\ ~Done /\ next <= Len(ranked[Kind]) /\ HasRoom
    /\ selected' = [selected EXCEPT ![Kind] = Append(@, ranked[Kind][next].item)]
    /\ total_selected' = total_selected + 1
    /\ Decide(TRUE)
    /\ UNCHANGED dropped

\* mutant
DropTheRest ==
    /\ ~Done /\ next <= Len(ranked[Kind]) /\ ~HasRoom
    /\ dropped' = Append(dropped, ranked[Kind][next].item)
    /\ decisions' = Append(decisions, [item |-> ranked[Kind][next].item,
                                       kind |-> Kind, kept |-> FALSE])
    /\ next' = Len(ranked[Kind]) + 1
    /\ UNCHANGED <<caps, request, ranked, turn, selected, total_selected>>

Drop ==
    /\ ~Done /\ next <= Len(ranked[Kind]) /\ ~HasRoom
    /\ dropped' = Append(dropped, ranked[Kind][next].item)
    /\ Decide(FALSE)
    /\ UNCHANGED <<selected, total_selected>>

NextKind ==
    /\ ~Done /\ next > Len(ranked[Kind])
    /\ turn' = turn + 1 /\ next' = 1
    /\ UNCHANGED <<caps, request, ranked, selected, dropped, decisions, total_selected>>

SelectNext == Take \/ Drop \/ NextKind

SelectSpec == SelectInit /\ [][SelectNext]_selectionVars

-----------------------------------------------------------------------------
(* Safety *)

(* Neither the cap of a kind nor the total cap is ever exceeded, and the   *)
(* running total is the number of items selected (the loops of select).    *)
CapsRespected ==
    /\ \A kind \in KindSet : Len(selected[kind]) <= caps[kind]
    /\ total_selected = Len(selected["file"]) + Len(selected["failure"])
                            + Len(selected["doc"])
    /\ total_selected <= caps.total

(* The cut is at a rank: nothing that was dropped scores higher than       *)
(* something of the same kind that was selected.                           *)
BestOfKindSelected ==
    \A kind \in KindSet :
        /\ Len(selected[kind]) <= Len(ranked[kind])
        /\ \A k \in 1..Len(selected[kind]) :
             /\ selected[kind][k] = ranked[kind][k].item
             /\ \A m \in k..Len(ranked[kind]) :
                  ranked[kind][k].score >= ranked[kind][m].score

(* The decisions are listed kind by kind, each kind in the order of its     *)
(* ranking, and say of every candidate, once, whether it was selected.      *)
DecisionsBefore(kind) ==
    CASE kind = "file"    -> 0
      [] kind = "failure" -> Len(ranked["file"])
      [] kind = "doc"     -> Len(ranked["file"]) + Len(ranked["failure"])

EveryCandidateDecided ==
    Done => /\ Len(decisions) = DecisionsBefore("doc") + Len(ranked["doc"])
            /\ Len(decisions) = total_selected + Len(dropped)
            /\ \A kind \in KindSet : \A k \in 1..Len(ranked[kind]) :
                  decisions[DecisionsBefore(kind) + k] =
                      [item |-> ranked[kind][k].item, kind |-> kind,
                       kept |-> k <= Len(selected[kind])]

(* A path is decided on once, an excluded path never, and in the end every  *)
(* other path of the call was; the failures have no such property, see the  *)
(* README.                                                                  *)
FileDecisions == {i \in 1..Len(decisions) : decisions[i].kind = "file"}

FilesDecidedOnce ==
    /\ \A i, j \in FileDecisions : decisions[i].item = decisions[j].item => i = j
    /\ \A i \in FileDecisions : decisions[i].item \notin ExcludedPaths
    /\ Done =>
        \A path \in Range(request.relevant_files \o request.repo_top_paths) :
            path \notin ExcludedPaths =>
                \E i \in FileDecisions : decisions[i].item = path

(* A candidate is dropped only when a cap is used up: its kind's or the     *)
(* total.                                                                   *)
DroppedOnlyWhenFull ==
    \A i \in 1..Len(decisions) :
        ~decisions[i].kept =>
            \/ Len(selected[decisions[i].kind]) = caps[decisions[i].kind]
            \/ total_selected = caps.total

(* The kinds do not starve each other: when the total cap covers the caps  *)
(* of the kinds, as the default caps do, a candidate is dropped only when  *)
(* its own kind is full.                                                   *)
DroppedOnlyByOwnCap ==
    caps.total >= caps.file + caps.failure + caps.doc =>
        \A i \in 1..Len(decisions) :
            ~decisions[i].kept =>
                Len(selected[decisions[i].kind]) = caps[decisions[i].kind]
=============================================================================
