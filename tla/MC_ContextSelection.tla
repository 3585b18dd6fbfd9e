------------------------- MODULE MC_ContextSelection -------------------------
EXTENDS ContextSelection

CONSTANTS a, b, c, x        \* paths; x is excluded
CONSTANTS logE, logI        \* an error log and an informational one

SeqsUpTo(S, n) == UNION {[1..k -> S] : k \in 0..n}

Failure(name, path) == [test_name |-> name, file_path |-> path]
Failures == {Failure("t1", a), Failure("t2", NoFile)}

CallsWith(fileSeqs, topSeqs, failingSeqs, logSeqs) ==
    [relevant_files : fileSeqs, repo_top_paths : topSeqs,
     failing_tests : failingSeqs, error_logs : logSeqs, keywords : BOOLEAN]

Caps(f, l, d, t) == [file |-> f, failure |-> l, doc |-> d, total |-> t]
(* The default caps in small (a total that covers the kinds), a total that *)
(* binds before the caps of the kinds do, and a kind that takes nothing.   *)
SmallPolicies == {Caps(2, 1, 1, 4), Caps(2, 2, 1, 2), Caps(0, 1, 1, 2)}

Calls == CallsWith(SeqsUpTo({a, b, x}, 2), SeqsUpTo({b, c}, 2),
                   SeqsUpTo(Failures, 2), {<<>>, <<logE, logI>>, <<logE, logE>>})
=============================================================================
