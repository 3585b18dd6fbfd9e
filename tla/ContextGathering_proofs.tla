------------------------ MODULE ContextGathering_proofs ------------------------
(***************************************************************************)
(* Lemmas about what gathering and ranking compute, for lists of every     *)
(* length: a list is put in order by counting what comes before each of    *)
(* its places, and a count takes no induction.                             *)
(***************************************************************************)
EXTENDS ContextSelection, FunctionTheorems, FiniteSetTheorems, SequenceTheorems, TLAPS

-----------------------------------------------------------------------------
(* Putting a finite set in order *)

(* before gives, for each element of its domain, those that come before it  *)
(* in a strict total order.                                                 *)
TotalOrder(before) ==
    /\ IsFiniteSet(DOMAIN before)
    /\ \A i \in DOMAIN before :
         before[i] \subseteq DOMAIN before /\ i \notin before[i]
    /\ \A i, j \in DOMAIN before : i \in before[j] => before[i] \subseteq before[j]
    /\ \A i, j \in DOMAIN before : i # j => i \in before[j] \/ j \in before[i]

(* The number of elements that come before tells the elements apart, and    *)
(* every number below the size of the set is taken.                         *)
LEMMA CountBefore ==
    ASSUME NEW before, TotalOrder(before)
    PROVE  LET n == Cardinality(DOMAIN before)
               count == [i \in DOMAIN before |-> Cardinality(before[i]) + 1]
           IN  /\ n \in Nat
               /\ \A i \in DOMAIN before : count[i] \in 1..n
               /\ \A i, j \in DOMAIN before : i \in before[j] => count[i] < count[j]
               /\ \A i, j \in DOMAIN before : count[i] = count[j] => i = j
               /\ \A k \in 1..n : \E i \in DOMAIN before : count[i] = k
<1> DEFINE P == DOMAIN before
           n == Cardinality(P)
           count == [i \in P |-> Cardinality(before[i]) + 1]
<1>1. IsFiniteSet(P) /\ n \in Nat
  BY FS_CardinalityType DEF TotalOrder
<1>2. ASSUME NEW i \in P
      PROVE  IsFiniteSet(before[i]) /\ Cardinality(before[i]) \in Nat
             /\ Cardinality(before[i]) < n
  <2>1. before[i] \in SUBSET P /\ before[i] # P
    BY DEF TotalOrder
  <2>2. IsFiniteSet(before[i]) /\ Cardinality(before[i]) <= n
        /\ Cardinality(before[i]) # n
    BY <1>1, <2>1, FS_Subset
  <2>3. Cardinality(before[i]) \in Nat
    BY <2>2, FS_CardinalityType
  <2> QED
    BY <1>1, <2>2, <2>3
<1>3. \A i \in P : count[i] \in 1..n
  BY <1>1, <1>2
<1>4. ASSUME NEW i \in P, NEW j \in P, i \in before[j]
      PROVE  count[i] < count[j]
  <2>1. before[i] \in SUBSET before[j] /\ before[i] # before[j]
    BY <1>4 DEF TotalOrder
  <2>2. Cardinality(before[i]) <= Cardinality(before[j])
        /\ Cardinality(before[i]) # Cardinality(before[j])
    BY <1>2, <2>1, FS_Subset
  <2> QED
    BY <1>2, <2>2
<1>5. \A i, j \in P : count[i] = count[j] => i = j
  <2>1. \A i, j \in P : i # j => count[i] < count[j] \/ count[j] < count[i]
    BY <1>4 DEF TotalOrder
  <2>2. \A i \in P : count[i] \in Int
    BY <1>3
  <2> HIDE DEF count
  <2> QED
    BY <2>1, <2>2
<1>6. \A k \in 1..n : \E i \in P : count[i] = k
  <2>1. count \in [P -> 1..n]
    BY <1>3
  <2>2. count \in Injection(P, 1..n)
    <3> HIDE DEF count
    <3> QED
      BY <1>5, <2>1, Fun_IsInj
  <2>3. IsFiniteSet(1..n) /\ Cardinality(1..n) = n
    BY <1>1, FS_Interval
  <2>4. count \in Surjection(P, 1..n)
    BY <2>2, <2>3, FS_Injection
  <2> HIDE DEF count
  <2> QED
    BY <2>4 DEF Surjection
<1> QED
  BY <1>1, <1>3, <1>4, <1>5, <1>6

(* InOrder lists every element of the set once, the earlier ones first.     *)
LEMMA InOrderLists ==
    ASSUME NEW before, TotalOrder(before)
    PROVE  LET n == Cardinality(DOMAIN before)
               order == InOrder(before)
           IN  /\ n \in Nat
               /\ \A k \in 1..n : order[k] \in DOMAIN before
               /\ \A k, m \in 1..n : order[k] = order[m] => k = m
               /\ \A i \in DOMAIN before : \E k \in 1..n : order[k] = i
               /\ \A k, m \in 1..n : k < m => order[k] \in before[order[m]]
<1> DEFINE P == DOMAIN before
           n == Cardinality(P)
           order == InOrder(before)
           count == [i \in P |-> Cardinality(before[i]) + 1]
<1>1. /\ n \in Nat
      /\ \A i \in P : count[i] \in 1..n
      /\ \A i, j \in P : i \in before[j] => count[i] < count[j]
      /\ \A i, j \in P : count[i] = count[j] => i = j
      /\ \A k \in 1..n : \E i \in P : count[i] = k
  BY CountBefore
<1>2. \A i \in P : IsFiniteSet(before[i])
  BY FS_Subset DEF TotalOrder
<1>3. \A i \in P : Cardinality(before[i]) \in Nat
  BY <1>2, FS_CardinalityType
<1>4. ASSUME NEW k \in 1..n
      PROVE  order[k] \in P /\ count[order[k]] = k
  <2>1. order[k] = CHOOSE i \in P : Cardinality(before[i]) = k - 1
    BY DEF InOrder
  <2>2. \E i \in P : Cardinality(before[i]) = k - 1
    BY <1>1, <1>3
  <2>3. order[k] \in P /\ Cardinality(before[order[k]]) = k - 1
    BY <2>1, <2>2
  <2> QED
    BY <2>3
<1> HIDE DEF count, order
<1>5. \A k, m \in 1..n : order[k] = order[m] => k = m
  BY <1>4
<1>6. \A i \in P : \E k \in 1..n : order[k] = i
  BY <1>1, <1>4
<1>7. ASSUME NEW k \in 1..n, NEW m \in 1..n, k < m
      PROVE  order[k] \in before[order[m]]
  <2>1. order[k] \in P /\ order[m] \in P /\ order[k] # order[m]
    BY <1>4, <1>5, <1>7
  <2>2. order[m] \notin before[order[k]]
    BY <1>1, <1>4, <1>7, <2>1
  <2> QED
    BY <2>1, <2>2 DEF TotalOrder
<1> QED
  BY <1>1, <1>4, <1>5, <1>6, <1>7 DEF order

-----------------------------------------------------------------------------
(* Gathering *)

(* Places of a list come one before another by their numbers. *)
LEMMA PlacesAreOrdered ==
    ASSUME NEW n \in Nat, NEW P \in SUBSET (1..n)
    PROVE  /\ IsFiniteSet(P)
           /\ TotalOrder([i \in P |-> {j \in P : j < i}])
<1> DEFINE before == [i \in P |-> {j \in P : j < i}]
<1>1. IsFiniteSet(P)
  <2>1. IsFiniteSet(1..n)
    BY FS_Interval
  <2> QED
    BY <2>1, FS_Subset
<1>2. \A i \in P : i \in Int
  OBVIOUS
<1>3. DOMAIN before = P /\ \A i, j \in P : j \in before[i] <=> j < i
  OBVIOUS
<1>4. \A i \in P : before[i] \subseteq P /\ i \notin before[i]
  BY <1>2
<1>5. ASSUME NEW i \in P, NEW j \in P, i \in before[j]
      PROVE  before[i] \subseteq before[j]
  <2>1. ASSUME NEW k \in before[i] PROVE k \in P /\ k < j
    <3>1. k \in P /\ k < i /\ i < j
      BY <1>5
    <3>2. k \in Int /\ i \in Int /\ j \in Int
      BY <1>2, <3>1
    <3> QED
      BY <3>1, <3>2
  <2> QED
    BY <2>1
<1>6. \A i, j \in P : i # j => i \in before[j] \/ j \in before[i]
  BY <1>2
<1> HIDE DEF before
<1>7. TotalOrder(before)
  BY <1>1, <1>3, <1>4, <1>5, <1>6 DEF TotalOrder
<1> QED
  BY <1>1, <1>7 DEF before

(* Of the places in a set that is not empty there is a first one. *)
LEMMA FirstPlace ==
    ASSUME NEW n \in Nat, NEW P \in SUBSET (1..n), P # {}
    PROVE  \E i \in P : \A j \in P : i <= j
<1> DEFINE before == [i \in P |-> {j \in P : j < i}]
           size == Cardinality(P)
           order == InOrder(before)
<1>1. TotalOrder(before) /\ DOMAIN before = P
  BY PlacesAreOrdered
<1>2. /\ size \in Nat
      /\ \A k \in 1..size : order[k] \in P
      /\ \A i \in P : \E k \in 1..size : order[k] = i
      /\ \A k, m \in 1..size : k < m => order[k] \in before[order[m]]
  <2> HIDE DEF before
  <2> QED
    BY <1>1, InOrderLists
<1> HIDE DEF order
<1>3. 1 \in 1..size /\ order[1] \in P
  <2>1. PICK i \in P : TRUE
    OBVIOUS
  <2>2. PICK k \in 1..size : order[k] = i
    BY <1>2, <2>1
  <2> HIDE DEF size
  <2>3. 1 \in 1..size
    BY <1>2, <2>2
  <2> QED
    BY <1>2, <2>3
<1>4. ASSUME NEW j \in P PROVE order[1] <= j
  <2>1. PICK m \in 1..size : order[m] = j
    BY <1>2
  <2>2. CASE m = 1
    BY <1>3, <2>1, <2>2
  <2>3. CASE 1 < m
    <3>1. order[1] \in before[j]
      BY <1>2, <1>3, <2>1, <2>3
    <3>2. order[1] < j
      BY <3>1
    <3>3. order[1] \in 1..n /\ j \in 1..n
      BY <1>3
    <3> HIDE DEF before, size
    <3> QED
      BY <3>2, <3>3
  <2> QED
    BY <1>2, <2>2, <2>3
<1> QED
  BY <1>3, <1>4

(* Distinct drops repetitions and nothing else: it lists each wanted        *)
(* element of s, and only those, once.                                      *)
LEMMA DistinctLists ==
    ASSUME NEW S, NEW s \in Seq(S), NEW Wanted
    PROVE  LET d == Distinct(s, Wanted)
           IN  /\ d \in Seq(S) /\ Len(d) \in Nat
               /\ \A k \in 1..Len(d) : d[k] \in Wanted
               /\ \A k, m \in 1..Len(d) : d[k] = d[m] => k = m
               /\ \A i \in 1..Len(s) :
                    s[i] \in Wanted => \E k \in 1..Len(d) : d[k] = s[i]
<1> DEFINE places == FirstPlaces(s, Wanted)
           before == [i \in places |-> {j \in places : j < i}]
           n == Cardinality(places)
           order == InOrder(before)
           d == Distinct(s, Wanted)
<1>1. Len(s) \in Nat /\ \A i \in 1..Len(s) : s[i] \in S
  OBVIOUS
<1>2. places \in SUBSET (1..Len(s))
  BY DEF FirstPlaces
<1>3. TotalOrder(before) /\ DOMAIN before = places
  <2> HIDE DEF places
  <2> QED
    BY <1>1, <1>2, PlacesAreOrdered
<1>4. /\ n \in Nat
      /\ \A k \in 1..n : order[k] \in places
      /\ \A k, m \in 1..n : order[k] = order[m] => k = m
      /\ \A i \in places : \E k \in 1..n : order[k] = i
  <2> HIDE DEF before, places
  <2> QED
    BY <1>3, InOrderLists
<1>5. d = [k \in 1..n |-> s[order[k]]]
  BY DEF Distinct
<1> HIDE DEF order, d
<1>6. \A k \in 1..n : s[order[k]] \in S /\ s[order[k]] \in Wanted
  BY <1>1, <1>4 DEF FirstPlaces
<1> HIDE DEF n
<1>7. d \in Seq(S) /\ Len(d) = n
  BY <1>4, <1>5, <1>6
<1>8. \A i, j \in places : s[i] = s[j] => i = j
  <2>1. ASSUME NEW i \in places, NEW j \in places, i < j PROVE s[i] # s[j]
    BY <1>1, <2>1 DEF FirstPlaces
  <2>2. \A i \in places : i \in Int
    BY <1>1 DEF FirstPlaces
  <2> QED
    BY <2>1, <2>2
<1>9. \A k, m \in 1..n : d[k] = d[m] => k = m
  <2> HIDE DEF places
  <2> QED
    BY <1>4, <1>5, <1>8
<1>10. ASSUME NEW i \in 1..Len(s), s[i] \in Wanted
       PROVE  \E k \in 1..n : d[k] = s[i]
  <2> DEFINE same == {j \in 1..Len(s) : s[j] = s[i]}
  <2>1. PICK j \in same : \A m \in same : j <= m
    <3>1. same \in SUBSET (1..Len(s)) /\ same # {}
      OBVIOUS
    <3> HIDE DEF same
    <3> QED
      BY <1>1, <3>1, FirstPlace
  <2>2. \A m \in 1..(j - 1) : m \in 1..Len(s) /\ ~(j <= m)
    BY <1>1
  <2>3. j \in places
    BY <1>10, <2>1, <2>2 DEF FirstPlaces
  <2>4. PICK k \in 1..n : order[k] = j
    BY <1>4, <2>3
  <2> QED
    BY <1>5, <2>4
<1> QED
  BY <1>4, <1>5, <1>6, <1>7, <1>9, <1>10 DEF d

(* The files a call gathers: each path it names that is not excluded, once. *)
LEMMA FilesGathered ==
    ASSUME NEW r \in Requests
    PROVE  LET cs == Candidates(r, "file")
               named == r.relevant_files \o r.repo_top_paths
           IN  /\ \E S : cs \in Seq(S)
               /\ \A k \in 1..Len(cs) : cs[k] \notin ExcludedPaths
               /\ \A k, m \in 1..Len(cs) : cs[k] = cs[m] => k = m
               /\ \A path \in Range(named) :
                    path \notin ExcludedPaths => \E k \in 1..Len(cs) : cs[k] = path
<1> DEFINE named == r.relevant_files \o r.repo_top_paths
           S == Range(r.relevant_files) \cup Range(r.repo_top_paths)
           Wanted == Range(named) \ ExcludedPaths
           cs == Candidates(r, "file")
<1>1. named \in Seq(S)
  <2>1. /\ r.relevant_files \in Seq(Range(r.relevant_files))
        /\ r.repo_top_paths \in Seq(Range(r.repo_top_paths))
    BY RequestsAssumption DEF IsList
  <2>2. r.relevant_files \in Seq(S) /\ r.repo_top_paths \in Seq(S)
    BY <2>1, SeqMonotonic
  <2> QED
    BY <2>2, ConcatProperties
<1>2. cs = Distinct(named, Wanted)
  BY DEF Candidates, GatherFileCandidates
<1> HIDE DEF cs, S, named
<1>3. \A path \in Range(named) : \E i \in 1..Len(named) : named[i] = path
  BY <1>1 DEF Range
<1>4. /\ cs \in Seq(S)
      /\ \A k \in 1..Len(cs) : cs[k] \in Wanted
      /\ \A k, m \in 1..Len(cs) : cs[k] = cs[m] => k = m
      /\ \A i \in 1..Len(named) :
           named[i] \in Wanted => \E k \in 1..Len(cs) : cs[k] = named[i]
  <2> HIDE DEF Wanted
  <2> QED
    BY <1>1, <1>2, DistinctLists
<1>5. \A path \in Range(named) :
        path \notin ExcludedPaths => \E k \in 1..Len(cs) : cs[k] = path
  BY <1>3, <1>4
<1> QED
  BY <1>4, <1>5 DEF cs, named

(* Gathering yields a list for every kind. *)
LEMMA CandidatesAreListed ==
    ASSUME NEW r \in Requests, NEW kind \in KindSet
    PROVE  \E S : Candidates(r, kind) \in Seq(S)
<1>1. CASE kind = "file"
  BY <1>1, FilesGathered
<1>2. CASE kind = "failure"
  <2> DEFINE n == Len(Distinct(r.error_logs, ErrorLogs))
             named == [test_name |-> "runtime error", file_path |-> NoFile]
             errors == [i \in 1..n |-> named]
             S == Range(r.failing_tests) \cup {named}
  <2>1. /\ r.failing_tests \in Seq(Range(r.failing_tests))
        /\ r.error_logs \in Seq(Range(r.error_logs))
    BY RequestsAssumption DEF IsList
  <2>2. n \in Nat
    BY <2>1, DistinctLists
  <2>3. errors \in Seq({named})
    <3> HIDE DEF n
    <3> QED
      BY <2>2
  <2>4. r.failing_tests \in Seq(S) /\ errors \in Seq(S)
    <3> HIDE DEF errors, named
    <3> QED
      BY <2>1, <2>3, SeqMonotonic
  <2>5. r.failing_tests \o errors \in Seq(S)
    <3> HIDE DEF errors, S
    <3> QED
      BY <2>4, ConcatProperties
  <2>6. Candidates(r, kind) = r.failing_tests \o errors
    BY <1>2 DEF Candidates, GatherFailureCandidates
  <2> HIDE DEF errors, S
  <2> QED
    BY <2>5, <2>6
<1>3. CASE kind = "doc"
  <2>1. Candidates(r, kind) = <<>> /\ <<>> \in Seq({})
    BY <1>3 DEF Candidates, GatherDocCandidates
  <2> QED
    BY <2>1
<1> QED
  BY <1>1, <1>2, <1>3 DEF KindSet

-----------------------------------------------------------------------------
(* Ranking *)

LEMMA ScoreType ==
    ASSUME NEW r, NEW kind, NEW candidate
    PROVE  Score(r, kind, candidate) \in Nat
<1>1. \A condition \in BOOLEAN, n \in Nat : Points(condition, n) \in Nat
  BY DEF Points
<1>2. ScoreFile(r, candidate) \in Nat
  BY DEF ScoreFile, Points
<1>3. ScoreFailure(r, candidate) \in Nat
  BY DEF ScoreFailure, Points
<1> QED
  BY <1>2, <1>3 DEF Score

(* Falling scores, and places where they are equal, order the places.       *)
LEMMA ScoresOrder ==
    ASSUME NEW n \in Nat, NEW score \in [1..n -> Nat]
    PROVE  TotalOrder([i \in 1..n |-> {j \in 1..n : Ahead(score, j, i)}])
<1> DEFINE before == [i \in 1..n |-> {j \in 1..n : Ahead(score, j, i)}]
<1>1. IsFiniteSet(1..n) /\ DOMAIN before = 1..n
  BY FS_Interval
<1>2. \A i \in 1..n : before[i] \subseteq 1..n /\ i \notin before[i]
  BY DEF Ahead
<1>3. ASSUME NEW i \in 1..n, NEW j \in 1..n, i \in before[j]
      PROVE  before[i] \subseteq before[j]
  BY <1>3 DEF Ahead
<1>4. \A i, j \in 1..n : i # j => i \in before[j] \/ j \in before[i]
  BY DEF Ahead
<1> HIDE DEF before
<1>5. TotalOrder(before)
  BY <1>1, <1>2, <1>3, <1>4 DEF TotalOrder
<1> QED
  BY <1>5 DEF before

(* Ranking rearranges the candidates of a kind, by falling score and, where *)
(* scores are equal, in the order of gathering: it is a stable sort.        *)
THEOREM RankingIsStableSort ==
    ASSUME NEW r \in Requests, NEW kind \in KindSet
    PROVE  LET cs == Candidates(r, kind)
               n == Len(cs)
           IN  /\ n \in Nat /\ Len(Ranked(r, kind)) = n
               /\ \E order \in Bijection(1..n, 1..n) :
                    /\ \A k \in 1..n :
                         Ranked(r, kind)[k] = [item |-> cs[order[k]],
                                               score |-> Score(r, kind, cs[order[k]])]
                    /\ \A k, m \in 1..n :
                         k < m => \/ Ranked(r, kind)[k].score > Ranked(r, kind)[m].score
                                  \/ /\ Ranked(r, kind)[k].score
                                             = Ranked(r, kind)[m].score
                                     /\ order[k] < order[m]
<1> DEFINE cs == Candidates(r, kind)
           n == Len(cs)
           places == 1..n
           score == [i \in places |-> Score(r, kind, cs[i])]
           before == [i \in places |-> {j \in places : Ahead(score, j, i)}]
           order == InOrder(before)
           list == Ranked(r, kind)
<1>1. n \in Nat
  BY CandidatesAreListed, LenProperties
<1>2. list = [k \in places |-> [item |-> cs[order[k]], score |-> score[order[k]]]]
  BY DEF Ranked
<1> HIDE DEF cs, list
<1>3. score \in [places -> Nat]
  BY ScoreType
<1>4. TotalOrder(before) /\ DOMAIN before = places /\ Cardinality(places) = n
  <2>1. Cardinality(places) = n
    BY <1>1, FS_Interval
  <2> HIDE DEF score, n
  <2> QED
    BY <1>1, <1>3, <2>1, ScoresOrder
<1>5. /\ \A k \in places : order[k] \in places
      /\ \A k, m \in places : order[k] = order[m] => k = m
      /\ \A i \in places : \E k \in places : order[k] = i
      /\ \A k, m \in places : k < m => order[k] \in before[order[m]]
  <2> HIDE DEF before
  <2> QED
    BY <1>4, InOrderLists
<1>6. order = [k \in places |-> order[k]]
  <2> HIDE DEF before, places
  <2>1. order = [k \in 1..Cardinality(DOMAIN before) |->
                    CHOOSE i \in DOMAIN before : Cardinality(before[i]) = k - 1]
    BY DEF InOrder
  <2>2. DOMAIN order = places
    BY <1>4, <2>1 DEF places
  <2> QED
    BY <2>1, <2>2
<1> HIDE DEF order
<1>7. order \in Bijection(places, places)
  <2> HIDE DEF places
  <2>1. order \in [places -> places]
    BY <1>5, <1>6
  <2> QED
    BY <1>5, <2>1 DEF Bijection, Injection, Surjection, IsInjective
<1>8. ASSUME NEW k \in places, NEW m \in places, k < m
      PROVE  \/ score[order[k]] > score[order[m]]
             \/ score[order[k]] = score[order[m]] /\ order[k] < order[m]
  BY <1>5, <1>8 DEF Ahead
<1>9. \A k \in places :
        list[k] = [item |-> cs[order[k]], score |-> Score(r, kind, cs[order[k]])]
  BY <1>2, <1>5
<1>10. \A k \in places : list[k].score = score[order[k]]
  BY <1>2
<1>11. Len(list) = n
  <2> HIDE DEF score
  <2> QED
    BY <1>1, <1>2
<1> HIDE DEF score
<1>12. \A k, m \in places :
         k < m => \/ list[k].score > list[m].score
                  \/ list[k].score = list[m].score /\ order[k] < order[m]
  BY <1>8, <1>10
<1> QED
  BY <1>1, <1>7, <1>9, <1>11, <1>12 DEF cs, list
=============================================================================
