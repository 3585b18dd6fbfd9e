------------------------- MODULE ContextRanking_proofs -------------------------
(***************************************************************************)
(* Theorems about the walk of select over its ranked candidates: every     *)
(* candidate is decided on, what is selected of a kind is the best of it,  *)
(* and a file is decided on once.                                          *)
(***************************************************************************)
EXTENDS ContextSelection_proofs, ContextGathering_proofs

LEMMA RankedIsListed ==
    ASSUME NEW r \in Requests, NEW kind \in KindSet
    PROVE  Len(Ranked(r, kind)) \in Nat
BY RankingIsStableSort

(* A ranking falls: no candidate scores higher than one before it.          *)
LEMMA RankingFalls ==
    ASSUME NEW r \in Requests, NEW kind \in KindSet,
           NEW k \in 1..Len(Ranked(r, kind)), NEW m \in 1..Len(Ranked(r, kind)), k <= m
    PROVE  Ranked(r, kind)[k].score >= Ranked(r, kind)[m].score
<1> DEFINE cs == Candidates(r, kind)
           n == Len(cs)
           list == Ranked(r, kind)
<1>1. PICK order \in Bijection(1..n, 1..n) :
        /\ \A i \in 1..n : list[i] = [item |-> cs[order[i]],
                                      score |-> Score(r, kind, cs[order[i]])]
        /\ \A i, j \in 1..n :
             i < j => \/ list[i].score > list[j].score
                      \/ list[i].score = list[j].score /\ order[i] < order[j]
  BY RankingIsStableSort
<1>2. n \in Nat /\ Len(list) = n
  BY RankingIsStableSort
<1> HIDE DEF list, cs
<1>3. ASSUME NEW i \in 1..n PROVE list[i].score \in Nat
  <2>1. list[i] = [item |-> cs[order[i]], score |-> Score(r, kind, cs[order[i]])]
    BY <1>1, Zenon
  <2>2. list[i].score = Score(r, kind, cs[order[i]])
    BY <2>1
  <2> QED
    BY <2>2, ScoreType
<1> HIDE DEF n
<1>4. list[k].score >= list[m].score
  <2>1. k \in 1..n /\ m \in 1..n
    BY <1>2 DEF list
  <2>2. CASE k = m
    BY <1>3, <2>1, <2>2
  <2>3. CASE k < m
    BY <1>1, <1>3, <2>1, <2>3
  <2> QED
    BY <1>2, <2>1, <2>2, <2>3
<1> QED
  BY <1>4 DEF list

-----------------------------------------------------------------------------
(* The inductive invariant: how far the walk is, and how many decisions    *)
(* that makes.                                                             *)
Listed(kind) == Len(ranked[kind])

(* The candidates of the kinds whose loops are over. *)
Passed ==
    CASE turn = 1 -> 0
      [] turn = 2 -> Listed("file")
      [] turn = 3 -> Listed("file") + Listed("failure")
      [] turn = 4 -> Listed("file") + Listed("failure") + Listed("doc")

WalkShape ==
    /\ request \in Requests
    /\ turn \in 1..4
    /\ next \in Nat /\ next >= 1
    /\ \A kind \in KindSet : Listed(kind) \in Nat
    /\ IsSequence(decisions) /\ IsSequence(dropped)
    /\ ~Done => next <= Listed(Kind) + 1
    /\ Done => next = 1

Counted ==
    /\ Len(decisions) = Passed + (next - 1)
    /\ Len(decisions) = total_selected + Len(dropped)

WalkInv == Shape /\ WalkShape /\ Counted

LEMMA WalkInitially ==
    ASSUME SelectInit PROVE WalkInv
<1>1. Shape
  BY CapsInitially DEF CapsInv
<1>2. IsSequence(<<>>) /\ Len(<<>>) = 0
  <2>1. <<>> \in Seq({})
    OBVIOUS
  <2> QED
    BY <2>1 DEF IsSequence
<1>3. \A kind \in KindSet : Listed(kind) \in Nat
  BY RankedIsListed DEF SelectInit, Listed
<1>4. Kind \in KindSet /\ ~Done
  BY DEF SelectInit, Kind, Kinds, KindSet, Done
<1>5. WalkShape
  BY <1>2, <1>3, <1>4 DEF SelectInit, WalkShape
<1>6. Counted
  BY <1>2 DEF SelectInit, Counted, Passed
<1> QED
  BY <1>1, <1>5, <1>6 DEF WalkInv

(* A decision leaves the walk where it is, one candidate further.          *)
LEMMA DecideKeepsWalk ==
    ASSUME WalkInv, Shape', NEW kept, Decide(kept), ~Done, next <= Listed(Kind),
           \/ total_selected' = total_selected + 1 /\ UNCHANGED dropped
           \/ \E e : dropped' = Append(dropped, e) /\ UNCHANGED total_selected
    PROVE  WalkInv'
<1>1. PICK d : decisions' = Append(decisions, d)
  BY DEF Decide
<1>2. /\ IsSequence(decisions')
      /\ Len(decisions) \in Nat /\ Len(decisions') = Len(decisions) + 1
  BY <1>1, AppendAny DEF WalkInv, WalkShape
<1>3. /\ IsSequence(dropped') /\ Len(dropped) \in Nat /\ Len(dropped') \in Nat
      /\ total_selected' + Len(dropped') = total_selected + Len(dropped) + 1
  <2>1. IsSequence(dropped) /\ total_selected \in Nat
    BY DEF WalkInv, WalkShape, Shape
  <2>2. Len(dropped) \in Nat
    BY <2>1, AppendAny
  <2>3. CASE total_selected' = total_selected + 1 /\ UNCHANGED dropped
    BY <2>1, <2>2, <2>3
  <2>4. ASSUME NEW e, dropped' = Append(dropped, e), UNCHANGED total_selected
        PROVE  /\ IsSequence(dropped') /\ Len(dropped') = Len(dropped) + 1
               /\ total_selected' = total_selected
    BY <2>1, <2>4, AppendAny
  <2> QED
    BY <2>1, <2>2, <2>3, <2>4
<1>4. ranked' = ranked /\ turn' = turn /\ next' = next + 1 /\ request' = request
  BY DEF Decide
<1>5. Passed' = Passed /\ Kind' = Kind /\ Done' = Done /\ Listed(Kind)' = Listed(Kind)
  BY <1>4 DEF Passed, Listed, Kind, Done
<1>6. WalkShape'
  <2>1. \A kind \in KindSet : Listed(kind)' \in Nat
    BY <1>4 DEF WalkInv, WalkShape, Listed
  <2>2. Kind \in KindSet
    BY KindOfLoop DEF WalkInv
  <2>3. Listed(Kind) \in Nat /\ next \in Nat /\ next >= 1
    BY <2>2 DEF WalkInv, WalkShape
  <2>4. next' \in Nat /\ next' >= 1 /\ next' <= Listed(Kind)' + 1
    BY <1>4, <1>5, <2>3
  <2> QED
    BY <1>2, <1>3, <1>4, <1>5, <2>1, <2>4 DEF WalkInv, WalkShape
<1>7. Counted'
  <2>1. Len(decisions) = Passed + (next - 1) /\ next \in Nat
    BY DEF WalkInv, Counted, WalkShape
  <2>2. Passed \in Nat
    BY DEF WalkInv, WalkShape, Passed, KindSet
  <2>3. Len(decisions') = Passed' + (next' - 1)
    BY <1>2, <1>4, <1>5, <2>1, <2>2
  <2>4. Len(decisions') = total_selected' + Len(dropped')
    BY <1>2, <1>3 DEF WalkInv, Counted
  <2> QED
    BY <2>3, <2>4 DEF Counted
<1> QED
  BY <1>6, <1>7 DEF WalkInv

(* The loop of the next kind starts where the one before has ended.        *)
LEMMA NextKindKeepsWalk ==
    ASSUME WalkInv, Shape', NextKind PROVE WalkInv'
<1>1. /\ UNCHANGED <<request, ranked, decisions, dropped, total_selected>>
      /\ turn' = turn + 1 /\ next' = 1 /\ ~Done /\ next > Listed(Kind)
  BY DEF NextKind, Listed
<1>2. turn \in 1..3 /\ Kind \in KindSet
  BY <1>1, KindOfLoop DEF WalkInv, WalkShape, Done, Kinds
<1>3. /\ Listed("file") \in Nat /\ Listed("failure") \in Nat /\ Listed("doc") \in Nat
      /\ \A kind \in KindSet : Listed(kind)' = Listed(kind)
  BY <1>1 DEF WalkInv, WalkShape, KindSet, Listed
<1>4. next - 1 = Listed(Kind) /\ next \in Nat
  BY <1>1, <1>2 DEF WalkInv, WalkShape
<1>5. Passed' = Passed + Listed(Kind)
  <2>1. CASE turn = 1
    BY <1>1, <1>3, <2>1 DEF Passed, Kind, Kinds, KindSet
  <2>2. CASE turn = 2
    BY <1>1, <1>3, <2>2 DEF Passed, Kind, Kinds, KindSet
  <2>3. CASE turn = 3
    BY <1>1, <1>3, <2>3 DEF Passed, Kind, Kinds, KindSet
  <2> QED
    BY <1>2, <2>1, <2>2, <2>3
<1>6. Passed \in Nat
  BY <1>3 DEF WalkInv, WalkShape, Passed
<1>7. Counted'
  <2>1. Len(decisions') = Len(decisions) /\ Len(decisions) = Passed + Listed(Kind)
    BY <1>1, <1>4 DEF WalkInv, Counted
  <2>2. Len(decisions') = Passed' + (next' - 1)
    BY <1>1, <1>2, <1>3, <1>5, <1>6, <2>1 DEF KindSet
  <2> QED
    BY <1>1, <2>2 DEF WalkInv, Counted
<1>8. WalkShape'
  <2>1. turn' \in 1..4
    BY <1>1, <1>2
  <2>2. ~Done' => Kind' \in KindSet
    BY <2>1, <1>1, <1>2 DEF Done, Kind, Kinds, KindSet
  <2>3. \A kind \in KindSet : Len(ranked'[kind]) \in Nat
    BY <1>1, <1>3 DEF KindSet, Listed
  <2>4. (~Done => next <= Listed(Kind) + 1)'
    BY <1>1, <2>2, <2>3 DEF Listed
  <2>5. (\A kind \in KindSet : Listed(kind) \in Nat)'
    BY <2>3 DEF Listed
  <2> QED
    BY <1>1, <2>1, <2>4, <2>5 DEF WalkInv, WalkShape
<1> QED
  BY <1>7, <1>8 DEF WalkInv

LEMMA WalkPreserved ==
    ASSUME WalkInv, CapsInv', [SelectNext]_selectionVars PROVE WalkInv'
<1>0. Shape'
  BY DEF CapsInv
<1>1. CASE Take
  <2>1. /\ Decide(TRUE) /\ ~Done /\ next <= Listed(Kind)
        /\ total_selected' = total_selected + 1 /\ UNCHANGED dropped
    BY <1>1 DEF Take, Listed
  <2> QED
    BY <1>0, <2>1, DecideKeepsWalk
<1>2. CASE Drop
  <2>1. /\ Decide(FALSE) /\ ~Done /\ next <= Listed(Kind)
        /\ \E e : dropped' = Append(dropped, e) /\ UNCHANGED total_selected
    BY <1>2 DEF Drop, Listed
  <2> QED
    BY <1>0, <2>1, DecideKeepsWalk
<1>3. CASE NextKind
  BY <1>0, <1>3, NextKindKeepsWalk
<1>4. CASE UNCHANGED selectionVars
  BY <1>0, <1>4 DEF selectionVars, WalkInv, WalkShape, Counted, Passed, Listed,
                    Done, Kind
<1> QED
  BY <1>1, <1>2, <1>3, <1>4 DEF SelectNext

LEMMA WalkHolds == SelectSpec => [](CapsInv /\ WalkInv)
<1>1. SelectInit => CapsInv /\ WalkInv
  BY CapsInitially, WalkInitially
<1>2. CapsInv /\ WalkInv /\ [SelectNext]_selectionVars => (CapsInv /\ WalkInv)'
  BY CapsPreserved, WalkPreserved
<1> QED
  BY <1>1, <1>2, PTL DEF SelectSpec

-----------------------------------------------------------------------------
(* What is selected of a kind is a head of its ranking: the loop takes     *)
(* until the room is used up, and room once used up never comes back.      *)
IsHead ==
    \A kind \in KindSet :
        /\ Len(selected[kind]) <= Listed(kind)
        /\ \A k \in 1..Len(selected[kind]) : selected[kind][k] = ranked[kind][k].item

TakesUntilFull ==
    ~Done => /\ Len(selected[Kind]) <= next - 1
             /\ Len(selected[Kind]) < next - 1 => ~HasRoom

LaterKindsUntouched ==
    \A p \in 1..3 : p > turn => Len(selected[Kinds[p]]) = 0

CutInv == IsHead /\ TakesUntilFull /\ LaterKindsUntouched

IsRanked ==
    /\ request \in Requests
    /\ ranked = [kind \in KindSet |-> Ranked(request, kind)]

LEMMA CutInitially ==
    ASSUME SelectInit PROVE CutInv
<1>1. \A kind \in KindSet : selected[kind] = <<>> /\ Len(<<>>) = 0
  BY DEF SelectInit
<1>2. WalkShape /\ turn = 1 /\ next = 1
  BY WalkInitially DEF SelectInit, WalkInv
<1>3. IsHead
  BY <1>1, <1>2 DEF IsHead, WalkShape
<1>4. TakesUntilFull
  <2>1. Kind \in KindSet
    BY <1>2 DEF Kind, Kinds, KindSet
  <2> QED
    BY <1>1, <1>2, <2>1 DEF TakesUntilFull
<1>5. LaterKindsUntouched
  <2>1. \A p \in 1..3 : Kinds[p] \in KindSet
    BY DEF Kinds, KindSet
  <2> QED
    BY <1>1, <2>1 DEF LaterKindsUntouched
<1> QED
  BY <1>3, <1>4, <1>5 DEF CutInv

(* The kinds of different turns differ. *)
LEMMA KindsDiffer ==
    \A p \in 1..3 : /\ Kinds[p] \in KindSet
                    /\ \A q \in 1..3 : Kinds[p] = Kinds[q] => p = q
BY DEF Kinds, KindSet

LEMMA TakeKeepsCut ==
    ASSUME WalkInv, CutInv, Take PROVE CutInv'
<1>1. /\ ~Done /\ Kind \in KindSet /\ Kind = Kinds[turn] /\ turn \in 1..3
      /\ UNCHANGED <<caps, request, ranked, turn>>
      /\ next' = next + 1 /\ next \in Nat /\ next <= Listed(Kind) /\ HasRoom
  BY KindOfLoop DEF Take, Decide, WalkInv, WalkShape, Listed, Kind, Done, Kinds
<1>2. Len(selected[Kind]) \in Nat /\ Len(selected[Kind]) = next - 1
  BY <1>1 DEF CutInv, TakesUntilFull, WalkInv, Shape
<1>3. selected'[Kind] = Append(selected[Kind], ranked[Kind][next].item)
  BY <1>1 DEF Take, WalkInv, Shape
<1>4. /\ Len(selected'[Kind]) = next
      /\ \A k \in 1..(next - 1) : selected'[Kind][k] = selected[Kind][k]
      /\ selected'[Kind][next] = ranked[Kind][next].item
  <2>1. IsSequence(selected[Kind])
    BY <1>1 DEF WalkInv, Shape
  <2>2. Len(selected[Kind]) + 1 = next
    BY <1>1, <1>2
  <2>3. /\ Len(selected'[Kind]) = Len(selected[Kind]) + 1
        /\ \A k \in 1..Len(selected[Kind]) : selected'[Kind][k] = selected[Kind][k]
        /\ selected'[Kind][Len(selected[Kind]) + 1] = ranked[Kind][next].item
    BY <1>3, <2>1, AppendAny
  <2> QED
    BY <1>2, <2>2, <2>3
<1>5. \A kind \in KindSet \ {Kind} : selected'[kind] = selected[kind]
  BY TakeEffect DEF WalkInv
<1>6. IsHead'
  <2>1. ASSUME NEW kind \in KindSet
        PROVE  /\ Len(selected'[kind]) <= Len(ranked[kind])
               /\ \A k \in 1..Len(selected'[kind]) :
                    selected'[kind][k] = ranked[kind][k].item
    <3>1. CASE kind = Kind
      <4>1. \A k \in 1..(next - 1) : selected[Kind][k] = ranked[Kind][k].item
        BY <1>1, <1>2 DEF CutInv, IsHead
      <4>2. \A k \in 1..next : k \in 1..(next - 1) \/ k = next
        BY <1>1
      <4> QED
        BY <1>1, <1>4, <3>1, <4>1, <4>2 DEF Listed
    <3>2. CASE kind # Kind
      BY <1>5, <3>2 DEF CutInv, IsHead, Listed
    <3> QED
      BY <3>1, <3>2
  <2> QED
    BY <1>1, <2>1 DEF IsHead, Listed
<1>7. TakesUntilFull'
  <2>1. Kind' = Kind
    BY <1>1 DEF Kind
  <2>2. (Len(selected[Kind]))' = next /\ next' - 1 = next
    BY <1>1, <1>4, <2>1
  <2> QED
    BY <1>1, <2>2 DEF TakesUntilFull
<1>8. LaterKindsUntouched'
  BY <1>1, <1>5, KindsDiffer DEF CutInv, LaterKindsUntouched
<1> QED
  BY <1>6, <1>7, <1>8 DEF CutInv

LEMMA DropKeepsCut ==
    ASSUME WalkInv, CutInv, Drop PROVE CutInv'
<1>1. /\ UNCHANGED <<caps, request, ranked, turn, selected, total_selected>>
      /\ next' = next + 1 /\ next \in Nat /\ ~HasRoom /\ ~Done
  BY DEF Drop, Decide, WalkInv, WalkShape
<1>2. Kind' = Kind /\ HasRoom' = HasRoom /\ Done' = Done
  BY <1>1 DEF Kind, HasRoom, Done
<1>3. Len(selected[Kind]) \in Nat /\ Len(selected[Kind]) <= next - 1
  BY <1>1, KindOfLoop DEF CutInv, TakesUntilFull, WalkInv, Shape
<1>4. (Len(selected[Kind]))' = Len(selected[Kind])
  BY <1>1, <1>2
<1> QED
  BY <1>1, <1>2, <1>3, <1>4 DEF CutInv, IsHead, TakesUntilFull, LaterKindsUntouched,
                               Listed

LEMMA NextKindKeepsCut ==
    ASSUME WalkInv, CutInv, NextKind PROVE CutInv'
<1>1. /\ UNCHANGED <<caps, ranked, selected>>
      /\ turn' = turn + 1 /\ next' = 1 /\ turn \in 1..4
  BY DEF NextKind, WalkInv, WalkShape
<1>2. LaterKindsUntouched'
  BY <1>1 DEF CutInv, LaterKindsUntouched
<1>3. TakesUntilFull'
  <2> SUFFICES ASSUME ~Done' PROVE (/\ Len(selected[Kind]) <= next - 1
                                    /\ Len(selected[Kind]) < next - 1 => ~HasRoom)'
    BY DEF TakesUntilFull
  <2>1. turn' \in 1..3 /\ turn' > turn
    BY <1>1 DEF Done, Kinds
  <2>2. Len(selected[Kinds[turn']]) = 0
    BY <2>1 DEF CutInv, LaterKindsUntouched
  <2>3. (Len(selected[Kind]))' = 0
    BY <1>1, <2>2 DEF Kind
  <2> QED
    BY <1>1, <2>3
<1> QED
  BY <1>1, <1>2, <1>3 DEF CutInv, IsHead, Listed

LEMMA CutHolds == SelectSpec => [](CapsInv /\ WalkInv /\ CutInv /\ IsRanked)
<1>1. SelectInit => CutInv /\ IsRanked
  BY CutInitially DEF SelectInit, IsRanked
<1>2. /\ CapsInv /\ WalkInv /\ CutInv /\ IsRanked /\ [SelectNext]_selectionVars
      => (CutInv /\ IsRanked)'
  <2> SUFFICES ASSUME WalkInv, CutInv, IsRanked, [SelectNext]_selectionVars
               PROVE  (CutInv /\ IsRanked)'
    OBVIOUS
  <2>1. IsRanked'
    BY DEF IsRanked, SelectNext, Take, Drop, NextKind, Decide, selectionVars
  <2>2. CASE UNCHANGED selectionVars
    <3>1. /\ Kind' = Kind /\ Done' = Done /\ HasRoom' = HasRoom
          /\ UNCHANGED <<ranked, selected, turn, next>>
      BY <2>2 DEF selectionVars, Kind, Done, HasRoom
    <3>2. (Len(selected[Kind]))' = Len(selected[Kind])
      BY <3>1
    <3>3. IsHead'
      BY <3>1 DEF CutInv, IsHead, Listed
    <3>4. TakesUntilFull'
      BY <3>1, <3>2 DEF CutInv, TakesUntilFull
    <3>5. LaterKindsUntouched'
      BY <3>1 DEF CutInv, LaterKindsUntouched
    <3> QED
      BY <2>1, <3>3, <3>4, <3>5 DEF CutInv
  <2> QED
    BY <2>1, <2>2, TakeKeepsCut, DropKeepsCut, NextKindKeepsCut DEF SelectNext
<1> QED
  BY <1>1, <1>2, WalkHolds, PTL DEF SelectSpec

(* The cut is at a rank: nothing dropped scores higher than something       *)
(* selected of its kind, for all requests, scores and caps.                 *)
THEOREM SelectedAreBest == SelectSpec => []BestOfKindSelected
<1>1. CapsInv /\ WalkInv /\ CutInv /\ IsRanked => BestOfKindSelected
  <2> SUFFICES ASSUME CapsInv, WalkInv, CutInv, IsRanked, NEW kind \in KindSet
               PROVE  /\ Len(selected[kind]) <= Len(ranked[kind])
                      /\ \A k \in 1..Len(selected[kind]) :
                           /\ selected[kind][k] = ranked[kind][k].item
                           /\ \A m \in k..Len(ranked[kind]) :
                                ranked[kind][k].score >= ranked[kind][m].score
    BY DEF BestOfKindSelected
  <2>1. /\ Len(selected[kind]) <= Len(ranked[kind])
        /\ \A k \in 1..Len(selected[kind]) : selected[kind][k] = ranked[kind][k].item
    BY DEF CutInv, IsHead, Listed
  <2>2. Len(selected[kind]) \in Nat /\ Len(ranked[kind]) \in Nat
    BY DEF WalkInv, Shape, WalkShape, Listed
  <2>3. \A k, m \in 1..Len(ranked[kind]) :
          k <= m => ranked[kind][k].score >= ranked[kind][m].score
    BY RankingFalls DEF IsRanked
  <2>4. \A k \in 1..Len(selected[kind]) : \A m \in k..Len(ranked[kind]) :
          k \in 1..Len(ranked[kind]) /\ m \in 1..Len(ranked[kind]) /\ k <= m
    BY <2>1, <2>2
  <2> QED
    BY <2>1, <2>3, <2>4
<1> QED
  BY <1>1, CutHolds, PTL

-----------------------------------------------------------------------------
(* The decisions follow the walk: kind by kind, each kind in the order of   *)
(* its ranking, and kept is the length of the head that is selected.        *)
Decision(kind, k) ==
    [item |-> ranked[kind][k].item, kind |-> kind, kept |-> k <= Len(selected[kind])]

Walked(p) == IF p < turn THEN Listed(Kinds[p]) ELSE IF p = turn THEN next - 1 ELSE 0

DecidedInv ==
    \A p \in 1..3 : \A k \in 1..Walked(p) :
        decisions[DecisionsBefore(Kinds[p]) + k] = Decision(Kinds[p], k)

LEMMA ListedType ==
    ASSUME WalkInv
    PROVE  /\ Listed("file") \in Nat /\ Listed("failure") \in Nat /\ Listed("doc") \in Nat
           /\ \A p \in 1..3 : /\ Listed(Kinds[p]) \in Nat
                              /\ DecisionsBefore(Kinds[p]) \in Nat
                              /\ Walked(p) \in Nat /\ Walked(p) <= Listed(Kinds[p])
<1>1. Listed("file") \in Nat /\ Listed("failure") \in Nat /\ Listed("doc") \in Nat
  BY DEF WalkInv, WalkShape, KindSet
<1>2. \A p \in 1..3 : Listed(Kinds[p]) \in Nat
  BY <1>1 DEF Kinds
<1>3. ASSUME NEW p \in 1..3 PROVE DecisionsBefore(Kinds[p]) \in Nat
  <2>1. CASE p = 1
    BY <2>1 DEF Kinds, DecisionsBefore
  <2>2. CASE p = 2
    BY <1>1, <2>2 DEF Kinds, DecisionsBefore, Listed
  <2>3. CASE p = 3
    <3>1. PICK f \in Nat, g \in Nat : f = Len(ranked["file"]) /\ g = Len(ranked["failure"])
      BY <1>1 DEF Listed
    <3>2. DecisionsBefore(Kinds[3]) = f + g
      BY <3>1 DEF Kinds, DecisionsBefore
    <3> QED
      BY <2>3, <3>2
  <2> QED
    BY <2>1, <2>2, <2>3
<1>4. ASSUME NEW p \in 1..3
      PROVE  Walked(p) \in Nat /\ Walked(p) <= Listed(Kinds[p])
  <2>1. turn \in 1..4 /\ next \in Nat /\ next >= 1
    BY DEF WalkInv, WalkShape
  <2>2. CASE p = turn
    <3>1. next <= Listed(Kinds[p]) + 1
      BY <2>2 DEF WalkInv, WalkShape, Done, Kind, Kinds
    <3> QED
      BY <1>2, <2>1, <2>2, <3>1 DEF Walked
  <2>3. CASE p # turn
    BY <1>2, <2>1, <2>3 DEF Walked
  <2> QED
    BY <2>2, <2>3
<1> QED
  BY <1>1, <1>2, <1>3, <1>4

(* A walked candidate was decided on at a place of its own, below the       *)
(* number of decisions, and there are no other decisions.                   *)
LEMMA PlacesOfDecisions ==
    ASSUME WalkInv
    PROVE  /\ \A p \in 1..3 : \A k \in 1..Walked(p) :
                DecisionsBefore(Kinds[p]) + k \in 1..Len(decisions)
           /\ \A i \in 1..Len(decisions) : \E p \in 1..3 : \E k \in 1..Walked(p) :
                i = DecisionsBefore(Kinds[p]) + k
<1>1. PICK f \in Nat, g \in Nat, h \in Nat :
        f = Listed("file") /\ g = Listed("failure") /\ h = Listed("doc")
  BY ListedType
<1>2. /\ DecisionsBefore(Kinds[1]) = 0 /\ DecisionsBefore(Kinds[2]) = f
      /\ DecisionsBefore(Kinds[3]) = f + g
      /\ Listed(Kinds[1]) = f /\ Listed(Kinds[2]) = g /\ Listed(Kinds[3]) = h
  BY <1>1 DEF DecisionsBefore, Kinds, Listed
<1>3. turn \in 1..4 /\ next \in Nat /\ next >= 1 /\ (turn = 4 => next = 1)
  BY DEF WalkInv, WalkShape, Done, Kinds
<1>4. Len(decisions) = Passed + (next - 1)
  BY DEF WalkInv, Counted
<1>5. /\ Walked(1) \in Nat /\ Walked(2) \in Nat /\ Walked(3) \in Nat
      /\ Walked(2) # 0 => Walked(1) = f
      /\ Walked(3) # 0 => Walked(1) = f /\ Walked(2) = g
      /\ Len(decisions) = Walked(1) + Walked(2) + Walked(3)
  <2>1. CASE turn = 1
    BY <1>3, <1>4, <2>1 DEF Passed, Walked
  <2>2. CASE turn = 2
    BY <1>1, <1>2, <1>3, <1>4, <2>2 DEF Passed, Walked
  <2>3. CASE turn = 3
    BY <1>1, <1>2, <1>3, <1>4, <2>3 DEF Passed, Walked
  <2>4. CASE turn = 4
    BY <1>1, <1>2, <1>3, <1>4, <2>4 DEF Passed, Walked
  <2> QED
    BY <1>3, <2>1, <2>2, <2>3, <2>4
<1>6. ASSUME NEW p \in 1..3, NEW k \in 1..Walked(p)
      PROVE  DecisionsBefore(Kinds[p]) + k \in 1..Len(decisions)
  <2>1. CASE p = 1
    BY <1>2, <1>5, <2>1
  <2>2. CASE p = 2
    BY <1>2, <1>5, <2>2
  <2>3. CASE p = 3
    BY <1>2, <1>5, <2>3
  <2> QED
    BY <2>1, <2>2, <2>3
<1>7. ASSUME NEW i \in 1..Len(decisions)
      PROVE  \E p \in 1..3 : \E k \in 1..Walked(p) : i = DecisionsBefore(Kinds[p]) + k
  <2>1. CASE i <= Walked(1)
    <3>1. i \in 1..Walked(1) /\ i = DecisionsBefore(Kinds[1]) + i /\ 1 \in 1..3
      BY <1>2, <1>5, <2>1
    <3> QED
      BY <3>1, Zenon
  <2>2. CASE Walked(1) < i /\ i <= Walked(1) + Walked(2)
    <3>1. /\ i - f \in 1..Walked(2) /\ i = DecisionsBefore(Kinds[2]) + (i - f)
          /\ 2 \in 1..3
      BY <1>2, <1>5, <2>2
    <3> QED
      BY <3>1, Zenon
  <2>3. CASE Walked(1) + Walked(2) < i
    <3>1. /\ i - (f + g) \in 1..Walked(3) /\ 3 \in 1..3
          /\ i = DecisionsBefore(Kinds[3]) + (i - (f + g))
      BY <1>2, <1>5, <2>3
    <3> QED
      BY <3>1, Zenon
  <2> QED
    BY <1>5, <2>1, <2>2, <2>3
<1> QED
  BY <1>6, <1>7

(* A decision keeps those before it; it follows the candidates walked.      *)
LEMMA DecideKeepsDecided ==
    ASSUME WalkInv, CutInv, DecidedInv, ~Done,
           NEW kept \in BOOLEAN, Decide(kept),
           \A kind \in KindSet \ {Kind} : selected'[kind] = selected[kind],
           \A k \in 1..(next - 1) :
              (k <= Len(selected'[Kind])) = (k <= Len(selected[Kind])),
           kept = (next <= Len(selected'[Kind]))
    PROVE  DecidedInv'
<1>1. /\ turn \in 1..3 /\ Kind = Kinds[turn] /\ Kind \in KindSet
      /\ next \in Nat /\ next >= 1
  BY KindsDiffer DEF WalkInv, WalkShape, Done, Kinds, Kind
<1>2. /\ UNCHANGED <<ranked, turn>> /\ next' = next + 1
      /\ decisions' = Append(decisions, [item |-> ranked[Kind][next].item,
                                         kind |-> Kind, kept |-> kept])
  BY DEF Decide
<1>3. PICK n \in Nat : n = Len(decisions)
  BY AppendAny DEF WalkInv, WalkShape
<1>4. /\ \A i \in 1..n : decisions'[i] = decisions[i]
      /\ decisions'[n + 1] = [item |-> ranked[Kind][next].item,
                              kind |-> Kind, kept |-> kept]
  BY <1>2, <1>3, AppendAny DEF WalkInv, WalkShape
<1>5. n + 1 = DecisionsBefore(Kind) + next
  <2>1. Passed = DecisionsBefore(Kind)
    <3>1. CASE turn = 1
      BY <1>1, <3>1 DEF Passed, DecisionsBefore, Kinds
    <3>2. CASE turn = 2
      BY <1>1, <3>2 DEF Passed, DecisionsBefore, Kinds, Listed
    <3>3. CASE turn = 3
      BY <1>1, <3>3 DEF Passed, DecisionsBefore, Kinds, Listed
    <3> QED
      BY <1>1, <3>1, <3>2, <3>3
  <2>2. DecisionsBefore(Kind) \in Nat
    BY <1>1, ListedType
  <2> QED
    BY <1>1, <1>3, <2>1, <2>2 DEF WalkInv, Counted
<1>6. \A kind \in KindSet : DecisionsBefore(kind)' = DecisionsBefore(kind)
  BY <1>2 DEF DecisionsBefore
<1>7. ASSUME NEW p \in 1..3, NEW k \in 1..Walked(p)
      PROVE  decisions'[DecisionsBefore(Kinds[p]) + k] = Decision(Kinds[p], k)'
  <2>1. decisions'[DecisionsBefore(Kinds[p]) + k] = Decision(Kinds[p], k)
    BY <1>3, <1>4, PlacesOfDecisions DEF DecidedInv
  <2>2. CASE p = turn
    <3>1. k \in 1..(next - 1)
      BY <2>2 DEF Walked
    <3>2. (k <= Len(selected'[Kind])) = (k <= Len(selected[Kind]))
      BY <3>1
    <3>3. Kinds[p] = Kind
      BY <1>1, <2>2
    <3>4. Decision(Kind, k) = Decision(Kinds[p], k)'
      BY <1>2, <3>2, <3>3, Zenon DEF Decision
    <3> QED
      BY <2>1, <3>3, <3>4
  <2>3. CASE p # turn
    <3>1. selected'[Kinds[p]] = selected[Kinds[p]]
      BY <1>1, <2>3, KindsDiffer
    <3> QED
      BY <1>2, <2>1, <3>1 DEF Decision
  <2> QED
    BY <2>2, <2>3
<1>8. ASSUME NEW p \in 1..3, NEW k \in Nat, p = turn, k = next
      PROVE  decisions'[DecisionsBefore(Kinds[p]) + k] = Decision(Kinds[p], k)'
  <2>1. Kinds[p] = Kind /\ n + 1 = DecisionsBefore(Kinds[p]) + k
    BY <1>1, <1>5, <1>8
  <2>2. decisions'[n + 1] = [item |-> ranked'[Kinds[p]][k].item, kind |-> Kinds[p],
                             kept |-> k <= Len(selected'[Kinds[p]])]
    BY <1>2, <1>4, <1>8, <2>1, Zenon
  <2> QED
    BY <2>1, <2>2, Zenon DEF Decision
<1>9. ASSUME NEW p \in 1..3, NEW k \in 1..(Walked(p)')
      PROVE  decisions'[DecisionsBefore(Kinds[p])' + k] = Decision(Kinds[p], k)'
  <2>1. DecisionsBefore(Kinds[p])' = DecisionsBefore(Kinds[p])
    BY <1>6, KindsDiffer
  <2>2. CASE k \in 1..Walked(p)
    BY <1>7, <2>1, <2>2
  <2>3. CASE k \notin 1..Walked(p)
    <3>1. p = turn /\ k = next /\ k \in Nat
      BY <1>1, <1>2, <2>3 DEF Walked, Listed
    <3> QED
      BY <1>8, <2>1, <3>1
  <2> QED
    BY <2>2, <2>3
<1> QED
  BY <1>9 DEF DecidedInv

LEMMA DecidedPreserved ==
    ASSUME CapsInv, WalkInv, CutInv, DecidedInv, [SelectNext]_selectionVars
    PROVE  DecidedInv'
<1>1. CASE Take
  <2>1. /\ ~Done /\ Decide(TRUE) /\ Kind \in KindSet /\ HasRoom
        /\ \A kind \in KindSet \ {Kind} : selected'[kind] = selected[kind]
        /\ Len(selected'[Kind]) = Len(selected[Kind]) + 1
    BY <1>1, TakeEffect DEF Take, CapsInv
  <2>2. Len(selected[Kind]) = next - 1 /\ next \in Nat /\ next >= 1
    BY <2>1 DEF CutInv, TakesUntilFull, WalkInv, WalkShape, Shape
  <2>3. Len(selected'[Kind]) = next
    BY <2>1, <2>2
  <2>4. \A k \in 1..(next - 1) :
          (k <= Len(selected'[Kind])) = (k <= Len(selected[Kind]))
    BY <2>2, <2>3
  <2>5. TRUE = (next <= Len(selected'[Kind]))
    BY <2>2, <2>3
  <2> QED
    BY <2>1, <2>4, <2>5, DecideKeepsDecided
<1>2. CASE Drop
  <2>1. /\ ~Done /\ Decide(FALSE) /\ Kind \in KindSet /\ selected' = selected
    BY <1>2, KindOfLoop DEF Drop, CapsInv
  <2>2. FALSE = (next <= Len(selected'[Kind]))
    BY <2>1 DEF CutInv, TakesUntilFull, WalkInv, WalkShape, Shape
  <2> QED
    BY <2>1, <2>2, DecideKeepsDecided
<1>3. CASE NextKind
  <2>1. /\ UNCHANGED <<ranked, selected, decisions>>
        /\ turn' = turn + 1 /\ next' = 1 /\ turn \in 1..3 /\ next > Listed(Kind)
        /\ Kind = Kinds[turn]
    BY <1>3 DEF NextKind, WalkInv, WalkShape, Done, Kinds, Listed, Kind
  <2>2. ASSUME NEW p \in 1..3 PROVE Walked(p)' = Walked(p)
    <3>1. Listed(Kinds[p])' = Listed(Kinds[p])
      BY <2>1 DEF Listed
    <3>2. CASE p = turn
      <4>1. next - 1 = Listed(Kinds[p])
        BY <2>1, <3>2, KindOfLoop, ListedType DEF WalkInv, WalkShape, Done, Kinds
      <4> QED
        BY <2>1, <3>1, <3>2, <4>1 DEF Walked
    <3>3. CASE p # turn
      BY <2>1, <3>1, <3>3 DEF Walked
    <3> QED
      BY <3>2, <3>3
  <2>3. \A p \in 1..3 : DecisionsBefore(Kinds[p])' = DecisionsBefore(Kinds[p])
    BY <2>1 DEF DecisionsBefore
  <2>4. \A p \in 1..3 : \A k : Decision(Kinds[p], k)' = Decision(Kinds[p], k)
    BY <2>1, Zenon DEF Decision
  <2> QED
    BY <2>1, <2>2, <2>3, <2>4 DEF DecidedInv
<1>4. CASE UNCHANGED selectionVars
  BY <1>4 DEF selectionVars, DecidedInv, Walked, Decision, DecisionsBefore, Listed
<1> QED
  BY <1>1, <1>2, <1>3, <1>4 DEF SelectNext

LEMMA DecidedHolds ==
    SelectSpec => [](CapsInv /\ WalkInv /\ CutInv /\ IsRanked /\ DecidedInv)
<1>1. SelectInit => DecidedInv
  <2> SUFFICES ASSUME SelectInit, NEW p \in 1..3 PROVE Walked(p) = 0
    BY DEF DecidedInv
  <2> QED
    BY DEF SelectInit, Walked
<1>2. /\ CapsInv /\ WalkInv /\ CutInv /\ IsRanked /\ DecidedInv
      /\ [SelectNext]_selectionVars
      => DecidedInv'
  BY DecidedPreserved
<1> QED
  BY <1>1, <1>2, CutHolds, PTL DEF SelectSpec

(* A finished selection lists a decision for every candidate it gathered,   *)
(* kind by kind and each kind by rank, and the decision tells whether it    *)
(* was selected: for all requests, scores and caps.                         *)
THEOREM AllCandidatesDecided == SelectSpec => []EveryCandidateDecided
<1>1. WalkInv /\ DecidedInv => EveryCandidateDecided
  <2> SUFFICES ASSUME WalkInv, DecidedInv, Done PROVE EveryCandidateDecided
    BY DEF EveryCandidateDecided
  <2>1. turn = 4 /\ next = 1
    BY DEF WalkInv, WalkShape, Done, Kinds
  <2>2. PICK f \in Nat, g \in Nat, h \in Nat :
          f = Listed("file") /\ g = Listed("failure") /\ h = Listed("doc")
    BY ListedType
  <2>3. Len(decisions) = f + g + h
    BY <2>1, <2>2 DEF WalkInv, Counted, Passed
  <2>4. DecisionsBefore("doc") = f + g
    BY <2>2 DEF DecisionsBefore, Listed
  <2>5. ASSUME NEW kind \in KindSet, NEW k \in 1..Len(ranked[kind])
        PROVE  decisions[DecisionsBefore(kind) + k] =
                   [item |-> ranked[kind][k].item, kind |-> kind,
                    kept |-> k <= Len(selected[kind])]
    <3>1. PICK p \in 1..3 : kind = Kinds[p]
      <4>1. kind = Kinds[1] \/ kind = Kinds[2] \/ kind = Kinds[3]
        BY DEF Kinds, KindSet
      <4> QED
        BY <4>1
    <3>2. k \in 1..Walked(p)
      BY <2>1, <3>1 DEF Walked, Listed
    <3> QED
      BY <3>1, <3>2, Zenon DEF DecidedInv, Decision
  <2>6. Len(decisions) = total_selected + Len(dropped)
    BY DEF WalkInv, Counted
  <2>7. Len(decisions) = DecisionsBefore("doc") + Len(ranked["doc"])
    BY <2>2, <2>3, <2>4 DEF Listed
  <2> QED
    BY <2>5, <2>6, <2>7, Zenon DEF EveryCandidateDecided
<1> QED
  BY <1>1, DecidedHolds, PTL

(* The files that were decided on are the ranked ones, in their order.      *)
LEMMA FileDecisionIsRanked ==
    ASSUME WalkInv, DecidedInv, NEW i \in FileDecisions
    PROVE  /\ i \in 1..Listed("file")
           /\ decisions[i].item = ranked["file"][i].item
<1>0. PICK p \in 1..3 : \E k \in 1..Walked(p) : i = DecisionsBefore(Kinds[p]) + k
  BY PlacesOfDecisions DEF FileDecisions
<1>1. PICK k \in 1..Walked(p) : i = DecisionsBefore(Kinds[p]) + k
  BY <1>0
<1>2. decisions[i] = Decision(Kinds[p], k)
  BY <1>1 DEF DecidedInv
<1>3. decisions[i].kind = Kinds[p] /\ decisions[i].item = ranked[Kinds[p]][k].item
  BY <1>2 DEF Decision
<1>4. Kinds[p] = "file"
  BY <1>3 DEF FileDecisions
<1>5. i = k
  BY <1>1, <1>4, ListedType DEF DecisionsBefore
<1> QED
  BY <1>1, <1>3, <1>4, <1>5, ListedType

(* A path is decided on once, an excluded path never, and in the end every  *)
(* other path of the call was: for all requests, scores and caps.           *)
THEOREM EachFileDecidedOnce == SelectSpec => []FilesDecidedOnce
<1>1. WalkInv /\ IsRanked /\ DecidedInv => FilesDecidedOnce
  <2> SUFFICES ASSUME WalkInv, IsRanked, DecidedInv PROVE FilesDecidedOnce
    OBVIOUS
  <2> DEFINE cs == Candidates(request, "file")
             n == Len(cs)
             list == Ranked(request, "file")
             named == request.relevant_files \o request.repo_top_paths
  <2>1. request \in Requests /\ ranked["file"] = list /\ "file" \in KindSet
    BY DEF IsRanked, KindSet
  <2>2. PICK order \in Bijection(1..n, 1..n) :
          \A k \in 1..n :
            list[k] = [item |-> cs[order[k]], score |-> Score(request, "file", cs[order[k]])]
    BY <2>1, RankingIsStableSort, Zenon
  <2>3. n \in Nat /\ Listed("file") = n
    BY <2>1, RankingIsStableSort DEF Listed
  <2>4. /\ \A k \in 1..n : cs[k] \notin ExcludedPaths
        /\ \A k, m \in 1..n : cs[k] = cs[m] => k = m
        /\ \A path \in Range(named) :
             path \notin ExcludedPaths => \E k \in 1..n : cs[k] = path
    BY <2>1, FilesGathered
  <2> HIDE DEF cs, list, named
  <2>5. /\ \A k \in 1..n : order[k] \in 1..n
        /\ \A k, m \in 1..n : order[k] = order[m] => k = m
        /\ \A j \in 1..n : \E k \in 1..n : order[k] = j
    <3> HIDE DEF n
    <3> QED
      BY <2>2 DEF Bijection, Injection, Surjection, IsInjective
  <2>6. ASSUME NEW k \in 1..n PROVE list[k].item = cs[order[k]]
    <3>1. list[k] = [item |-> cs[order[k]], score |-> Score(request, "file", cs[order[k]])]
      BY <2>2, Zenon
    <3> QED
      BY <3>1
  <2> HIDE DEF n
  <2>7. \A i \in FileDecisions : i \in 1..n /\ decisions[i].item = cs[order[i]]
    BY <2>1, <2>3, <2>6, FileDecisionIsRanked
  <2>8. ASSUME NEW i \in FileDecisions, NEW j \in FileDecisions,
               decisions[i].item = decisions[j].item
        PROVE  i = j
    <3>1. i \in 1..n /\ j \in 1..n /\ cs[order[i]] = cs[order[j]]
      BY <2>7, <2>8
    <3>2. PICK k \in 1..n, m \in 1..n : k = order[i] /\ m = order[j]
      BY <2>5, <3>1
    <3>3. k = m
      BY <2>4, <3>1, <3>2
    <3> QED
      BY <2>5, <3>1, <3>2, <3>3, Zenon
  <2>9. \A i \in FileDecisions : decisions[i].item \notin ExcludedPaths
    BY <2>4, <2>5, <2>7
  <2>10. ASSUME Done, NEW path \in Range(named), path \notin ExcludedPaths
         PROVE  \E i \in FileDecisions : decisions[i].item = path
    <3>1. PICK k \in 1..n : cs[order[k]] = path
      BY <2>4, <2>5, <2>10
    <3>2. turn = 4 /\ Kinds[1] = "file"
      BY <2>10 DEF WalkInv, WalkShape, Done, Kinds
    <3>3. k \in 1..Walked(1)
      BY <2>3, <3>2 DEF Walked
    <3>4. DecisionsBefore(Kinds[1]) + k = k
      BY <3>2 DEF DecisionsBefore
    <3>5. k \in 1..Len(decisions)
      BY <3>3, <3>4, PlacesOfDecisions
    <3>6. decisions[k] = Decision("file", k)
      BY <3>2, <3>3, <3>4 DEF DecidedInv
    <3>7. decisions[k].kind = "file" /\ decisions[k].item = ranked["file"][k].item
      BY <3>6 DEF Decision
    <3> QED
      BY <2>1, <2>6, <3>1, <3>5, <3>7 DEF FileDecisions
  <2> QED
    BY <2>8, <2>9, <2>10 DEF FilesDecidedOnce, named
<1> QED
  BY <1>1, DecidedHolds, PTL

=============================================================================
