------------------------ MODULE ContextSelection_proofs ------------------------
(***************************************************************************)
(* Theorems about the caps of a selection, for all requests, all scores    *)
(* and all policies.                                                       *)
(***************************************************************************)
EXTENDS ContextSelection, SequenceTheorems, TLAPS

(* The items of a selection have no common type worth naming. *)
IsSequence(s) == \E S : s \in Seq(S)

(* Appending to a sequence makes it one longer and keeps what it had. *)
LEMMA AppendAny ==
    ASSUME NEW s, IsSequence(s), NEW e
    PROVE  /\ IsSequence(Append(s, e))
           /\ Len(s) \in Nat
           /\ Len(Append(s, e)) = Len(s) + 1
           /\ \A i \in 1..Len(s) : Append(s, e)[i] = s[i]
           /\ Append(s, e)[Len(s) + 1] = e
<1>1. PICK S : s \in Seq(S)
  BY DEF IsSequence
<1>2. s \in Seq(S \cup {e}) /\ e \in S \cup {e}
  BY <1>1
<1>3. Append(s, e) \in Seq(S \cup {e})
  BY <1>2, AppendProperties
<1> QED
  BY <1>2, <1>3, AppendProperties, LenProperties DEF IsSequence

-----------------------------------------------------------------------------
(* The inductive invariant: the shape of the state, and the caps. *)
Shape ==
    /\ caps \in Policies
    /\ turn \in Nat /\ turn >= 1
    /\ total_selected \in Nat
    /\ selected = [kind \in KindSet |-> selected[kind]]
    /\ \A kind \in KindSet : IsSequence(selected[kind]) /\ Len(selected[kind]) \in Nat

CapsInv == Shape /\ CapsRespected

(* While a loop runs it is the loop of a kind. *)
LEMMA KindOfLoop ==
    ASSUME Shape, ~Done
    PROVE  Kind \in KindSet
<1>1. turn \in 1..3
  BY DEF Shape, Done, Kinds
<1> QED
  BY <1>1 DEF Kind, Kinds, KindSet

(* The caps of the kinds are numbers. *)
LEMMA CapType ==
    ASSUME caps \in Policies
    PROVE  /\ caps["total"] \in Nat
           /\ \A kind \in KindSet : caps[kind] \in Nat
BY PoliciesAssumption DEF KindSet

(* What taking a candidate does to the lists. *)
LEMMA TakeEffect ==
    ASSUME Shape, Take
    PROVE  /\ Kind \in KindSet
           /\ selected' = [kind \in KindSet |-> selected'[kind]]
           /\ IsSequence(selected'[Kind])
           /\ Len(selected'[Kind]) = Len(selected[Kind]) + 1
           /\ \A kind \in KindSet \ {Kind} : selected'[kind] = selected[kind]
           /\ total_selected' = total_selected + 1
<1>1. Kind \in KindSet
  BY KindOfLoop DEF Take
<1>2. PICK e : selected' = [selected EXCEPT ![Kind] = Append(selected[Kind], e)]
  BY DEF Take
<1>3. selected'[Kind] = Append(selected[Kind], e)
  BY <1>1, <1>2 DEF Shape
<1>4. \A kind \in KindSet \ {Kind} : selected'[kind] = selected[kind]
  BY <1>1, <1>2 DEF Shape
<1>5. selected' = [kind \in KindSet |-> selected'[kind]]
  BY <1>1, <1>2 DEF Shape
<1>6. IsSequence(selected[Kind])
  BY <1>1 DEF Shape
<1> QED
  BY <1>1, <1>3, <1>4, <1>5, <1>6, AppendAny DEF Take

LEMMA CapsInitially == SelectInit => CapsInv
<1> SUFFICES ASSUME SelectInit PROVE CapsInv
  OBVIOUS
<1>1. \A kind \in KindSet : selected[kind] = <<>>
  BY DEF SelectInit
<1>2. IsSequence(<<>>) /\ Len(<<>>) = 0
  <2>1. <<>> \in Seq({})
    OBVIOUS
  <2> QED
    BY <2>1 DEF IsSequence
<1>3. Shape
  BY <1>1, <1>2 DEF SelectInit, Shape
<1>4. CapsRespected
  BY <1>1, <1>2, CapType DEF SelectInit, CapsRespected, KindSet
<1> QED
  BY <1>3, <1>4 DEF CapsInv

LEMMA CapsPreserved ==
    ASSUME CapsInv, [SelectNext]_selectionVars PROVE CapsInv'
<1> USE DEF CapsInv
<1>0. caps' = caps
  BY DEF SelectNext, Take, Drop, NextKind, Decide, selectionVars
<1>1. ASSUME Take PROVE CapsInv'
  <2>1. Shape'
    BY <1>1, TakeEffect DEF Shape, Take, Decide
  <2>2. \A kind \in KindSet : Len(selected'[kind]) <= caps[kind]
    BY <1>1, TakeEffect, CapType DEF CapsRespected, Take, HasRoom, Shape
  <2>3. total_selected' = Len(selected'["file"]) + Len(selected'["failure"])
                            + Len(selected'["doc"])
    <3>1. PICK i \in Nat, j \in Nat, k \in Nat :
             /\ i = Len(selected["file"])
             /\ j = Len(selected["failure"])
             /\ k = Len(selected["doc"])
      BY DEF Shape, KindSet
    <3>2. total_selected' = i + j + k + 1
      BY <1>1, <3>1, TakeEffect DEF CapsRespected
    <3>3. Len(selected'[Kind]) = Len(selected[Kind]) + 1
      BY <1>1, TakeEffect
    <3>4. \A kind \in KindSet \ {Kind} : Len(selected'[kind]) = Len(selected[kind])
      BY <1>1, TakeEffect
    <3>5. CASE Kind = "file"
      <4>1. Len(selected'["file"]) = i + 1
        BY <3>1, <3>3, <3>5
      <4>2. Len(selected'["failure"]) = j /\ Len(selected'["doc"]) = k
        BY <3>1, <3>4, <3>5 DEF KindSet
      <4>3. total_selected' = (i + 1) + j + k
        BY <3>2
      <4> QED
        BY <4>1, <4>2, <4>3, Zenon
    <3>6. CASE Kind = "failure"
      <4>1. Len(selected'["failure"]) = j + 1
        BY <3>1, <3>3, <3>6
      <4>2. Len(selected'["file"]) = i /\ Len(selected'["doc"]) = k
        BY <3>1, <3>4, <3>6 DEF KindSet
      <4>3. total_selected' = i + (j + 1) + k
        BY <3>2
      <4> QED
        BY <4>1, <4>2, <4>3, Zenon
    <3>7. CASE Kind = "doc"
      <4>1. Len(selected'["doc"]) = k + 1
        BY <3>1, <3>3, <3>7
      <4>2. Len(selected'["file"]) = i /\ Len(selected'["failure"]) = j
        BY <3>1, <3>4, <3>7 DEF KindSet
      <4>3. total_selected' = i + j + (k + 1)
        BY <3>2
      <4> QED
        BY <4>1, <4>2, <4>3, Zenon
    <3> QED
      BY <1>1, <3>5, <3>6, <3>7, TakeEffect DEF KindSet
  <2>4. total_selected' <= caps["total"]
    BY <1>1, CapType DEF Take, HasRoom, Shape
  <2> QED
    BY <1>0, <2>1, <2>2, <2>3, <2>4 DEF CapsRespected
<1>2. ASSUME UNCHANGED <<selected, total_selected>>, turn' \in Nat, turn' >= 1
      PROVE  CapsInv'
  BY <1>0, <1>2 DEF Shape, CapsRespected
<1> QED
  BY <1>1, <1>2 DEF SelectNext, Drop, Decide, NextKind, selectionVars, Shape

(* No cap is ever exceeded and the running total is right, for any caps.   *)
THEOREM CapsAreRespected == SelectSpec => []CapsRespected
<1>1. SelectInit => CapsInv
  BY CapsInitially
<1>2. CapsInv /\ [SelectNext]_selectionVars => CapsInv'
  BY CapsPreserved
<1>3. CapsInv => CapsRespected
  BY DEF CapsInv
<1> QED
  BY <1>1, <1>2, <1>3, PTL DEF SelectSpec

-----------------------------------------------------------------------------
(* A candidate is dropped only when its kind or the selection is full.     *)
IsFull(kind) ==
    Len(selected[kind]) = caps[kind] \/ total_selected = caps.total

DropsInv ==
    /\ IsSequence(decisions)
    /\ \A i \in 1..Len(decisions) :
        /\ decisions[i].kind \in KindSet
        /\ ~decisions[i].kept => IsFull(decisions[i].kind)

(* The loop refuses a candidate only when there is no room, and then a cap *)
(* is reached exactly.                                                     *)
LEMMA RefusalMeansFull ==
    ASSUME CapsInv, Drop
    PROVE  Kind \in KindSet /\ IsFull(Kind)
<1>1. Kind \in KindSet
  BY KindOfLoop DEF CapsInv, Drop
<1>2. /\ Len(selected[Kind]) \in Nat /\ caps[Kind] \in Nat
      /\ Len(selected[Kind]) <= caps[Kind]
      /\ total_selected \in Nat /\ caps["total"] \in Nat
      /\ total_selected <= caps["total"]
  BY <1>1, CapType DEF CapsInv, Shape, CapsRespected
<1> QED
  BY <1>1, <1>2 DEF Drop, HasRoom, IsFull

(* A decision appended for the kind of the loop keeps DropsInv.            *)
LEMMA DropsPreserved ==
    ASSUME CapsInv, CapsInv', DropsInv, [SelectNext]_selectionVars
    PROVE  DropsInv'
<1>0. caps' = caps
  BY DEF SelectNext, Take, Drop, NextKind, Decide, selectionVars
<1>1. ASSUME NEW kind \in KindSet, IsFull(kind)
      PROVE  IsFull(kind)'
  <2>1. CASE Take
    <3>1. total_selected < caps["total"] /\ total_selected \in Nat
      BY <2>1 DEF Take, HasRoom, CapsInv, Shape
    <3>2. Len(selected[kind]) = caps[kind]
      BY <1>1, <3>1, CapType DEF IsFull, CapsInv, Shape
    <3>3. Len(selected'[kind]) <= caps[kind] /\ caps[kind] \in Nat
      BY <1>0, CapType DEF CapsInv, CapsRespected, Shape
    <3>4. kind # Kind
      BY <2>1, <3>2, <3>3, TakeEffect DEF CapsInv
    <3>5. selected'[kind] = selected[kind]
      BY <2>1, <3>4, TakeEffect DEF CapsInv
    <3> QED
      BY <1>0, <3>2, <3>5 DEF IsFull
  <2>2. CASE UNCHANGED <<selected, total_selected>>
    BY <1>0, <1>1, <2>2 DEF IsFull
  <2> QED
    BY <2>1, <2>2 DEF SelectNext, Drop, NextKind, selectionVars
<1>2. ASSUME NEW kept \in BOOLEAN, Decide(kept), Kind \in KindSet,
             ~kept => IsFull(Kind)
      PROVE  DropsInv'
  <2>1. PICK d : /\ decisions' = Append(decisions, d)
                 /\ d.kind = Kind /\ d.kept = kept
    BY <1>2 DEF Decide
  <2>2. PICK n \in Nat : n = Len(decisions)
    BY AppendAny DEF DropsInv
  <2>3. /\ IsSequence(decisions')
        /\ Len(decisions') = n + 1
        /\ \A i \in 1..n : decisions'[i] = decisions[i]
        /\ decisions'[n + 1] = d
    BY <2>1, <2>2, AppendAny DEF DropsInv
  <2>4. ASSUME NEW i \in 1..n
        PROVE  /\ decisions'[i].kind \in KindSet
               /\ ~decisions'[i].kept => IsFull(decisions[i].kind)'
    BY <1>1, <2>2, <2>3 DEF DropsInv
  <2>5. /\ decisions'[n + 1].kind \in KindSet
        /\ ~decisions'[n + 1].kept => IsFull(d.kind)'
    BY <1>1, <1>2, <2>1, <2>3
  <2>6. \A i \in 1..(n + 1) : i \in 1..n \/ i = n + 1
    OBVIOUS
  <2> QED
    BY <2>3, <2>4, <2>5, <2>6 DEF DropsInv
<1>3. CASE Take
  <2>1. Kind \in KindSet
    BY <1>3, TakeEffect DEF CapsInv
  <2>2. Decide(TRUE)
    BY <1>3 DEF Take
  <2> QED
    BY <1>2, <2>1, <2>2
<1>4. CASE Drop
  <2>1. Decide(FALSE)
    BY <1>4 DEF Drop
  <2> QED
    BY <1>2, <1>4, <2>1, RefusalMeansFull
<1>5. CASE UNCHANGED <<selected, decisions, total_selected>>
  BY <1>0, <1>5 DEF DropsInv, IsFull
<1> QED
  BY <1>3, <1>4, <1>5 DEF SelectNext, NextKind, selectionVars

LEMMA DropsHold == SelectSpec => [](CapsInv /\ DropsInv)
<1>1. SelectInit => DropsInv
  <2> SUFFICES ASSUME SelectInit PROVE DropsInv
    OBVIOUS
  <2>1. decisions = <<>> /\ <<>> \in Seq({}) /\ Len(<<>>) = 0
    BY DEF SelectInit
  <2> QED
    BY <2>1 DEF DropsInv, IsSequence
<1>2. CapsInv /\ [SelectNext]_selectionVars => CapsInv'
  BY CapsPreserved
<1>3. CapsInv /\ CapsInv' /\ DropsInv /\ [SelectNext]_selectionVars => DropsInv'
  BY DropsPreserved
<1> QED
  BY <1>1, <1>2, <1>3, CapsInitially, PTL DEF SelectSpec

(* A candidate is dropped only when a cap is used up, for all caps,        *)
(* requests and scores.                                                    *)
THEOREM DropsNeedAFullCap == SelectSpec => []DroppedOnlyWhenFull
<1>1. CapsInv /\ DropsInv => DroppedOnlyWhenFull
  BY DEF DropsInv, IsFull, DroppedOnlyWhenFull
<1> QED
  BY <1>1, DropsHold, PTL

(* When the total covers the caps of the kinds, every kind is full as soon *)
(* as the selection is.                                                    *)
LEMMA FullTogether ==
    ASSUME CapsInv, caps.total >= caps.file + caps.failure + caps.doc,
           total_selected = caps.total, NEW kind \in KindSet
    PROVE  Len(selected[kind]) = caps[kind]
<1>1. \A k \in KindSet : /\ Len(selected[k]) \in Nat /\ caps[k] \in Nat
                         /\ Len(selected[k]) <= caps[k]
  BY CapType DEF CapsInv, Shape, CapsRespected
<1>2. /\ Len(selected["file"]) \in Nat /\ caps["file"] \in Nat
      /\ Len(selected["failure"]) \in Nat /\ caps["failure"] \in Nat
      /\ Len(selected["doc"]) \in Nat /\ caps["doc"] \in Nat
      /\ Len(selected["file"]) <= caps["file"]
      /\ Len(selected["failure"]) <= caps["failure"]
      /\ Len(selected["doc"]) <= caps["doc"]
  BY <1>1 DEF KindSet
<1>3. total_selected = Len(selected["file"]) + Len(selected["failure"])
                         + Len(selected["doc"])
  BY DEF CapsInv, CapsRespected
<1>4. PICK i \in Nat, j \in Nat, k \in Nat, p \in Nat, q \in Nat, r \in Nat :
        /\ i = Len(selected["file"]) /\ p = caps["file"]
        /\ j = Len(selected["failure"]) /\ q = caps["failure"]
        /\ k = Len(selected["doc"]) /\ r = caps["doc"]
  BY <1>2
<1>5. i = p /\ j = q /\ k = r
  <2>1. i <= p /\ j <= q /\ k <= r
    BY <1>2, <1>4
  <2>2. i + j + k >= p + q + r
    BY <1>3, <1>4
  <2> QED
    BY <2>1, <2>2
<1>6. \/ kind = "file" \/ kind = "failure" \/ kind = "doc"
  BY DEF KindSet
<1> QED
  BY <1>4, <1>5, <1>6

(* The kinds never starve each other under the default caps, or any whose  *)
(* total covers the sum: for all caps, requests and scores.                *)
THEOREM KindsDoNotStarve == SelectSpec => []DroppedOnlyByOwnCap
<1>1. CapsInv /\ DropsInv => DroppedOnlyByOwnCap
  BY FullTogether DEF DropsInv, IsFull, DroppedOnlyByOwnCap
<1> QED
  BY <1>1, DropsHold, PTL
=============================================================================
