------------------------ MODULE TerminalPuzzle_proofs ------------------------
(* Proofs about TerminalPuzzle, for any number of terminals.                  *)
EXTENDS TerminalPuzzle, SequenceTheorems, TLAPS

(* ----------------------- sequences without repetitions -------------------- *)

(* Swapping two places of a sequence keeps its elements, each once.           *)
LEMMA SwapKeeps ==
  ASSUME NEW S, NEW s \in Seq(S), NEW i \in 1..Len(s), NEW j \in 1..Len(s), IsInjective(s)
  PROVE  /\ Swapped(s, i, j) \in Seq(S)
         /\ Len(Swapped(s, i, j)) = Len(s)
         /\ IsInjective(Swapped(s, i, j))
         /\ Range(Swapped(s, i, j)) = Range(s)
<1> DEFINE t == Swapped(s, i, j)
<1>1. s \in [1..Len(s) -> S] /\ Len(s) \in Nat /\ DOMAIN s = 1..Len(s)
  BY LenProperties
<1>2. s[i] \in S /\ s[j] \in S
  BY <1>1
<1>3. t \in [1..Len(s) -> S]
  BY <1>1, <1>2 DEF Swapped
<1>4. t \in Seq(S) /\ Len(t) = Len(s)
  BY <1>1, <1>3
<1>5. ASSUME NEW k \in 1..Len(s) PROVE t[k] = IF k = j THEN s[i] ELSE IF k = i THEN s[j] ELSE s[k]
  BY <1>1 DEF Swapped
<1> HIDE DEF t
<1>6. IsInjective(t)
  <2>1. DOMAIN t = 1..Len(s)
    BY <1>3
  <2>2. \A a, b \in 1..Len(s) : s[a] = s[b] => a = b
    BY <1>1 DEF IsInjective
  <2>3. ASSUME NEW a \in 1..Len(s), NEW b \in 1..Len(s), t[a] = t[b] PROVE a = b
    BY <1>5, <2>2, <2>3
  <2>4. QED
    BY <2>1, <2>3 DEF IsInjective
<1>7. Range(t) = Range(s)
  <2>1. DOMAIN t = 1..Len(s)
    BY <1>3
  <2>2. ASSUME NEW k \in 1..Len(s) PROVE t[k] \in Range(s)
    BY <1>1, <1>5 DEF Range
  <2>3. ASSUME NEW k \in 1..Len(s) PROVE s[k] \in Range(t)
    <3>1. CASE k = i
      BY <1>5, <2>1, <3>1 DEF Range
    <3>2. CASE k = j
      BY <1>5, <2>1, <3>2 DEF Range
    <3>3. CASE k # i /\ k # j
      BY <1>5, <2>1, <3>3 DEF Range
    <3>4. QED
      BY <3>1, <3>2, <3>3
  <2>4. QED
    BY <1>1, <2>1, <2>2, <2>3 DEF Range
<1>8. QED
  BY <1>4, <1>6, <1>7 DEF t

(* Taking the head off a sequence without repetitions takes it out of the     *)
(* range and leaves no repetition.                                            *)
LEMMA TailDrops ==
  ASSUME NEW S, NEW s \in Seq(S), s # <<>>, IsInjective(s)
  PROVE  /\ Tail(s) \in Seq(S)
         /\ IsInjective(Tail(s))
         /\ Range(Tail(s)) = Range(s) \ {Head(s)}
         /\ Head(s) \in Range(s)
<1>1. /\ Len(s) \in Nat \ {0} /\ DOMAIN s = 1..Len(s)
      /\ Tail(s) \in Seq(S) /\ Len(Tail(s)) = Len(s) - 1
      /\ \A k \in 1..(Len(s) - 1) : Tail(s)[k] = s[k + 1]
  BY LenProperties, HeadTailProperties, EmptySeq
<1>2. DOMAIN Tail(s) = 1..(Len(s) - 1)
  BY <1>1, LenProperties
<1>3. Head(s) = s[1]
  OBVIOUS
<1>4. \A a, b \in 1..Len(s) : s[a] = s[b] => a = b
  BY <1>1 DEF IsInjective
<1>5. IsInjective(Tail(s))
  <2>1. ASSUME NEW a \in 1..(Len(s) - 1), NEW b \in 1..(Len(s) - 1), Tail(s)[a] = Tail(s)[b] PROVE a = b
    <3>1. a + 1 \in 1..Len(s) /\ b + 1 \in 1..Len(s) /\ s[a + 1] = s[b + 1]
      BY <1>1, <2>1
    <3>2. QED
      BY <1>4, <3>1
  <2>2. QED
    BY <1>2, <2>1 DEF IsInjective
<1>6. ASSUME NEW k \in 1..(Len(s) - 1) PROVE Tail(s)[k] \in Range(s) \ {Head(s)}
  <2>1. k + 1 \in 1..Len(s) /\ 1 \in 1..Len(s) /\ k + 1 # 1 /\ Tail(s)[k] = s[k + 1]
    BY <1>1
  <2>2. QED
    BY <1>1, <1>3, <1>4, <2>1 DEF Range
<1>7. ASSUME NEW k \in 1..Len(s), s[k] # Head(s) PROVE s[k] \in Range(Tail(s))
  <2>1. k - 1 \in 1..(Len(s) - 1) /\ (k - 1) + 1 = k
    BY <1>1, <1>3, <1>7
  <2>2. Tail(s)[k - 1] = s[k]
    BY <1>1, <2>1
  <2>3. QED
    BY <1>2, <2>1, <2>2 DEF Range
<1>8. QED
  BY <1>1, <1>2, <1>3, <1>5, <1>6, <1>7 DEF Range

(* ------------------------------ the invariant ----------------------------- *)

(* What the invariants need besides themselves: whoever is at a terminal is   *)
(* in the room, so is who has just used the last one, and nobody plays before *)
(* the shuffle is over or after the ending.                                   *)
Course ==
  /\ at # Away => inRoom
  /\ phase = "update" /\ sequence = <<>> /\ endings = 0 => inRoom \/ dead
  /\ phase = "update" => endings = 0
  /\ dead => phase = "update"
  /\ phase = "shuffle" => lit = {} /\ endings = 0 /\ Len(sequence) = Len(Terminals)
  /\ sequence # <<>> => endings = 0

Inv == TypeOK /\ LitAreDone /\ EndsAtOnce /\ DeadDoNotEnd /\ Course

LEMMA InvInit == ASSUME Init PROVE Inv
<1>1. Terminals \in Seq(Range(Terminals)) /\ Terminals # <<>> /\ IsInjective(Terminals) /\ Len(Terminals) \in Nat \ {0}
  BY TerminalsAssumption, EmptySeq
<1>2. TypeOK
  <2>1. m \in 0..Len(Terminals) /\ m > 0
    BY <1>1 DEF Init
  <2>2. sequence \in Seq(Range(Terminals)) /\ lit \subseteq Range(Terminals)
    BY <1>1 DEF Init
  <2>3. QED
    BY <2>1, <2>2 DEF Init, TypeOK
<1>3. LitAreDone
  BY <1>1 DEF Init, LitAreDone
<1>4. EndsAtOnce /\ DeadDoNotEnd /\ Course
  BY <1>1 DEF Init, EndsAtOnce, DeadDoNotEnd, Course
<1>5. QED
  BY <1>2, <1>3, <1>4 DEF Inv

LEMMA InvShuffle == ASSUME Inv, Shuffle PROVE Inv'
<1> USE DEF Inv, TypeOK, LitAreDone, Course
<1>1. Len(Terminals) \in Nat \ {0} /\ m \in 1..Len(sequence) /\ Len(sequence) = Len(Terminals)
  BY TerminalsAssumption, EmptySeq DEF Shuffle
<1>2. PICK n \in 1..m : sequence' = Swapped(sequence, m, n)
  BY DEF Shuffle
<1>3. n \in 1..Len(sequence)
  BY <1>1, <1>2
<1>4. /\ sequence' \in Seq(Range(Terminals)) /\ Len(sequence') = Len(sequence)
      /\ IsInjective(sequence') /\ Range(sequence') = Range(sequence)
  <2>1. sequence \in Seq(Range(Terminals)) /\ IsInjective(sequence)
    OBVIOUS
  <2> HIDE DEF Inv, TypeOK, LitAreDone, Course
  <2>2. QED
    BY <1>1, <1>2, <1>3, <2>1, SwapKeeps
<1>5. sequence' # <<>>
  BY <1>1, <1>4
<1>6. /\ m' = m - 1 /\ phase = "shuffle" /\ phase' = IF m = 1 THEN "update" ELSE "shuffle"
      /\ UNCHANGED <<lit, at, inRoom, dead, endings>>
  BY DEF Shuffle, person
<1>7. TypeOK'
  BY <1>1, <1>4, <1>6
<1>8. LitAreDone'
  BY <1>4, <1>6
<1>9. (EndsAtOnce /\ DeadDoNotEnd /\ Course)'
  BY <1>1, <1>4, <1>5, <1>6 DEF EndsAtOnce, DeadDoNotEnd
<1>10. QED
  BY <1>7, <1>8, <1>9

LEMMA InvUpdate == ASSUME Inv, Update PROVE Inv'
  BY DEF Inv, TypeOK, LitAreDone, EndsAtOnce, DeadDoNotEnd, Course, Update, InScene, person

LEMMA InvCome == ASSUME Inv, NEW t \in Range(Terminals), Come(t) PROVE Inv'
<1> USE DEF Inv, TypeOK, LitAreDone, Come, InScene
<1>1. CASE sequence # <<>> /\ t = Head(sequence)
  <2>1. sequence' = Tail(sequence) /\ lit' = lit \cup {t}
    BY <1>1 DEF HandleNodeCollision
  <2>2. /\ sequence' \in Seq(Range(Terminals)) /\ IsInjective(sequence')
        /\ Range(sequence') = Range(sequence) \ {t}
    BY <1>1, <2>1, TailDrops
  <2>3. LitAreDone'
    BY <2>1, <2>2
  <2>4. QED
    BY <2>1, <2>2, <2>3 DEF EndsAtOnce, DeadDoNotEnd, Course
<1>2. CASE ~(sequence # <<>> /\ t = Head(sequence))
  <2>1. UNCHANGED <<sequence, lit>>
    BY <1>2 DEF HandleNodeCollision
  <2>2. QED
    BY <2>1 DEF EndsAtOnce, DeadDoNotEnd, Course
<1>3. QED
  BY <1>1, <1>2

LEMMA InvGo == ASSUME Inv, Go PROVE Inv'
  BY TerminalsAssumption DEF Inv, TypeOK, LitAreDone, EndsAtOnce, DeadDoNotEnd, Course, Go, InScene

LEMMA InvStay == ASSUME Inv, Stay PROVE Inv'
  BY DEF Inv, TypeOK, LitAreDone, EndsAtOnce, DeadDoNotEnd, Course, Stay, InScene

LEMMA InvStep == ASSUME Inv, [Next]_vars PROVE Inv'
<1>1. CASE UNCHANGED vars
  BY <1>1 DEF vars, Inv, TypeOK, LitAreDone, EndsAtOnce, DeadDoNotEnd, Course
<1>2. QED
  BY <1>1, InvShuffle, InvUpdate, InvCome, InvGo, InvStay DEF Next

(* Every variable keeps its type, and the credits are called for once.        *)
THEOREM TypeCorrect == Spec => []TypeOK
<1>1. Inv => TypeOK
  BY DEF Inv
<1>2. QED
  BY InvInit, InvStep, <1>1, PTL DEF Spec

(* The green terminals are those used, the others follow in some order.       *)
THEOREM LitCorrect == Spec => []LitAreDone
<1>1. Inv => LitAreDone
  BY DEF Inv
<1>2. QED
  BY InvInit, InvStep, <1>1, PTL DEF Spec

(* The last terminal ends the game in the next frame, and a person who dies   *)
(* in the room does not win any more.                                         *)
THEOREM EndingCorrect == Spec => []EndsForTheLiving
<1>1. Inv => EndsForTheLiving
  BY DEF Inv, EndsForTheLiving
<1>2. QED
  BY InvInit, InvStep, <1>1, PTL DEF Spec

(* Whatever the order and whatever the player tries, only the terminal whose  *)
(* turn it is counts, and only the last one can end the game.                 *)
THEOREM LockImplemented == Spec => LockStep
<1>1. ASSUME Inv, [Next]_vars PROVE [phase # "shuffle" => Lock!Next]_vars
  <2>1. SUFFICES ASSUME Next, phase # "shuffle" PROVE Lock!Next
    BY <1>1
  <2>2. CASE Update
    <3>1. /\ UNCHANGED <<sequence, at>>
          /\ endings' = IF inRoom /\ sequence = <<>> THEN endings + 1 ELSE endings
          /\ endings = 0
      BY <2>2 DEF Update, person, InScene
    <3>2. CASE inRoom /\ sequence = <<>>
      <4>1. endings' > 0 /\ sequence = <<>>
        BY <3>1, <3>2
      <4>2. Lock!Beat
        BY <3>1, <4>1 DEF Lock!Beat
      <4>3. QED
        BY <4>2 DEF Lock!Next
    <3>3. CASE ~(inRoom /\ sequence = <<>>)
      BY <3>1, <3>3 DEF Lock!Next, Lock!Wander
    <3>4. QED
      BY <3>2, <3>3
  <2>3. ASSUME NEW t \in Range(Terminals), Come(t) PROVE Lock!Next
    <3>1. at' = t /\ endings' = endings /\ HandleNodeCollision(t)
      BY <2>3 DEF Come
    <3>2. CASE sequence # <<>> /\ t = Head(sequence)
      <4>1. sequence' = Tail(sequence) /\ endings' = 0
        BY <1>1, <3>1, <3>2 DEF HandleNodeCollision, Inv, Course
      <4>2. (endings' > 0) = FALSE
        BY <4>1
      <4>3. (endings' > 0) \in {FALSE, sequence' = <<>>}
        BY <4>2, Zenon
      <4>4. Lock!Enter
        BY <3>1, <3>2, <4>1, <4>3, Zenon DEF Lock!Enter
      <4>5. QED
        BY <4>4 DEF Lock!Next
    <3>3. CASE ~(sequence # <<>> /\ t = Head(sequence))
      BY <3>1, <3>3 DEF HandleNodeCollision, Lock!Next, Lock!Wander
    <3>4. QED
      BY <3>2, <3>3
  <2>4. CASE Go \/ Stay
    BY <2>4 DEF Go, Stay, Lock!Next, Lock!Wander
  <2>5. ~Shuffle
    BY <2>1 DEF Shuffle
  <2>6. QED
    BY <2>1, <2>2, <2>3, <2>4, <2>5 DEF Next
<1>2. QED
  BY <1>1, InvInit, InvStep, PTL DEF Spec, LockStep
=============================================================================
