--------------------------- MODULE Inventory_proofs ---------------------------
(* Proofs about Inventory: for every set of items and padlocks, the flags of  *)
(* the objects involved agree and an item's life takes its course.            *)
EXTENDS Inventory, TLAPS

USE ItemsAssumption

(* ---------------------------- lists of items ------------------------------ *)

(* Appending an item that is not in the list.                                 *)
LEMMA AppendItem ==
  ASSUME NEW s \in Seq(Items), IsInjective(s), NEW i \in Items, i \notin Range(s)
  PROVE  /\ Append(s, i) \in Seq(Items)
         /\ IsInjective(Append(s, i))
         /\ Range(Append(s, i)) = Range(s) \cup {i}
<1> DEFINE t == Append(s, i)
<1>1. /\ t \in Seq(Items)
      /\ Len(t) = Len(s) + 1
      /\ Len(s) \in Nat
      /\ DOMAIN s = 1..Len(s)
      /\ DOMAIN t = 1..(Len(s) + 1)
      /\ t[Len(s) + 1] = i
      /\ \A j \in 1..Len(s) : t[j] = s[j]
  OBVIOUS
<1> HIDE DEF t
<1>2. \A j \in 1..Len(s) : s[j] # i
  BY <1>1 DEF Range
<1>3. IsInjective(t)
  <2>1. SUFFICES ASSUME NEW a \in DOMAIN t, NEW b \in DOMAIN t, t[a] = t[b] PROVE a = b
    BY DEF IsInjective
  <2>2. \A j \in DOMAIN t : j \in 1..Len(s) \/ j = Len(s) + 1
    BY <1>1
  <2>3. CASE a \in 1..Len(s) /\ b \in 1..Len(s)
    BY <1>1, <2>1, <2>3 DEF IsInjective
  <2>4. QED
    BY <1>1, <1>2, <2>1, <2>2, <2>3
<1>4. Range(t) = Range(s) \cup {i}
  <2>1. \A x \in Range(s) : x \in Range(t)
    BY <1>1 DEF Range
  <2>2. i \in Range(t)
    <3>1. Len(s) + 1 \in DOMAIN t
      BY <1>1
    <3>2. QED
      BY <1>1, <3>1 DEF Range
  <2>3. \A x \in Range(t) : x \in Range(s) \/ x = i
    <3>1. TAKE x \in Range(t)
    <3>2. PICK j \in DOMAIN t : x = t[j]
      BY DEF Range
    <3>3. j \in 1..Len(s) \/ j = Len(s) + 1
      BY <1>1, <3>2
    <3>4. QED
      BY <1>1, <3>2, <3>3 DEF Range
  <2>4. QED
    BY <2>1, <2>2, <2>3
<1>5. QED
  BY <1>1, <1>3, <1>4 DEF t

(* Taking the n-th item out of a list that holds nothing twice.               *)
LEMMA WithoutItem ==
  ASSUME NEW s \in Seq(Items), IsInjective(s), NEW n \in DOMAIN s
  PROVE  /\ Without(s, n) \in Seq(Items)
         /\ IsInjective(Without(s, n))
         /\ Range(Without(s, n)) = Range(s) \ {s[n]}
<1> DEFINE t == Without(s, n)
           old(j) == IF j < n THEN j ELSE j + 1
<1>1. /\ Len(s) \in Nat
      /\ DOMAIN s = 1..Len(s)
      /\ \A j \in 1..Len(s) : s[j] \in Items
      /\ n \in 1..Len(s)
  OBVIOUS
<1>2. /\ DOMAIN t = 1..(Len(s) - 1)
      /\ \A j \in DOMAIN t : old(j) \in 1..Len(s) /\ old(j) # n /\ t[j] = s[old(j)]
  BY <1>1 DEF Without
<1>3. t \in Seq(Items)
  <2>1. Len(s) - 1 \in Nat
    BY <1>1
  <2>2. t \in [1..(Len(s) - 1) -> Items]
    BY <1>1, <1>2 DEF Without
  <2>3. QED
    BY <2>1, <2>2
<1>4. \A a, b \in DOMAIN t : old(a) = old(b) => a = b
  BY <1>1, <1>2
<1>5. \A m \in 1..Len(s) : m # n => \E j \in DOMAIN t : old(j) = m
  <2>1. TAKE m \in 1..Len(s)
  <2>2. SUFFICES ASSUME m # n PROVE \E j \in DOMAIN t : old(j) = m
    OBVIOUS
  <2>3. CASE m < n
    <3>1. m \in DOMAIN t /\ old(m) = m
      BY <1>1, <1>2, <2>3
    <3>2. QED
      BY <3>1
  <2>4. CASE ~(m < n)
    <3>1. m - 1 \in DOMAIN t /\ old(m - 1) = m
      BY <1>1, <1>2, <2>2, <2>4
    <3>2. QED
      BY <3>1
  <2>5. QED
    BY <2>3, <2>4
<1> HIDE DEF t, old
<1>6. IsInjective(t)
  BY <1>1, <1>2, <1>4 DEF IsInjective
<1>7. Range(t) = Range(s) \ {s[n]}
  <2>1. \A x \in Range(t) : x \in Range(s) /\ x # s[n]
    BY <1>1, <1>2 DEF Range, IsInjective
  <2>2. \A x \in Range(s) : x # s[n] => x \in Range(t)
    BY <1>1, <1>2, <1>5 DEF Range
  <2>3. QED
    BY <2>1, <2>2
<1>8. QED
  BY <1>3, <1>6, <1>7 DEF t

(* --------------------------- the inductive invariant ---------------------- *)

(* FlagsAgree without the places: what the four flags of one item may be.     *)
Agree(i) ==
  /\ i \in Carried => i \in nodes /\ i \notin enabled /\ life[i] = None
  /\ i \notin Carried /\ i \notin nodes => life[i] # None /\ life[i] <= 0
  /\ i \notin Carried /\ i \in nodes /\ life[i] # None =>
       i \in enabled /\ i \notin pickups /\ life[i] > 0
  /\ i \notin Carried /\ i \in nodes /\ life[i] = None => i \in enabled /\ i \in pickups

(* Only what can be thrown ever decays.                                       *)
OnlyThrowables == \A i \in Items : life[i] # None => i \in Throwables

Inv == TypeOK /\ OnlyThrowables /\ \A i \in Items : Agree(i)

(* The places only name the combinations of flags.                            *)
LEMMA PlacesNameFlags == FlagsAgree <=> \A i \in Items : Agree(i)
<1>1. ASSUME NEW i \in Items
      PROVE  Agree(i) <=>
               CASE Place(i) = "carried" -> i \in nodes /\ i \notin enabled /\ life[i] = None
                 [] Place(i) = "floor"   -> i \in enabled /\ i \in pickups
                 [] Place(i) = "thrown"  -> i \in enabled /\ i \notin pickups /\ life[i] > 0
                 [] OTHER                -> life[i] # None /\ life[i] <= 0
  <2>1. CASE i \in Carried
    BY <2>1 DEF Agree, Place
  <2>2. CASE i \notin Carried /\ i \notin nodes
    BY <2>2 DEF Agree, Place
  <2>3. CASE i \notin Carried /\ i \in nodes /\ life[i] # None
    BY <2>3 DEF Agree, Place
  <2>4. CASE i \notin Carried /\ i \in nodes /\ life[i] = None
    BY <2>4 DEF Agree, Place
  <2>5. QED
    BY <2>1, <2>2, <2>3, <2>4
<1>2. QED
  BY <1>1 DEF FlagsAgree

(* Nothing is carried or thrown at the start of a level.                      *)
LEMMA InvInit == Init => Inv
<1> SUFFICES ASSUME Init PROVE Inv
  OBVIOUS
<1>1. items = <<>> /\ items \in Seq(Items) /\ DOMAIN items = {}
  BY DEF Init
<1>2. IsInjective(items) /\ Carried = {}
  BY <1>1 DEF IsInjective, Carried, Range
<1>3. TypeOK
  BY <1>1, <1>2 DEF Init, TypeOK
<1>4. OnlyThrowables /\ \A i \in Items : Agree(i)
  BY <1>2 DEF Init, OnlyThrowables, Agree
<1>5. QED
  BY <1>3, <1>4 DEF Inv

(* An item is collected.                                                      *)
LEMMA InvCollect == ASSUME Inv, NEW i \in Items, Collect(i) PROVE Inv'
<1>1. /\ i \in nodes /\ i \in enabled /\ i \in pickups
      /\ items' = Append(items, i) /\ enabled' = enabled \ {i} /\ dirty' = TRUE
      /\ UNCHANGED <<nodes, pickups, life, visible, labels, padlocks, ended>>
  BY DEF Collect, display
<1>2. i \notin Carried /\ life[i] = None
  BY <1>1 DEF Inv, Agree
<1>3. items \in Seq(Items) /\ IsInjective(items) /\ i \notin Range(items)
  BY <1>2 DEF Inv, TypeOK, Carried
<1>4. items' \in Seq(Items) /\ IsInjective(items') /\ Carried' = Carried \cup {i}
  BY <1>1, <1>3, AppendItem DEF Carried
<1>5. TypeOK'
  BY <1>1, <1>4 DEF Inv, TypeOK
<1>6. \A j \in Items : Agree(j)'
  BY <1>1, <1>2, <1>4 DEF Inv, Agree
<1>7. OnlyThrowables'
  BY <1>1 DEF Inv, OnlyThrowables
<1>8. QED
  BY <1>5, <1>6, <1>7 DEF Inv

(* What Throw does to the item it takes out of the list.                      *)
LEMMA ThrowEffect ==
  ASSUME Inv, Throw
  PROVE  \E i \in Throwables :
           /\ i \in Carried
           /\ items' \in Seq(Items) /\ IsInjective(items') /\ Carried' = Carried \ {i}
           /\ enabled' = enabled \cup {i} /\ pickups' = pickups \ {i}
           /\ life' = [life EXCEPT ![i] = LifeTime]
           /\ UNCHANGED <<nodes, dirty, visible, labels, padlocks, ended>>
<1>1. PICK n \in DOMAIN items :
        /\ IsItemOfType(n, "Throwable")
        /\ items' = Without(items, n)
        /\ enabled' = enabled \cup {items[n]}
        /\ pickups' = pickups \ {items[n]}
        /\ life' = [life EXCEPT ![items[n]] = LifeTime]
  BY DEF Throw
<1>2. items \in Seq(Items) /\ IsInjective(items)
  BY DEF Inv, TypeOK
<1>3. items[n] \in Throwables /\ items[n] \in Carried
  BY <1>1, <1>2 DEF IsItemOfType, Throwables, Carried, Range
<1>4. items' \in Seq(Items) /\ IsInjective(items') /\ Carried' = Carried \ {items[n]}
  BY <1>1, <1>2, WithoutItem DEF Carried
<1>5. QED
  BY <1>1, <1>3, <1>4 DEF Throw, display

LEMMA InvThrow == ASSUME Inv, Throw PROVE Inv'
<1>1. PICK i \in Throwables :
        /\ i \in Carried
        /\ items' \in Seq(Items) /\ IsInjective(items') /\ Carried' = Carried \ {i}
        /\ enabled' = enabled \cup {i} /\ pickups' = pickups \ {i}
        /\ life' = [life EXCEPT ![i] = LifeTime]
        /\ UNCHANGED <<nodes, dirty, visible, labels, padlocks, ended>>
  BY ThrowEffect
<1>2. i \in Items /\ LifeTime \in Int /\ LifeTime > 0 /\ LifeTime # None
  BY DEF Throwables
<1>3. life \in [Items -> Int \cup {None}]
  BY DEF Inv, TypeOK
<1>4. /\ life' \in [Items -> Int \cup {None}]
      /\ life'[i] = LifeTime
      /\ \A j \in Items : j # i => life'[j] = life[j]
  BY <1>1, <1>2, <1>3
<1>5. TypeOK'
  BY <1>1, <1>2, <1>4 DEF Inv, TypeOK
<1>6. OnlyThrowables'
  BY <1>1, <1>4 DEF Inv, OnlyThrowables
<1>7. \A j \in Items : Agree(j)'
  BY <1>1, <1>2, <1>4 DEF Inv, Agree
<1>8. QED
  BY <1>5, <1>6, <1>7 DEF Inv

(* Time passes for an item that has been thrown; it may break.                *)
LEMMA DecayEffect ==
  ASSUME Inv, NEW i \in Items, NEW step \in TimeSteps, Decay(i, step)
  PROVE  /\ i \notin Carried /\ i \in nodes /\ i \in Throwables
         /\ life[i] \in Int /\ life[i] # None
         /\ life' \in [Items -> Int \cup {None}]
         /\ life'[i] = life[i] - step
         /\ \A j \in Items : j # i => life'[j] = life[j]
         /\ nodes' = IF life[i] <= step THEN nodes \ {i} ELSE nodes
         /\ UNCHANGED <<items, dirty, enabled, pickups, visible, labels, padlocks, ended>>
<1>1. life \in [Items -> Int \cup {None}] /\ step \in Int
  BY DEF Inv, TypeOK
<1>2. /\ i \in nodes /\ i \in enabled /\ life[i] # None
      /\ life' = [life EXCEPT ![i] = life[i] - step]
      /\ nodes' = IF life[i] <= step THEN nodes \ {i} ELSE nodes
      /\ UNCHANGED <<items, dirty, enabled, pickups, visible, labels, padlocks, ended>>
  BY DEF Decay, bag, display
<1>3. i \notin Carried /\ i \in Throwables
  BY <1>2 DEF Inv, Agree, OnlyThrowables
<1>4. life[i] \in Int /\ life[i] - step \in Int
  BY <1>1, <1>2
<1>5. QED
  BY <1>1, <1>2, <1>3, <1>4

LEMMA InvDecay ==
  ASSUME Inv, NEW i \in Items, NEW step \in TimeSteps, Decay(i, step) PROVE Inv'
<1>1. /\ i \notin Carried /\ i \in nodes /\ i \in Throwables
      /\ life[i] \in Int /\ life[i] # None
      /\ life' \in [Items -> Int \cup {None}]
      /\ life'[i] = life[i] - step
      /\ \A j \in Items : j # i => life'[j] = life[j]
      /\ nodes' = IF life[i] <= step THEN nodes \ {i} ELSE nodes
      /\ UNCHANGED <<items, dirty, enabled, pickups, visible, labels, padlocks, ended>>
  BY DecayEffect
<1>2. step \in Int /\ life'[i] \in Int /\ life'[i] # None /\ (life[i] <= step <=> life'[i] <= 0)
  <2>1. step \in Int
    OBVIOUS
  <2>2. life'[i] \in Int /\ (life[i] <= step <=> life'[i] <= 0)
    BY <1>1, <2>1
  <2>3. QED
    BY <2>1, <2>2
<1>3. Carried' = Carried
  BY <1>1 DEF Carried
<1>4. TypeOK'
  BY <1>1 DEF Inv, TypeOK
<1>5. OnlyThrowables'
  BY <1>1 DEF Inv, OnlyThrowables
<1>6. \A j \in Items : Agree(j)'
  <2>1. TAKE j \in Items
  <2>2. CASE j = i
    BY <1>1, <1>2, <1>3, <2>2 DEF Inv, Agree
  <2>3. CASE j # i
    BY <1>1, <1>3, <2>3 DEF Inv, Agree
  <2>4. QED
    BY <2>2, <2>3
<1>7. QED
  BY <1>4, <1>5, <1>6 DEF Inv

(* The display, the padlocks and the end of the level leave items alone.      *)
LEMMA InvOther ==
  ASSUME Inv, UNCHANGED <<nodes, enabled, pickups, life, items>>,
         dirty' \in BOOLEAN, visible' \in BOOLEAN, labels' \in Seq(Items),
         padlocks' \subseteq Padlocks, ended' \in BOOLEAN
  PROVE  Inv'
<1>1. Carried' = Carried
  BY DEF Carried
<1>2. TypeOK'
  BY DEF Inv, TypeOK
<1>3. OnlyThrowables'
  BY DEF Inv, OnlyThrowables
<1>4. \A i \in Items : Agree(i)'
  BY <1>1 DEF Inv, Agree
<1>5. QED
  BY <1>2, <1>3, <1>4 DEF Inv

LEMMA InvNext == Inv /\ [Next]_vars => Inv'
<1> SUFFICES ASSUME Inv, [Next]_vars PROVE Inv'
  OBVIOUS
<1>t. TypeOK
  BY DEF Inv
<1>1. ASSUME NEW i \in Items, Collect(i) PROVE Inv'
  BY <1>1, InvCollect
<1>2. CASE Throw
  BY <1>2, InvThrow
<1>3. CASE Decays
  <2>1. PICK i \in Items, step \in TimeSteps : Decay(i, step)
    BY <1>3 DEF Decays
  <2>2. QED
    BY <2>1, InvDecay
<1>4. CASE Show
  BY <1>t, <1>4, InvOther DEF Show, world, bag, TypeOK
<1>5. CASE Hide
  BY <1>t, <1>5, InvOther DEF Hide, world, bag, TypeOK
<1>6. ASSUME NEW p \in Padlocks, Open(p) PROVE Inv'
  <2>1. padlocks' \subseteq Padlocks
    BY <1>t, <1>6 DEF Open, TypeOK
  <2>2. QED
    BY <1>t, <1>6, <2>1, InvOther DEF Open, world, bag, display, TypeOK
<1>7. CASE UnlockAll
  BY <1>t, <1>7, InvOther DEF UnlockAll, world, bag, display, TypeOK
<1>8. CASE EndLevel
  BY <1>t, <1>8, InvOther DEF EndLevel, world, bag, display, TypeOK
<1>9. CASE UNCHANGED vars
  BY <1>t, <1>9, InvOther DEF vars, world, bag, display, TypeOK
<1>10. QED
  BY <1>1, <1>2, <1>3, <1>4, <1>5, <1>6, <1>7, <1>8, <1>9 DEF Next

(* --------------------------------- safety --------------------------------- *)

(* The inventory's list never holds an item twice.                            *)
THEOREM TypeCorrect == Spec => []TypeOK
<1>1. Inv => TypeOK
  BY DEF Inv
<1>2. QED
  BY <1>1, InvInit, InvNext, PTL DEF Spec

(* The flags of an item's node, components and list entry tell one story.     *)
THEOREM FlagsCorrect == Spec => []FlagsAgree
<1>1. Inv => FlagsAgree
  BY PlacesNameFlags DEF Inv
<1>2. QED
  BY <1>1, InvInit, InvNext, PTL DEF Spec

(* The labels shown are those of the list: taking an item out does not mark   *)
(* the list as dirty, but a list that holds anything has been marked before,  *)
(* and the mark stays.                                                        *)
THEOREM LabelsCorrect == Spec => []LabelsUpToDate
<1> DEFINE Marked == items # <<>> => dirty
<1>1. Init => Marked /\ LabelsUpToDate
  BY DEF Init, LabelsUpToDate
<1>2. Inv /\ Marked /\ LabelsUpToDate /\ [Next]_vars => (Marked /\ LabelsUpToDate)'
  <2> SUFFICES ASSUME Inv, Marked, LabelsUpToDate, [Next]_vars
               PROVE  (Marked /\ LabelsUpToDate)'
    OBVIOUS
  <2>1. ASSUME NEW i \in Items, Collect(i) PROVE (Marked /\ LabelsUpToDate)'
    BY <2>1 DEF Collect, LabelsUpToDate
  <2>2. CASE Throw
    <3>1. PICK n \in DOMAIN items : dirty' = dirty
      BY <2>2 DEF Throw
    <3>2. items # <<>>
      BY <3>1
    <3>3. QED
      BY <3>1, <3>2 DEF LabelsUpToDate
  <2>3. CASE Decays
    BY <2>3 DEF Decays, Decay, bag, display, LabelsUpToDate
  <2>4. CASE Show
    BY <2>4 DEF Show, bag, LabelsUpToDate
  <2>5. CASE Hide
    BY <2>5 DEF Hide, bag, LabelsUpToDate
  <2>6. ASSUME NEW p \in Padlocks, Open(p) PROVE (Marked /\ LabelsUpToDate)'
    BY <2>6 DEF Open, bag, display, LabelsUpToDate
  <2>7. CASE UnlockAll
    BY <2>7 DEF UnlockAll, bag, display, LabelsUpToDate
  <2>8. CASE EndLevel
    BY <2>8 DEF EndLevel, bag, display, LabelsUpToDate
  <2>9. CASE UNCHANGED vars
    BY <2>9 DEF vars, bag, display, LabelsUpToDate
  <2>10. QED
    BY <2>1, <2>2, <2>3, <2>4, <2>5, <2>6, <2>7, <2>8, <2>9 DEF Next
<1>3. QED
  BY <1>1, <1>2, InvInit, InvNext, PTL DEF Spec

(* ------------------------------- refinement ------------------------------- *)

Fits == {fit \in Items \X Padlocks : Type[fit[1]] = Type[fit[2]]}
places == [i \in Items |-> Place(i)]

(* One item changes its place, the others keep theirs.                        *)
LEMMA OneMoves ==
  ASSUME NEW i \in Items, NEW from, NEW to, Place(i) = from, Place(i)' = to,
         \A j \in Items : j # i => Place(j)' = Place(j), UNCHANGED padlocks
  PROVE  Life!Move(i, from, to)
<1>1. places[i] = from
  BY DEF places
<1>2. places' = [places EXCEPT ![i] = to]
  BY DEF places
<1>3. QED
  BY <1>1, <1>2 DEF Life!Move, places

(* A step that leaves the list, the nodes and the decay alone moves nothing.  *)
LEMMA NothingMoves == UNCHANGED <<items, nodes, life>> => UNCHANGED places
BY DEF places, Place, Carried

(* A new level is a new life for every item.                                  *)
LEMMA LifeInit == Init => Life!Init
<1> SUFFICES ASSUME Init PROVE Life!Init
  OBVIOUS
<1>1. Carried = {}
  BY DEF Init, Carried, Range
<1>2. \A i \in Items : Place(i) = "floor"
  BY <1>1 DEF Init, Place
<1>3. QED
  BY <1>2 DEF Init, Life!Init

LEMMA LifeNext == Inv /\ Inv' /\ [Next]_vars => [Life!Next]_<<places, padlocks>>
<1> SUFFICES ASSUME Inv, Inv', [Next]_vars PROVE Life!Next \/ UNCHANGED <<places, padlocks>>
  OBVIOUS
<1>1. ASSUME NEW i \in Items, Collect(i) PROVE Life!Next
  <2>1. i \in nodes /\ i \in enabled /\ i \in pickups /\ items' = Append(items, i)
        /\ UNCHANGED <<nodes, life, padlocks>>
    BY <1>1 DEF Collect
  <2>2. i \notin Carried /\ life[i] = None
    BY <2>1 DEF Inv, Agree
  <2>3. items \in Seq(Items) /\ IsInjective(items) /\ i \notin Range(items)
    BY <2>2 DEF Inv, TypeOK, Carried
  <2>4. Carried' = Carried \cup {i}
    BY <2>1, <2>3, AppendItem DEF Carried
  <2>5. Place(i) = "floor" /\ Place(i)' = "carried"
    BY <2>1, <2>2, <2>4 DEF Place
  <2>6. \A j \in Items : j # i => Place(j)' = Place(j)
    BY <2>1, <2>4 DEF Place
  <2>7. Life!Move(i, "floor", "carried")
    BY <2>1, <2>5, <2>6, OneMoves
  <2>8. QED
    BY <2>7 DEF Life!Next
<1>2. CASE Throw
  <2>1. PICK i \in Throwables :
          /\ i \in Carried /\ Carried' = Carried \ {i}
          /\ life' = [life EXCEPT ![i] = LifeTime]
          /\ UNCHANGED <<nodes, padlocks>>
    BY <1>2, ThrowEffect
  <2>2. i \in Items /\ LifeTime # None /\ life \in [Items -> Int \cup {None}]
    BY DEF Throwables, Inv, TypeOK
  <2>3. life'[i] = LifeTime /\ \A j \in Items : j # i => life'[j] = life[j]
    BY <2>1, <2>2
  <2>4. i \in nodes
    BY <2>1, <2>2 DEF Inv, Agree
  <2>5. Place(i) = "carried" /\ Place(i)' = "thrown"
    BY <2>1, <2>2, <2>3, <2>4 DEF Place
  <2>6. \A j \in Items : j # i => Place(j)' = Place(j)
    BY <2>1, <2>2, <2>3 DEF Place
  <2>7. Life!Move(i, "carried", "thrown")
    BY <2>1, <2>2, <2>5, <2>6, OneMoves
  <2>8. QED
    BY <2>7 DEF Life!Next
<1>3. CASE Decays
  <2>1. PICK i \in Items, step \in TimeSteps : Decay(i, step)
    BY <1>3 DEF Decays
  <2>2. /\ i \notin Carried /\ i \in nodes /\ i \in Throwables
        /\ life[i] # None
        /\ life'[i] = life[i] - step /\ life[i] \in Int
        /\ \A j \in Items : j # i => life'[j] = life[j]
        /\ nodes' = IF life[i] <= step THEN nodes \ {i} ELSE nodes
        /\ UNCHANGED <<items, padlocks>>
    BY <2>1, DecayEffect
  <2>3. Carried' = Carried
    BY <2>2 DEF Carried
  <2>4. life'[i] # None
    <3>1. step \in Int
      OBVIOUS
    <3>2. life'[i] \in Int
      BY <2>2, <3>1
    <3>3. QED
      BY <3>2
  <2>5. Place(i) = "thrown"
    BY <2>2 DEF Place
  <2>6. \A j \in Items : j # i => Place(j)' = Place(j)
    BY <2>2, <2>3 DEF Place
  <2>7. CASE i \in nodes'
    <3>1. Place(i)' = "thrown"
      BY <2>2, <2>3, <2>4, <2>7 DEF Place
    <3>2. QED
      BY <2>2, <2>5, <2>6, <3>1 DEF places
  <2>8. CASE i \notin nodes'
    <3>1. Place(i)' = "gone"
      BY <2>2, <2>3, <2>8 DEF Place
    <3>2. Life!Move(i, "thrown", "gone")
      BY <2>2, <2>5, <2>6, <3>1, OneMoves
    <3>3. QED
      BY <2>2, <3>2 DEF Life!Next
  <2>9. QED
    BY <2>7, <2>8
<1>4. CASE Show
  BY <1>4, NothingMoves DEF Show, world, bag
<1>5. CASE Hide
  BY <1>5, NothingMoves DEF Hide, world, bag
<1>6. ASSUME NEW p \in Padlocks, Open(p) PROVE Life!Next
  <2>1. PICK n \in DOMAIN items : IsItemOfType(n, Type[p])
    BY <1>6 DEF Open
  <2>2. items[n] \in Carried /\ items[n] \in Items /\ Type[items[n]] = Type[p]
    BY <2>1 DEF IsItemOfType, Carried, Range, Inv, TypeOK
  <2>3. Place(items[n]) = "carried" /\ <<items[n], p>> \in Fits
    BY <2>2 DEF Place, Fits
  <2>4. /\ p \in padlocks /\ padlocks' = padlocks \ {p}
        /\ UNCHANGED places
    BY <1>6, NothingMoves DEF Open, world, bag
  <2>5. Life!Open(p)
    BY <2>2, <2>3, <2>4 DEF Life!Open, places, Fits
  <2>6. QED
    BY <2>5 DEF Life!Next
<1>7. CASE UnlockAll
  <2>1. padlocks' = {} /\ UNCHANGED places
    BY <1>7, NothingMoves DEF UnlockAll, world, bag
  <2>2. QED
    BY <2>1 DEF Life!Next, Life!OpenAll, places
<1>8. CASE EndLevel
  BY <1>8, NothingMoves DEF EndLevel, world, bag
<1>9. CASE UNCHANGED vars
  BY <1>9, NothingMoves DEF vars, world, bag
<1>10. QED
  BY <1>1, <1>2, <1>3, <1>4, <1>5, <1>6, <1>7, <1>8, <1>9 DEF Next

(* The flags, the list and the decay implement the life of an item.           *)
THEOREM LifeImplemented == Spec => ImplementsItemLife
<1>1. Spec => []Inv
  BY InvInit, InvNext, PTL DEF Spec
<1>2. QED
  BY <1>1, LifeInit, LifeNext, PTL DEF Spec, ImplementsItemLife, Life!Spec, places
=============================================================================
