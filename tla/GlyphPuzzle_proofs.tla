------------------------- MODULE GlyphPuzzle_proofs --------------------------
(* Proofs about GlyphPuzzle, for any number of posters and sequences.         *)
EXTENDS GlyphPuzzle, SequenceTheorems, FiniteSetTheorems, TLAPS

(* The sequences still to come have their length, and the display is as long  *)
(* as the current one was: so it is always made anew for the next.            *)
Coming ==
  LET done == Len(Lengths) - Len(sequences)
  IN  /\ done >= 0
      /\ sequences # <<>> => Len(display) = Lengths[done + 1]
      /\ \A i \in 2..Len(sequences) : Len(sequences[i]) = Lengths[done + i]

Inv == TypeOK /\ GlyphsKept /\ DisplayTellsNext /\ SpeaksOnce /\ Coming

(* Swapping two places of a sequence keeps its elements, each once.           *)
LEMMA SwapKeeps ==
  ASSUME NEW S, NEW s \in Seq(S), NEW i \in 1..Len(s), NEW j \in 1..Len(s), IsInjective(s)
  PROVE  /\ Swapped(s, i, j) \in Seq(S)
         /\ Len(Swapped(s, i, j)) = Len(s)
         /\ IsInjective(Swapped(s, i, j))
<1> DEFINE t == Swapped(s, i, j)
<1>1. s \in [1..Len(s) -> S] /\ Len(s) \in Nat /\ DOMAIN s = 1..Len(s)
  BY LenProperties
<1>2. s[i] \in S /\ s[j] \in S
  BY <1>1
<1>3. t \in [1..Len(s) -> S]
  BY <1>1, <1>2 DEF Swapped
<1>4. t \in Seq(S) /\ Len(t) = Len(s)
  BY <1>1, <1>3
<1>5. ASSUME NEW k \in 1..Len(s) PROVE t[k] = IF k = j THEN s[i] ELSE IF k = i THEN s[j] ELSE s[k]
  BY <1>1 DEF Swapped
<1> HIDE DEF t
<1>6. IsInjective(t)
  <2>1. DOMAIN t = 1..Len(s)
    BY <1>3
  <2>2. \A a, b \in 1..Len(s) : s[a] = s[b] => a = b
    BY <1>1 DEF IsInjective
  <2>3. ASSUME NEW a \in 1..Len(s), NEW b \in 1..Len(s), t[a] = t[b] PROVE a = b
    BY <1>5, <2>2, <2>3
  <2>4. QED
    BY <2>1, <2>3 DEF IsInjective
<1>7. QED
  BY <1>4, <1>6 DEF t

LEMMA Constants ==
  /\ Hung \in Seq(Glyphs) /\ Len(Hung) \in Nat \ {0} /\ Posters = 1..Len(Hung)
  /\ Hung \in [Posters -> Glyphs] /\ IsInjective(Hung)
  /\ Len(Lengths) \in Nat \ {0} /\ DOMAIN Lengths = 1..Len(Lengths)
  /\ \A i \in 1..Len(Lengths) : Lengths[i] \in Nat \ {0}
  /\ \A i \in 1..(Len(Lengths) - 1) : Lengths[i] # Lengths[i + 1]
  /\ Away \notin Posters
<1>1. Hung \in Seq(Glyphs) /\ Hung # <<>> /\ Lengths \in Seq(1..Len(Hung)) /\ Lengths # <<>>
  BY PuzzleAssumption
<1>2. Len(Hung) \in Nat \ {0} /\ Hung \in [1..Len(Hung) -> Glyphs] /\ Posters = 1..Len(Hung)
  BY <1>1, LenProperties, EmptySeq DEF Posters
<1>3. Len(Lengths) \in Nat \ {0} /\ Lengths \in [1..Len(Lengths) -> 1..Len(Hung)]
  BY <1>1, LenProperties, EmptySeq
<1>4. \A i \in 1..Len(Lengths) : Lengths[i] \in Nat \ {0}
  BY <1>2, <1>3
<1>5. QED
  BY <1>1, <1>2, <1>3, <1>4, PuzzleAssumption

(* A new display tells the first glyph of its sequence.                       *)
LEMMA FreshTells ==
  ASSUME NEW s \in Seq(Glyphs)
  PROVE  /\ Fresh(s) \in Seq(Tiles)
         /\ Len(Fresh(s)) = Len(s)
         /\ DOMAIN Fresh(s) = 1..Len(s)
         /\ \A i \in 1..Len(s) :
              Fresh(s)[i] = [glyph |-> s[i], color |-> IF i = 1 THEN "white" ELSE "gray"]
         /\ s # <<>> => Tells(Fresh(s), s)
<1>1. Len(s) \in Nat /\ \A i \in 1..Len(s) : s[i] \in Glyphs
  BY LenProperties
<1>2. Fresh(s) \in [1..Len(s) -> Tiles]
  BY <1>1 DEF Fresh, Tiles
<1>3. Fresh(s) \in Seq(Tiles) /\ Len(Fresh(s)) = Len(s)
  BY <1>1, <1>2
<1>4. /\ DOMAIN Fresh(s) = 1..Len(s)
      /\ \A i \in 1..Len(s) :
           Fresh(s)[i] = [glyph |-> s[i], color |-> IF i = 1 THEN "white" ELSE "gray"]
  BY <1>1 DEF Fresh
<1>5. Len(Fresh(s)) - Len(s) = 0
  BY <1>1, <1>3
<1>6. s # <<>> => Tells(Fresh(s), s)
  BY <1>1, <1>4, <1>5 DEF Tells
<1>7. QED
  BY <1>3, <1>4, <1>6

(* When a glyph is entered that is not the last, the display tells the next.  *)
LEMMA LitTells ==
  ASSUME NEW h \in Seq(Glyphs), NEW shown \in Seq(Tiles), Tells(shown, h), Tail(h) # <<>>
  PROVE  /\ Lit(shown, Len(shown) - Len(h) + 1) \in Seq(Tiles)
         /\ Len(Lit(shown, Len(shown) - Len(h) + 1)) = Len(shown)
         /\ Tells(Lit(shown, Len(shown) - Len(h) + 1), Tail(h))
<1> DEFINE e == Len(shown) - Len(h)
           lit == Lit(shown, e + 1)
           next == Tail(h)
<1>1. /\ Len(shown) \in Nat /\ DOMAIN shown = 1..Len(shown) /\ Len(h) \in Nat /\ h # <<>> /\ e \in Nat
      /\ \A i \in 1..Len(shown) : shown[i] \in Tiles
  BY LenProperties DEF Tells
<1>2. /\ next \in Seq(Glyphs) /\ Len(next) = Len(h) - 1
      /\ \A i \in 1..(Len(h) - 1) : next[i] = h[i + 1]
  BY <1>1, HeadTailProperties
<1>3. ASSUME NEW tile \in Tiles
      PROVE  /\ Painted(tile, "green") \in Tiles /\ Painted(tile, "green").color = "green"
             /\ Painted(tile, "white") \in Tiles
             /\ Painted(tile, "white") = [glyph |-> tile.glyph, color |-> "white"]
  BY DEF Tiles, Painted
<1>4. DOMAIN lit = 1..Len(shown)
  BY <1>1 DEF Lit
<1>5. ASSUME NEW i \in 1..Len(shown)
      PROVE  lit[i] = IF i = e + 1 THEN Painted(shown[i], "green")
                      ELSE IF i = e + 2 THEN Painted(shown[i], "white") ELSE shown[i]
  BY <1>1 DEF Lit
<1>6. lit \in [1..Len(shown) -> Tiles]
  <2>1. ASSUME NEW i \in 1..Len(shown) PROVE lit[i] \in Tiles
    BY <1>1, <1>3, <1>5
  <2>2. lit = [i \in 1..Len(shown) |-> lit[i]]
    BY <1>1 DEF Lit
  <2> HIDE DEF lit
  <2>3. QED
    BY <2>1, <2>2
<1> HIDE DEF lit
<1>7. lit \in Seq(Tiles) /\ Len(lit) = Len(shown)
  BY <1>1, <1>6
<1>8. Len(lit) - Len(next) = e + 1
  BY <1>1, <1>2, <1>7
<1>9. ASSUME NEW i \in 1..Len(shown)
      PROVE  /\ i <= e + 1 => lit[i].color = "green"
             /\ i > e + 1 => lit[i] = [glyph |-> next[i - (e + 1)], color |-> IF i = (e + 1) + 1 THEN "white" ELSE "gray"]
  <2>0. /\ i <= e => shown[i].color = "green"
        /\ i > e => shown[i] = [glyph |-> h[i - e], color |-> IF i = e + 1 THEN "white" ELSE "gray"]
    BY <1>1 DEF Tells
  <2> HIDE DEF e, next
  <2>1. CASE i <= e
    BY <1>1, <1>5, <2>0, <2>1
  <2>2. CASE i = e + 1
    BY <1>1, <1>3, <1>5, <2>2, SMTT(60)
  <2>3. CASE i > e + 1
    <3>1. i - (e + 1) \in 1..(Len(h) - 1) /\ (i - (e + 1)) + 1 = i - e
      BY <1>1, <2>3 DEF e
    <3>2. next[i - (e + 1)] = h[i - e]
      BY <1>2, <3>1
    <3>3. shown[i] = [glyph |-> next[i - (e + 1)], color |-> "gray"]
      BY <1>1, <2>0, <2>3, <3>2
    <3>4. Painted(shown[i], "white") = [glyph |-> next[i - (e + 1)], color |-> "white"]
      BY <1>1, <1>3, <3>3, SMTT(60)
    <3>5. QED
      BY <1>1, <1>5, <2>3, <3>3, <3>4, SMTT(60)
  <2>4. QED
    BY <1>1, <2>1, <2>2, <2>3
<1>10. Tells(lit, next)
  <2>1. next # <<>> /\ e + 1 >= 0
    BY <1>1
  <2> HIDE DEF e, next
  <2>2. QED
    BY <1>4, <1>8, <1>9, <2>1 DEF Tells
<1>11. QED
  BY <1>7, <1>10 DEF lit

LEMMA InvInit == ASSUME Init PROVE Inv
<1> DEFINE All == UNION {Draws(n) : n \in Range(Lengths)}
<1>1. PICK s \in [DOMAIN Lengths -> All] : (\A i \in DOMAIN Lengths : s[i] \in Draws(Lengths[i])) /\ sequences = s
  BY DEF Init
<1>2. \A i \in 1..Len(Lengths) : sequences[i] \in Seq(Glyphs) /\ Len(sequences[i]) = Lengths[i]
  <2>1. ASSUME NEW i \in 1..Len(Lengths) PROVE sequences[i] \in Seq(Glyphs) /\ Len(sequences[i]) = Lengths[i]
    <3>1. Lengths[i] \in Nat /\ sequences[i] \in [1..Lengths[i] -> Glyphs]
      BY <1>1, Constants DEF Draws
    <3>2. QED
      BY <3>1
  <2>2. QED
    BY <2>1
<1>3. sequences \in Seq(Seq(Glyphs)) /\ Len(sequences) = Len(Lengths) /\ sequences # <<>>
  <2>1. sequences \in [1..Len(Lengths) -> Seq(Glyphs)]
    BY <1>1, <1>2, Constants
  <2>2. Len(Lengths) \in Nat \ {0}
    BY Constants
  <2>3. QED
    BY <2>1, <2>2
<1>4. Head(sequences) = sequences[1] /\ sequences[1] \in Seq(Glyphs) /\ Len(sequences[1]) = Lengths[1] /\ Lengths[1] \in Nat \ {0}
  BY <1>2, <1>3, Constants
<1>5. display = Fresh(sequences[1])
  BY <1>3, <1>4 DEF Init, UpdateDisplayGlyphs
<1>6. TypeOK
  <2>1. display \in Seq(Tiles)
    BY <1>4, <1>5, FreshTells
  <2>2. phase = "update" /\ wall \in [Posters -> Glyphs] /\ swapTimer \in Int /\ m = 0 /\ at = Away /\ speeches = 0
    BY Constants, PuzzleAssumption DEF Init
  <2>3. m \in 0..Len(Hung)
    BY <2>2, Constants
  <2>4. QED
    BY <1>3, <2>1, <2>2, <2>3 DEF TypeOK
<1>7. GlyphsKept
  BY Constants DEF Init, GlyphsKept
<1>8. DisplayTellsNext
  BY <1>3, <1>4, <1>5, FreshTells DEF DisplayTellsNext
<1>9. SpeaksOnce
  BY <1>3 DEF Init, SpeaksOnce
<1>10. Coming
  BY <1>2, <1>3, <1>4, <1>5, FreshTells, Constants DEF Coming
<1>11. QED
  BY <1>6, <1>7, <1>8, <1>9, <1>10 DEF Inv

(* ------------------------------- the steps -------------------------------- *)

(* What concerns the puzzle and the display, and is left alone by the swaps   *)
(* and by walking.                                                            *)
LEMMA PuzzleUnchanged ==
  ASSUME UNCHANGED puzzle, DisplayTellsNext, SpeaksOnce, Coming
  PROVE  DisplayTellsNext' /\ SpeaksOnce' /\ Coming'
  BY DEF puzzle, DisplayTellsNext, SpeaksOnce, Coming

LEMMA InvUpdate == ASSUME Inv, Update PROVE Inv'
<1>1. DisplayTellsNext' /\ SpeaksOnce' /\ Coming'
  BY PuzzleUnchanged DEF Inv, Update
<1>2. PICK step \in TimeSteps :
        IF swapTimer + step < Interval
        THEN swapTimer' = swapTimer + step /\ phase' = "physics" /\ UNCHANGED m
        ELSE swapTimer' = 0 /\ phase' = "swap" /\ m' = Len(Hung)
  BY DEF Update
<1>3. step \in Int /\ Interval \in Nat \ {0} /\ Len(Hung) \in Nat \ {0}
  BY PuzzleAssumption, Constants
<1>4. TypeOK' /\ GlyphsKept'
  BY <1>2, <1>3 DEF Inv, TypeOK, GlyphsKept, Update, puzzle
<1>5. QED
  BY <1>1, <1>4 DEF Inv

LEMMA InvSwap == ASSUME Inv, Swap PROVE Inv'
<1>1. DisplayTellsNext' /\ SpeaksOnce' /\ Coming'
  BY PuzzleUnchanged DEF Inv, Swap
<1>2. m \in 1..Len(Hung) /\ wall \in [1..Len(Hung) -> Glyphs] /\ Len(Hung) \in Nat
  BY Constants DEF Inv, TypeOK, Swap
<1>3. wall \in Seq(Glyphs) /\ Len(wall) = Len(Hung)
  BY <1>2
<1>4. PICK n \in 1..m : wall' = Swapped(wall, m, n)
  BY DEF Swap
<1>5. wall' \in Seq(Glyphs) /\ Len(wall') = Len(Hung) /\ IsInjective(wall')
  BY <1>2, <1>3, <1>4, SwapKeeps DEF Inv, GlyphsKept
<1>6. wall' \in [Posters -> Glyphs]
  BY <1>5, LenProperties, Constants
<1>7. TypeOK'
  <2>1. m' = m - 1 /\ phase' = (IF m = 1 THEN "physics" ELSE "swap") /\ phase = "swap"
    BY DEF Swap
  <2>2. m' \in 0..Len(Hung) /\ (phase' = "swap" <=> m' > 0) /\ phase' \in {"swap", "physics"}
    BY <1>2, <2>1
  <2>3. swapTimer' < Interval
    BY <2>1 DEF Swap, Inv, TypeOK
  <2>4. UNCHANGED <<swapTimer, at, sequences, display, speeches>>
    BY DEF Swap, puzzle
  <2>5. QED
    BY <1>6, <2>2, <2>3, <2>4 DEF Inv, TypeOK
<1>8. QED
  BY <1>1, <1>5, <1>7 DEF Inv, GlyphsKept

(* Another first element.                                                     *)
LEMMA HeadReplaced ==
  ASSUME NEW S, NEW s \in Seq(S), s # <<>>, NEW e \in S
  PROVE  /\ <<e>> \o Tail(s) \in Seq(S)
         /\ <<e>> \o Tail(s) # <<>>
         /\ Len(<<e>> \o Tail(s)) = Len(s)
         /\ (<<e>> \o Tail(s))[1] = e
         /\ \A i \in 2..Len(s) : (<<e>> \o Tail(s))[i] = s[i]
<1> DEFINE rest == Tail(s)
           one == <<e>>
<1>1. /\ Len(s) \in Nat \ {0} /\ rest \in Seq(S) /\ Len(rest) = Len(s) - 1
      /\ \A i \in 1..(Len(s) - 1) : rest[i] = s[i + 1]
  BY HeadTailProperties, LenProperties, EmptySeq
<1>2. one \in Seq(S) /\ Len(one) = 1 /\ one[1] = e
  OBVIOUS
<1> HIDE DEF rest, one
<1>3. /\ one \o rest \in Seq(S) /\ Len(one \o rest) = 1 + Len(rest)
      /\ \A i \in 1..(1 + Len(rest)) : (one \o rest)[i] = IF i <= 1 THEN one[i] ELSE rest[i - 1]
  <2>1. /\ one \o rest \in Seq(S) /\ Len(one \o rest) = Len(one) + Len(rest)
        /\ \A i \in 1..(Len(one) + Len(rest)) :
             (one \o rest)[i] = IF i <= Len(one) THEN one[i] ELSE rest[i - Len(one)]
    BY <1>1, <1>2, ConcatProperties, ZenonT(60)
  <2>2. QED
    BY <1>2, <2>1
<1>4. 1 + Len(rest) = Len(s)
  BY <1>1
<1>5. (one \o rest)[1] = e
  <2>1. 1 \in 1..(1 + Len(rest)) /\ 1 <= 1
    BY <1>1, <1>4
  <2>2. QED
    BY <1>2, <1>3, <2>1
<1>6. ASSUME NEW i \in 2..Len(s) PROVE (one \o rest)[i] = s[i]
  <2>1. i \in 1..(1 + Len(rest)) /\ ~(i <= 1) /\ i - 1 \in 1..(Len(s) - 1) /\ (i - 1) + 1 = i
    BY <1>1, <1>4
  <2>2. QED
    BY <1>1, <1>3, <2>1
<1>7. one \o rest # <<>>
  BY <1>1, <1>3, <1>4, EmptySeq
<1>8. QED
  BY <1>3, <1>4, <1>5, <1>6, <1>7 DEF one, rest

(* The glyph entered is not the last of its sequence.                         *)
LEMMA EnterWithin ==
  ASSUME Inv, sequences # <<>>, Tail(Head(sequences)) # <<>>, Enter
  PROVE  /\ sequences' \in Seq(Seq(Glyphs)) /\ display' \in Seq(Tiles) /\ speeches' = 0
         /\ DisplayTellsNext' /\ SpeaksOnce' /\ Coming'
<1> DEFINE h == Head(sequences)
           rest == Tail(sequences)
           lit == Lit(display, Len(display) - Len(h) + 1)
<1>1. /\ sequences \in Seq(Seq(Glyphs)) /\ h \in Seq(Glyphs) /\ display \in Seq(Tiles)
      /\ Len(sequences) \in Nat \ {0} /\ Tells(display, h)
  BY HeadTailProperties, EmptySeq, LenProperties DEF Inv, TypeOK, DisplayTellsNext
<1>2. lit \in Seq(Tiles) /\ Len(lit) = Len(display) /\ Tells(lit, Tail(h))
  BY <1>1, LitTells
<1>3. Tail(h) \in Seq(Glyphs)
  BY <1>1, HeadTailProperties DEF Tells
<1>4. /\ <<Tail(h)>> \o rest \in Seq(Seq(Glyphs)) /\ <<Tail(h)>> \o rest # <<>>
      /\ Len(<<Tail(h)>> \o rest) = Len(sequences)
      /\ (<<Tail(h)>> \o rest)[1] = Tail(h)
      /\ \A i \in 2..Len(sequences) : (<<Tail(h)>> \o rest)[i] = sequences[i]
  BY <1>1, <1>3, HeadReplaced
<1>5. sequences' = <<Tail(h)>> \o rest /\ display' = lit /\ speeches' = speeches
  BY <1>4 DEF Enter
<1> HIDE DEF h, rest, lit
<1>6. /\ sequences' \in Seq(Seq(Glyphs)) /\ Len(sequences') = Len(sequences) /\ Head(sequences') = Tail(h)
      /\ sequences' # <<>>
      /\ \A i \in 2..Len(sequences) : sequences'[i] = sequences[i]
  BY <1>4, <1>5
<1>7. DisplayTellsNext'
  BY <1>2, <1>5, <1>6 DEF DisplayTellsNext
<1>8. speeches' = 0 /\ SpeaksOnce'
  BY <1>5, <1>6 DEF Inv, SpeaksOnce
<1>9. Coming'
  BY <1>1, <1>2, <1>5, <1>6 DEF Inv, Coming
<1>10. QED
  BY <1>2, <1>5, <1>6, <1>7, <1>8, <1>9

(* The glyph entered completes its sequence.                                  *)
LEMMA EnterLast ==
  ASSUME Inv, sequences # <<>>, Tail(Head(sequences)) = <<>>, Enter
  PROVE  /\ sequences' \in Seq(Seq(Glyphs)) /\ display' \in Seq(Tiles) /\ speeches' \in Nat
         /\ DisplayTellsNext' /\ SpeaksOnce' /\ Coming'
<1> DEFINE rest == Tail(sequences)
           lit == Lit(display, Len(display) - Len(Head(sequences)) + 1)
           done == Len(Lengths) - Len(sequences)
<1>1. /\ sequences \in Seq(Seq(Glyphs)) /\ Len(sequences) \in Nat \ {0}
      /\ rest \in Seq(Seq(Glyphs)) /\ Len(rest) = Len(sequences) - 1
      /\ \A i \in 1..(Len(sequences) - 1) : rest[i] = sequences[i + 1]
      /\ display \in Seq(Tiles) /\ Len(display) \in Nat /\ DOMAIN display = 1..Len(display)
  BY HeadTailProperties, EmptySeq, LenProperties DEF Inv, TypeOK
<1>0. Len(Lengths) \in Nat /\ Len(sequences') = Len(sequences) - 1 /\ done + 1 = Len(Lengths) - (Len(sequences) - 1)
  <2>1. Len(Lengths) \in Nat
    BY Constants
  <2>2. sequences' = rest
    BY DEF Enter
  <2> HIDE DEF rest
  <2>3. QED
    BY <1>1, <2>1, <2>2
<1>2. /\ done >= 0 /\ Len(display) = Lengths[done + 1]
      /\ \A i \in 2..Len(sequences) : Len(sequences[i]) = Lengths[done + i]
  BY DEF Inv, Coming
<1>3. Len(lit) = Len(display)
  <2>1. lit = [i \in 1..Len(display) |-> lit[i]]
    BY <1>1 DEF Lit
  <2> HIDE DEF lit
  <2>2. QED
    BY <1>1, <2>1
<1>4. /\ sequences' = rest /\ display' = UpdateDisplayGlyphs(lit, rest)
      /\ speeches' = IF rest = <<>> THEN speeches + 1 ELSE speeches
  BY DEF Enter
<1>5. speeches' \in Nat /\ SpeaksOnce'
  BY <1>4 DEF Inv, SpeaksOnce
<1> HIDE DEF rest, lit
<1>6. CASE rest = <<>>
  <2>1. display' = <<>> /\ sequences' = <<>> /\ Len(rest) = 0
    BY <1>4, <1>6 DEF UpdateDisplayGlyphs
  <2>2. done + 1 = Len(Lengths)
    <3>1. Len(sequences) = 1
      BY <1>1, <2>1
    <3>2. QED
      BY <1>0, <3>1
  <2>3. Coming'
    BY <1>1, <2>1, <2>2, Constants DEF Coming
  <2>4. display' \in Seq(Tiles) /\ sequences' \in Seq(Seq(Glyphs))
    BY <2>1, EmptySeq
  <2>5. DisplayTellsNext'
    BY <2>1 DEF DisplayTellsNext
  <2>6. QED
    BY <1>5, <2>3, <2>4, <2>5
<1>7. CASE rest # <<>>
  <2>1. /\ Len(rest) \in Nat \ {0} /\ Head(rest) = rest[1] /\ rest[1] = sequences[2]
        /\ rest[1] \in Seq(Glyphs) /\ 2 \in 2..Len(sequences)
    <3>1. Len(rest) \in Nat \ {0}
      BY <1>1, <1>7, EmptySeq
    <3>2. 1 \in 1..(Len(sequences) - 1) /\ 2 \in 2..Len(sequences)
      BY <1>1, <3>1
    <3>3. rest[1] = sequences[2]
      BY <1>1, <3>2
    <3>4. QED
      BY <1>1, <1>7, <3>1, <3>2, <3>3, SMTT(60)
  <2>2. done + 1 \in 1..(Len(Lengths) - 1) /\ done + 2 \in 1..Len(Lengths)
    BY <1>1, <1>2, <2>1, Constants
  <2>3. Len(rest[1]) = Lengths[done + 2] /\ Lengths[done + 1] # Lengths[done + 2] /\ Lengths[done + 2] \in Nat \ {0}
    <3>1. (done + 1) + 1 = done + 2
      BY <1>1, Constants
    <3> HIDE DEF done
    <3>2. QED
      BY <1>2, <2>1, <2>2, <3>1, Constants
  <2>4. display' = Fresh(rest[1])
    BY <1>2, <1>3, <1>4, <1>7, <2>1, <2>3 DEF UpdateDisplayGlyphs
  <2>5. display' \in Seq(Tiles) /\ Len(display') = Lengths[done + 2] /\ Tells(display', rest[1])
    BY <2>1, <2>3, <2>4, FreshTells, EmptySeq
  <2>6. DisplayTellsNext'
    BY <1>4, <1>7, <2>1, <2>5 DEF DisplayTellsNext
  <2>7. Coming'
    <3>1. Len(Lengths) - Len(sequences') = done + 1
      BY <1>0
    <3>2. ASSUME NEW i \in 2..Len(sequences') PROVE Len(sequences'[i]) = Lengths[(done + 1) + i]
      <4>1. i \in 1..(Len(sequences) - 1) /\ i + 1 \in 2..Len(sequences) /\ done + (i + 1) = (done + 1) + i
        BY <1>1, <1>4, Constants
      <4>2. sequences'[i] = sequences[i + 1]
        BY <1>1, <1>4, <4>1
      <4> HIDE DEF done
      <4>3. QED
        BY <1>2, <4>1, <4>2
    <3>3. (done + 1) + 1 = done + 2 /\ done + 1 >= 0
      BY <2>2, <1>1, Constants
    <3> HIDE DEF done
    <3>4. QED
      BY <2>5, <3>1, <3>2, <3>3 DEF Coming
  <2>8. QED
    BY <1>1, <1>4, <1>5, <2>5, <2>6, <2>7
<1>8. QED
  BY <1>6, <1>7

LEMMA InvWalkTo == ASSUME Inv, NEW p \in Posters, WalkTo(p) PROVE Inv'
<1>1. CASE Matches(p)
  <2>1. sequences # <<>> /\ Enter
    BY <1>1 DEF WalkTo, HandleNodeCollision, Matches
  <2>2. /\ sequences' \in Seq(Seq(Glyphs)) /\ display' \in Seq(Tiles) /\ speeches' \in Nat
        /\ DisplayTellsNext' /\ SpeaksOnce' /\ Coming'
    BY <2>1, EnterWithin, EnterLast
  <2>3. TypeOK' /\ GlyphsKept'
    BY <2>2 DEF Inv, TypeOK, GlyphsKept, WalkTo
  <2>4. QED
    BY <2>2, <2>3 DEF Inv
<1>2. CASE ~Matches(p)
  <2>1. UNCHANGED puzzle
    BY <1>2 DEF WalkTo, HandleNodeCollision
  <2>2. TypeOK' /\ GlyphsKept'
    BY <2>1 DEF Inv, TypeOK, GlyphsKept, WalkTo, puzzle
  <2>3. QED
    BY <2>1, <2>2, PuzzleUnchanged DEF Inv
<1>3. QED
  BY <1>1, <1>2

LEMMA InvStep == ASSUME Inv, [Next]_vars PROVE Inv'
<1>1. ASSUME Leave \/ Stay \/ UNCHANGED vars PROVE Inv'
  <2>1. UNCHANGED puzzle
    BY <1>1 DEF Leave, Stay, vars, puzzle
  <2>2. TypeOK' /\ GlyphsKept'
    BY <1>1 DEF Inv, TypeOK, GlyphsKept, Leave, Stay, vars, puzzle
  <2>3. QED
    BY <2>1, <2>2, PuzzleUnchanged DEF Inv
<1>2. QED
  BY <1>1, InvUpdate, InvSwap, InvWalkTo DEF Next, Physics

(* Every variable keeps its type.                                             *)
THEOREM TypeCorrect == Spec => []TypeOK
<1>1. Inv => TypeOK
  BY DEF Inv
<1>2. QED
  BY InvInit, InvStep, <1>1, PTL DEF Spec

(* The posters' loop, at any point of it, keeps every glyph on the wall.      *)
THEOREM GlyphsCorrect == Spec => []GlyphsKept
<1>1. Inv => GlyphsKept
  BY DEF Inv
<1>2. QED
  BY InvInit, InvStep, <1>1, PTL DEF Spec

(* The display always tells which glyph the person must find next, and the    *)
(* last words, with the mark that ends the level, are queued once.            *)
THEOREM DisplayCorrect == Spec => []TellsHowFar
<1>1. Inv => TellsHowFar
  BY DEF Inv, TellsHowFar
<1>2. QED
  BY InvInit, InvStep, <1>1, PTL DEF Spec

(* --------------------- the combination that is entered -------------------- *)

(* A set of numbers that is not empty has a least element: of the intervals   *)
(* 1..n one is the least.                                                     *)
LEMMA LeastElement ==
  ASSUME NEW B \in SUBSET Nat, B # {}
  PROVE  \E n \in B : \A k \in B : n <= k
<1> DEFINE T == {1..n : n \in B}
<1>1. T # {} /\ T \subseteq FiniteSubsetsOf(Nat)
  <2>1. ASSUME NEW n \in B PROVE 1..n \in FiniteSubsetsOf(Nat)
    <3>1. IsFiniteSet(1..n) /\ 1..n \in SUBSET Nat
      BY FS_Interval
    <3>2. QED
      BY <3>1 DEF FiniteSubsetsOf
  <2>2. QED
    BY <2>1
<1>2. IsWellFoundedOn(StrictSubsetOrdering(Nat), FiniteSubsetsOf(Nat))
  BY FS_StrictSubsetOrderingWellFounded
<1>3. PICK t \in T : \A u \in T : ~(<<u, t>> \in StrictSubsetOrdering(Nat))
  <2> HIDE DEF T
  <2>1. QED
    BY <1>1, <1>2, WFMin
<1>4. PICK n \in B : t = 1..n
  OBVIOUS
<1>5. ASSUME NEW k \in B, k < n PROVE FALSE
  <2>1. /\ 1..k \in T
        /\ 1..k \subseteq 1..n
        /\ n \in 1..n
        /\ n \notin 1..k
    BY <1>5
  <2>2. <<1..k, 1..n>> \in StrictSubsetOrdering(Nat)
    BY <2>1 DEF StrictSubsetOrdering
  <2>3. QED
    BY <1>3, <1>4, <2>1, <2>2
<1>6. QED
  BY <1>5

(* Induction, about the set of the numbers for which a statement holds.       *)
LEMMA Induction ==
  ASSUME NEW G \in SUBSET Nat, 0 \in G, \A n \in G : n + 1 \in G
  PROVE  G = Nat
<1>1. SUFFICES ASSUME Nat \ G # {} PROVE FALSE
  OBVIOUS
<1>2. PICK n \in Nat \ G : \A k \in Nat \ G : n <= k
  <2>1. Nat \ G \in SUBSET Nat
    OBVIOUS
  <2>2. QED
    BY <1>1, <2>1, LeastElement
<1>3. n - 1 \in G
  BY <1>2
<1>4. QED
  BY <1>2, <1>3

(* What the function in FlattenSeq says of itself, without the recursion.     *)
FlatTo(f, s) == f = [i \in 1..Len(s) |-> IF i = 1 THEN s[i] ELSE f[i - 1] \o s[i]]

LEMMA FlatExists ==
  ASSUME NEW s, Len(s) \in Nat
  PROVE  \E f : FlatTo(f, s)
<1> DEFINE Upto(f, k) == f = [i \in 1..k |-> IF i = 1 THEN s[i] ELSE f[i - 1] \o s[i]]
           G == {k \in Nat : \E f : Upto(f, k)}
<1>1. 0 \in G
  <2>1. Upto([i \in 1..0 |-> <<>>], 0)
    OBVIOUS
  <2>2. QED
    BY <2>1
<1>2. ASSUME NEW k \in G PROVE k + 1 \in G
  <2>1. PICK f : Upto(f, k)
    OBVIOUS
  <2> DEFINE last == IF k = 0 THEN s[1] ELSE f[k] \o s[k + 1]
             g == [i \in 1..(k + 1) |-> IF i = k + 1 THEN last ELSE f[i]]
  <2>2. \A i \in 1..k : f[i] = IF i = 1 THEN s[i] ELSE f[i - 1] \o s[i]
    BY <2>1
  <2>3. \A i \in 1..(k + 1) : g[i] = IF i = 1 THEN s[i] ELSE g[i - 1] \o s[i]
    <3> TAKE i \in 1..(k + 1)
    <3>1. CASE i = k + 1
      <4>1. CASE k = 0
        BY <3>1, <4>1
      <4>2. CASE k # 0
        <5>1. i # 1 /\ i - 1 = k /\ k \in 1..(k + 1) /\ k # k + 1
          BY <3>1, <4>2
        <5>2. g[i - 1] = f[k] /\ g[i] = f[k] \o s[k + 1]
          BY <3>1, <4>2, <5>1
        <5>3. QED
          BY <3>1, <5>1, <5>2
      <4>3. QED
        BY <4>1, <4>2
    <3>2. CASE i \in 1..k
      <4>1. g[i] = f[i] /\ (i # 1 => g[i - 1] = f[i - 1])
        BY <3>2
      <4>2. QED
        BY <2>2, <3>2, <4>1
    <3>3. QED
      BY <3>1, <3>2
  <2>4. Upto(g, k + 1)
    <3> HIDE DEF last
    <3>1. g = [i \in 1..(k + 1) |-> g[i]]
      OBVIOUS
    <3>2. QED
      BY <2>3, <3>1
  <2> HIDE DEF g, Upto
  <2>5. QED
    BY <2>4
<1>3. G = Nat
  <2> HIDE DEF G
  <2>1. G \in SUBSET Nat
    BY DEF G
  <2>2. QED
    BY <1>1, <1>2, <2>1, Induction
<1>4. QED
  BY <1>3 DEF FlatTo

(* There is one such function: two that differ would differ in a first place. *)
LEMMA FlatUnique ==
  ASSUME NEW s, Len(s) \in Nat, NEW f, FlatTo(f, s), NEW g, FlatTo(g, s)
  PROVE  f = g
<1> DEFINE n == Len(s)
           B == {i \in 1..n : f[i] # g[i]}
<1>1. /\ f = [i \in 1..n |-> f[i]] /\ \A i \in 1..n : f[i] = IF i = 1 THEN s[i] ELSE f[i - 1] \o s[i]
      /\ g = [i \in 1..n |-> g[i]] /\ \A i \in 1..n : g[i] = IF i = 1 THEN s[i] ELSE g[i - 1] \o s[i]
  BY DEF FlatTo
<1>2. SUFFICES ASSUME B # {} PROVE FALSE
  BY <1>1
<1>3. PICK i \in B : \A k \in B : i <= k
  <2>1. B \in SUBSET Nat
    OBVIOUS
  <2> HIDE DEF B
  <2>2. QED
    BY <1>2, <2>1, LeastElement
<1>4. i \in 1..n /\ f[i] # g[i]
  OBVIOUS
<1>5. i # 1
  BY <1>1, <1>4
<1>6. i - 1 \in 1..n /\ i - 1 \notin B
  <2>1. i - 1 \in 1..n /\ ~(i <= i - 1)
    BY <1>4, <1>5
  <2> HIDE DEF B
  <2>2. QED
    BY <1>3, <2>1
<1>7. f[i - 1] = g[i - 1]
  BY <1>6
<1>8. QED
  BY <1>1, <1>4, <1>5, <1>7, ZenonT(60)

LEMMA FlatIs ==
  ASSUME NEW s, Len(s) \in Nat \ {0}, NEW f, FlatTo(f, s)
  PROVE  FlattenSeq(s) = f[Len(s)]
<1> DEFINE g == CHOOSE h : FlatTo(h, s)
<1>1. FlattenSeq(s) = g[Len(s)]
  BY DEF FlattenSeq, FlatTo
<1>2. FlatTo(g, s)
  BY FlatExists
<1> HIDE DEF g
<1>3. g = f
  BY <1>2, FlatUnique
<1>4. QED
  BY <1>1, <1>3

(* The head and the tail of a concatenation are those of its first part.      *)
LEMMA ConcatHeadTail ==
  ASSUME NEW S, NEW a \in Seq(S), NEW b \in Seq(S), a # <<>>
  PROVE  /\ a \o b \in Seq(S)
         /\ a \o b # <<>>
         /\ Head(a \o b) = Head(a)
         /\ Tail(a \o b) = Tail(a) \o b
<1> DEFINE c == a \o b
<1>1. /\ Len(a) \in Nat \ {0} /\ Len(b) \in Nat /\ Tail(a) \in Seq(S) /\ Len(Tail(a)) = Len(a) - 1
      /\ \A i \in 1..(Len(a) - 1) : Tail(a)[i] = a[i + 1]
  BY HeadTailProperties, LenProperties, EmptySeq
<1>2. /\ c \in Seq(S) /\ Len(c) = Len(a) + Len(b)
      /\ \A i \in 1..(Len(a) + Len(b)) : c[i] = IF i <= Len(a) THEN a[i] ELSE b[i - Len(a)]
  BY ConcatProperties
<1> HIDE DEF c
<1>3. c # <<>>
  BY <1>1, <1>2, EmptySeq
<1>4. Head(c) = Head(a)
  <2>1. 1 \in 1..(Len(a) + Len(b)) /\ 1 <= Len(a)
    BY <1>1
  <2>2. c[1] = a[1]
    BY <1>2, <2>1
  <2>3. QED
    BY <1>2, <1>3, <2>2
<1>5. /\ Tail(c) \in Seq(S) /\ Len(Tail(c)) = Len(a) + Len(b) - 1
      /\ \A i \in 1..(Len(a) + Len(b) - 1) : Tail(c)[i] = c[i + 1]
  BY <1>2, <1>3, HeadTailProperties
<1>6. /\ Tail(a) \o b \in Seq(S) /\ Len(Tail(a) \o b) = (Len(a) - 1) + Len(b)
      /\ \A i \in 1..((Len(a) - 1) + Len(b)) :
           (Tail(a) \o b)[i] = IF i <= Len(a) - 1 THEN Tail(a)[i] ELSE b[i - (Len(a) - 1)]
  BY <1>1, ConcatProperties
<1>7. ASSUME NEW i \in 1..(Len(a) + Len(b) - 1) PROVE Tail(c)[i] = (Tail(a) \o b)[i]
  <2>1. i \in 1..((Len(a) - 1) + Len(b)) /\ i + 1 \in 1..(Len(a) + Len(b))
    BY <1>1
  <2>2. Tail(c)[i] = IF i + 1 <= Len(a) THEN a[i + 1] ELSE b[(i + 1) - Len(a)]
    BY <1>2, <1>5, <2>1
  <2>3. (Tail(a) \o b)[i] = IF i <= Len(a) - 1 THEN Tail(a)[i] ELSE b[i - (Len(a) - 1)]
    BY <1>6, <2>1
  <2>4. CASE i <= Len(a) - 1
    <3>1. i + 1 <= Len(a) /\ i \in 1..(Len(a) - 1)
      BY <1>1, <2>4
    <3>2. QED
      BY <1>1, <2>2, <2>3, <2>4, <3>1
  <2>5. CASE ~(i <= Len(a) - 1)
    <3>1. ~(i + 1 <= Len(a)) /\ (i + 1) - Len(a) = i - (Len(a) - 1)
      BY <1>1, <2>5
    <3>2. QED
      BY <2>2, <2>3, <2>5, <3>1
  <2>6. QED
    BY <2>4, <2>5
<1>8. Tail(c) = Tail(a) \o b
  <2>1. (Len(a) - 1) + Len(b) = Len(a) + Len(b) - 1
    BY <1>1
  <2>2. Len(Tail(c)) = Len(Tail(a) \o b) /\ \A i \in 1..Len(Tail(c)) : Tail(c)[i] = (Tail(a) \o b)[i]
    BY <1>5, <1>6, <1>7, <2>1
  <2>3. QED
    BY <1>5, <1>6, <2>2, SeqEqual
<1>9. QED
  BY <1>2, <1>3, <1>4, <1>8 DEF c

(* Whatever has been flattened so far begins with the first glyph of all.     *)
LEMMA FlatBegins ==
  ASSUME NEW s \in Seq(Seq(Glyphs)), s # <<>>, Head(s) # <<>>, NEW f, FlatTo(f, s), NEW k \in 1..Len(s)
  PROVE  f[k] \in Seq(Glyphs) /\ f[k] # <<>> /\ Head(f[k]) = Head(Head(s))
<1> DEFINE Fine(i) == f[i] \in Seq(Glyphs) /\ f[i] # <<>> /\ Head(f[i]) = Head(Head(s))
           B == {i \in 1..Len(s) : ~Fine(i)}
<1>1. Len(s) \in Nat /\ Head(s) = s[1] /\ \A i \in 1..Len(s) : s[i] \in Seq(Glyphs)
  BY LenProperties
<1>2. \A i \in 1..Len(s) : f[i] = IF i = 1 THEN s[i] ELSE f[i - 1] \o s[i]
  BY DEF FlatTo
<1>3. SUFFICES ASSUME B # {} PROVE FALSE
  OBVIOUS
<1>4. PICK i \in B : \A j \in B : i <= j
  <2>1. B \in SUBSET Nat
    OBVIOUS
  <2> HIDE DEF B
  <2>2. QED
    BY <1>3, <2>1, LeastElement
<1>5. i \in 1..Len(s) /\ ~Fine(i)
  OBVIOUS
<1>6. i # 1
  BY <1>1, <1>2, <1>5
<1>7. i - 1 \in 1..Len(s) /\ i - 1 \notin B
  <2>1. i - 1 \in 1..Len(s) /\ ~(i <= i - 1)
    BY <1>1, <1>5, <1>6
  <2> HIDE DEF B
  <2>2. QED
    BY <1>4, <2>1
<1>8. Fine(i - 1)
  BY <1>7
<1>9. f[i] = f[i - 1] \o s[i] /\ s[i] \in Seq(Glyphs)
  BY <1>1, <1>2, <1>5, <1>6
<1> HIDE DEF B
<1>10. f[i - 1] \in Seq(Glyphs) /\ f[i - 1] # <<>> /\ Head(f[i - 1]) = Head(Head(s))
  BY <1>8
<1> HIDE DEF Fine
<1>11. f[i] \in Seq(Glyphs) /\ f[i] # <<>> /\ Head(f[i]) = Head(Head(s))
  <2>1. \A a, b \in Seq(Glyphs) :
          a # <<>> => a \o b \in Seq(Glyphs) /\ a \o b # <<>> /\ Head(a \o b) = Head(a)
    BY ConcatHeadTail
  <2>2. QED
    BY <1>9, <1>10, <2>1
<1>12. QED
  BY <1>5, <1>11 DEF Fine

(* Entering the first glyph takes the head off the whole combination, whether *)
(* the first sequence is completed by it or not.                              *)
LEMMA FlatEnters ==
  ASSUME NEW s \in Seq(Seq(Glyphs)), s # <<>>, Head(s) # <<>>
  PROVE  /\ FlattenSeq(s) \in Seq(Glyphs)
         /\ FlattenSeq(s) # <<>>
         /\ Head(FlattenSeq(s)) = Head(Head(s))
         /\ Tail(Head(s)) = <<>> => FlattenSeq(Tail(s)) = Tail(FlattenSeq(s))
         /\ Tail(Head(s)) # <<>> => FlattenSeq(<<Tail(Head(s))>> \o Tail(s)) = Tail(FlattenSeq(s))
<1> DEFINE n == Len(s)
           h == Head(s)
<1>1. n \in Nat \ {0} /\ h = s[1] /\ h \in Seq(Glyphs) /\ \A i \in 1..n : s[i] \in Seq(Glyphs)
  BY LenProperties, EmptySeq
<1>2. PICK f : FlatTo(f, s)
  BY <1>1, FlatExists
<1>3. FlattenSeq(s) = f[n]
  BY <1>1, <1>2, FlatIs
<1>4. \A k \in 1..n : f[k] \in Seq(Glyphs) /\ f[k] # <<>> /\ Head(f[k]) = Head(h)
  BY <1>2, FlatBegins
<1>5. f[1] = h /\ \A k \in 2..n : f[k] = f[k - 1] \o s[k]
  <2>1. \A k \in 1..n : f[k] = IF k = 1 THEN s[k] ELSE f[k - 1] \o s[k]
    BY <1>2 DEF FlatTo
  <2>2. 1 \in 1..n /\ \A k \in 2..n : k \in 1..n /\ k # 1
    BY <1>1
  <2>3. f[1] = h
    BY <1>1, <2>1, <2>2
  <2>4. QED
    BY <2>1, <2>2, <2>3
<1> HIDE DEF n, h
<1>6. ASSUME NEW k \in 2..n PROVE Tail(f[k]) = Tail(f[k - 1]) \o s[k]
  <2>1. k \in 1..n /\ k - 1 \in 1..n
    BY <1>1
  <2>2. QED
    <3>1. \A a, b \in Seq(Glyphs) : a # <<>> => Tail(a \o b) = Tail(a) \o b
      BY ConcatHeadTail, SMTT(60)
    <3>2. QED
      BY <1>1, <1>4, <1>5, <2>1, <3>1, ZenonT(60)
<1>7. ASSUME Tail(h) = <<>> PROVE FlattenSeq(Tail(s)) = Tail(f[n])
  <2> DEFINE t == Tail(s)
             g == [i \in 1..(n - 1) |-> Tail(f[i + 1])]
  <2>1. t \in Seq(Seq(Glyphs)) /\ Len(t) = n - 1 /\ \A i \in 1..(n - 1) : t[i] = s[i + 1]
    BY HeadTailProperties DEF n
  <2>2. CASE n = 1
    <3>1. t = <<>> /\ Len(t) = 0
      <4> HIDE DEF t
      <4>1. QED
        BY <2>1, <2>2, EmptySeq
    <3>2. FlattenSeq(t) = <<>>
      BY <3>1 DEF FlattenSeq
    <3>3. QED
      BY <1>5, <1>7, <2>2, <3>2
  <2>3. CASE n # 1
    <3>1. n - 1 \in Nat \ {0}
      BY <1>1, <2>3
    <3>2. ASSUME NEW i \in 1..(n - 1) PROVE g[i] = IF i = 1 THEN t[i] ELSE g[i - 1] \o t[i]
      <4>1. i + 1 \in 2..n /\ i + 1 \in 1..n /\ (i + 1) - 1 = i /\ t[i] = s[i + 1]
        BY <1>1, <2>1
      <4>2. g[i] = Tail(f[i]) \o t[i]
        BY <1>6, <4>1
      <4>3. CASE i = 1
        <5>1. Tail(f[i]) \o t[i] = t[i]
          BY <1>1, <1>5, <1>7, <4>1, <4>3, ConcatEmptySeq, ZenonT(60)
        <5>2. QED
          BY <4>2, <4>3, <5>1
      <4>4. CASE i # 1
        <5>1. g[i - 1] = Tail(f[i])
          <6>1. i - 1 \in 1..(n - 1) /\ (i - 1) + 1 = i
            BY <1>1, <4>4
          <6>2. QED
            BY <6>1
        <5> HIDE DEF g, t
        <5>2. QED
          BY <4>2, <4>4, <5>1
      <4>5. QED
        BY <4>3, <4>4
    <3>3. FlatTo(g, t)
      <4>1. g = [i \in 1..Len(t) |-> g[i]]
        BY <2>1
      <4>2. \A i \in 1..Len(t) : g[i] = IF i = 1 THEN t[i] ELSE g[i - 1] \o t[i]
        BY <2>1, <3>2
      <4> HIDE DEF g, t
      <4>3. QED
        BY <4>1, <4>2 DEF FlatTo
    <3>4. FlattenSeq(t) = g[n - 1]
      <4> HIDE DEF g, t
      <4>1. QED
        BY <2>1, <3>1, <3>3, FlatIs
    <3>5. g[n - 1] = Tail(f[n])
      BY <1>1, <3>1
    <3>6. QED
      BY <3>4, <3>5
  <2>4. QED
    BY <2>2, <2>3
<1>8. ASSUME Tail(h) # <<>> PROVE FlattenSeq(<<Tail(h)>> \o Tail(s)) = Tail(f[n])
  <2> DEFINE t == <<Tail(h)>> \o Tail(s)
             g == [i \in 1..n |-> Tail(f[i])]
  <2>1. Tail(h) \in Seq(Glyphs)
    BY <1>1, HeadTailProperties DEF h
  <2>2. Len(t) = n /\ t[1] = Tail(h) /\ \A i \in 2..n : t[i] = s[i]
    BY <2>1, HeadReplaced DEF n
  <2> HIDE DEF t
  <2>3. ASSUME NEW i \in 1..n PROVE g[i] = IF i = 1 THEN t[i] ELSE g[i - 1] \o t[i]
    <3>1. CASE i = 1
      BY <1>5, <2>2, <3>1
    <3>2. CASE i # 1
      <4>1. i \in 2..n /\ i - 1 \in 1..n
        BY <1>1, <3>2
      <4>2. g[i] = Tail(f[i]) /\ g[i - 1] = Tail(f[i - 1]) /\ t[i] = s[i]
        BY <2>2, <4>1
      <4> HIDE DEF g
      <4>3. QED
        BY <1>6, <3>2, <4>1, <4>2
    <3>3. QED
      BY <3>1, <3>2
  <2>4. FlatTo(g, t)
    <3>1. g = [i \in 1..Len(t) |-> g[i]]
      BY <2>2
    <3> HIDE DEF g
    <3>2. QED
      BY <2>2, <2>3, <3>1 DEF FlatTo
  <2>5. FlattenSeq(t) = g[n]
    <3> HIDE DEF g
    <3>1. QED
      BY <1>1, <2>2, <2>4, FlatIs
  <2>6. g[n] = Tail(f[n])
    BY <1>1
  <2>7. QED
    BY <2>5, <2>6 DEF t
<1>9. QED
  BY <1>1, <1>3, <1>4, <1>7, <1>8 DEF h

LEMMA CombinationEnter ==
  ASSUME Inv, NEW p \in Posters, WalkTo(p), Matches(p)
  PROVE  Lock!Enter
<1>1. /\ sequences \in Seq(Seq(Glyphs)) /\ sequences # <<>> /\ Head(sequences) # <<>>
      /\ wall[p] = Head(Head(sequences)) /\ speeches = 0
  BY DEF Inv, TypeOK, DisplayTellsNext, Tells, SpeaksOnce, Matches
<1>2. /\ FlattenSeq(sequences) # <<>>
      /\ Head(FlattenSeq(sequences)) = wall[p]
      /\ FlattenSeq(sequences') = Tail(FlattenSeq(sequences))
  <2>1. sequences' = IF Tail(Head(sequences)) = <<>> THEN Tail(sequences)
                     ELSE <<Tail(Head(sequences))>> \o Tail(sequences)
    BY DEF WalkTo, HandleNodeCollision, Enter
  <2>2. QED
    BY <1>1, <2>1, FlatEnters
<1>3. (IF at = Away THEN Away ELSE wall[at])' = wall[p]
  BY Constants DEF WalkTo
<1>4. (speeches > 0)' \in {FALSE, FlattenSeq(sequences') = <<>>}
  <2>1. speeches' = IF sequences' = <<>> THEN 1 ELSE 0
    <3>1. Enter
      BY DEF WalkTo, HandleNodeCollision
    <3>2. speeches' = IF sequences' = <<>> THEN speeches + 1 ELSE speeches
      BY <3>1 DEF Enter
    <3>3. QED
      BY <1>1, <3>2
  <2>2. FlattenSeq(<<>>) = <<>>
    BY DEF FlattenSeq
  <2>3. CASE sequences' = <<>>
    <3>1. (speeches' > 0) = TRUE /\ (FlattenSeq(sequences') = <<>>) = TRUE
      BY <2>1, <2>2, <2>3
    <3>2. QED
      BY <3>1
  <2>4. CASE sequences' # <<>>
    <3>1. (speeches' > 0) = FALSE
      BY <2>1, <2>4
    <3>2. QED
      BY <3>1
  <2>5. QED
    BY <2>3, <2>4
<1>5. QED
  BY <1>2, <1>3, <1>4 DEF Lock!Enter

(* For any posters, sequences and swaps, Mr Wright keeps what a boss with a   *)
(* combination promises: nothing but coming to the glyph asked for enters it, *)
(* and he is beaten with the last one and not before.                         *)
THEOREM CombinationImplemented == Spec => ImplementsCombination
<1>1. Init => Lock!Init
  <2> SUFFICES ASSUME Init PROVE Lock!Init
    OBVIOUS
  <2>1. Inv /\ speeches = 0
    BY InvInit DEF Init
  <2>2. sequences \in Seq(Seq(Glyphs)) /\ (sequences # <<>> => Head(sequences) # <<>>)
    BY <2>1 DEF Inv, TypeOK, DisplayTellsNext, Tells
  <2>3. FlattenSeq(sequences) \in Seq(Glyphs)
    <3>1. CASE sequences = <<>>
      <4>1. FlattenSeq(<<>>) = <<>> /\ <<>> \in Seq(Glyphs)
        BY DEF FlattenSeq
      <4>2. QED
        BY <3>1, <4>1
    <3>2. CASE sequences # <<>>
      BY <2>2, <3>2, FlatEnters
    <3>3. QED
      BY <3>1, <3>2
  <2>4. QED
    BY <2>1, <2>3 DEF Lock!Init
<1>2. Inv /\ [Next]_vars => [Lock!Next]_<<FlattenSeq(sequences), IF at = Away THEN Away ELSE wall[at], speeches > 0>>
  <2> SUFFICES ASSUME Inv, [Next]_vars PROVE Lock!Next
    OBVIOUS
  <2>1. CASE \E p \in Posters : WalkTo(p) /\ Matches(p)
    BY <2>1, CombinationEnter DEF Lock!Next
  <2>2. CASE UNCHANGED <<sequences, speeches>>
    <3>1. Lock!Wander
      BY <2>2 DEF Lock!Wander
    <3>2. QED
      BY <3>1 DEF Lock!Next
  <2>3. QED
    BY <2>1, <2>2 DEF Next, Update, Swap, Physics, WalkTo, HandleNodeCollision, Leave, Stay, puzzle, vars
<1>3. QED
  BY <1>1, <1>2, InvInit, InvStep, PTL DEF Spec, ImplementsCombination, Lock!Spec
=============================================================================
