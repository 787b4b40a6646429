----------------------------- MODULE GlyphPuzzle -----------------------------
(* Mr Wright (src/src/MrWright.cpp).  He asks for sequences of glyphs; the    *)
(* person enters a glyph by coming to the poster that shows it.  Meanwhile    *)
(* the posters swap their glyphs every ten seconds, and a display over his    *)
(* head says how far the current sequence is and what is next.                *)
EXTENDS Shuffling, SequencesExt

CONSTANTS
  Hung,        \* the glyphs on the posters of the room, as its file hangs them
  Lengths,     \* of the sequences
  Interval,    \* ticks between two swaps (10 s)
  TimeSteps,   \* lengths of a frame, in ticks
  Timers,      \* what swapTimer_, which nobody initialises, may start with
  Away         \* the person stands before no poster

Posters == DOMAIN Hung
Glyphs == Range(Hung)

(* Level 3 hangs six different glyphs; the lengths are 2, 4 and 6.            *)
ASSUME PuzzleAssumption ==
  /\ Hung \in Seq(Glyphs)
  /\ Hung # <<>>
  /\ IsInjective(Hung)
  /\ Lengths \in Seq(1..Len(Hung))
  /\ Lengths # <<>>
  /\ \A i \in 1..(Len(Lengths) - 1) : Lengths[i] # Lengths[i + 1]
  /\ Interval \in Nat \ {0}
  /\ TimeSteps \subseteq Nat \ {0}
  /\ Timers \subseteq Int
  /\ Away \notin Posters

VARIABLES
  phase,      \* "update"; "swap", in the loop of Update; "physics"
  wall,       \* the glyph on each poster
  swapTimer,
  m,          \* of the loop: the posters above are done
  sequences,  \* sequences_
  display,    \* displayGlyphs_
  at,         \* the poster the person stands before
  speeches    \* how often Mr Wright's last words were given to the AudioManager

vars == <<phase, wall, swapTimer, m, sequences, display, at, speeches>>
puzzle == <<sequences, display, speeches>>

(* --------------------------- DelayedStart --------------------------------- *)

(* Glyphs drawn from a pool without being put back.                           *)
Draws(n) == {s \in [1..n -> Glyphs] : IsInjective(s)}

(* The new display of a sequence: the first glyph keeps its colour, white.    *)
Fresh(sequence) ==
  [i \in 1..Len(sequence) |-> [glyph |-> sequence[i], color |-> IF i = 1 THEN "white" ELSE "gray"]]

(* The glyphs are made anew only if their number changes.                     *)
UpdateDisplayGlyphs(shown, rest) ==
  IF rest = <<>> THEN <<>>
  ELSE IF Len(shown) # Len(Head(rest)) THEN Fresh(Head(rest)) ELSE shown

Init ==
  /\ phase = "update"
  /\ wall = Hung
  /\ swapTimer \in Timers
  /\ m = 0
  /\ \E s \in [DOMAIN Lengths -> UNION {Draws(n) : n \in Range(Lengths)}] :
       /\ \A i \in DOMAIN Lengths : s[i] \in Draws(Lengths[i])
       /\ sequences = s
  /\ display = UpdateDisplayGlyphs(<<>>, sequences)
  /\ at = Away
  /\ speeches = 0

(* ------------------------------- Update ----------------------------------- *)

Update ==
  /\ phase = "update"
  /\ \E step \in TimeSteps :
       IF swapTimer + step < Interval
       THEN swapTimer' = swapTimer + step /\ phase' = "physics" /\ UNCHANGED m
       ELSE swapTimer' = 0 /\ phase' = "swap" /\ m' = Len(Hung)
  /\ UNCHANGED <<wall, at, puzzle>>

(* A bug: the first glyph is lost.                                            *)
SwapLoses ==
  /\ phase = "swap"
  /\ \E n \in 1..m : wall' = [wall EXCEPT ![m] = wall[n], ![n] = wall[n]]
  /\ m' = m - 1
  /\ phase' = IF m = 1 THEN "physics" ELSE "swap"
  /\ UNCHANGED <<swapTimer, at, puzzle>>

(* One round of the loop: the last poster not done swaps with one of those    *)
(* not done, which may be itself.                                             *)
Swap ==
  /\ phase = "swap"
  /\ \E n \in 1..m : wall' = Swapped(wall, m, n)
  /\ m' = m - 1
  /\ phase' = IF m = 1 THEN "physics" ELSE "swap"
  /\ UNCHANGED <<swapTimer, at, puzzle>>

(* --------------------------- HandleNodeCollision -------------------------- *)

Matches(p) == sequences # <<>> /\ wall[p] = Head(Head(sequences))

Painted(tile, color) == [tile EXCEPT !.color = color]

(* A bug: counted from what is left instead of what is done.                  *)
LitFromEnd(shown, index) ==
  [i \in DOMAIN shown |->
     IF i = Len(shown) - index + 1 THEN Painted(shown[i], "green")
     ELSE IF i = index + 1 THEN Painted(shown[i], "white") ELSE shown[i]]

(* The glyph entered turns green, the next one white.                         *)
Lit(shown, index) ==
  [i \in DOMAIN shown |->
     IF i = index THEN Painted(shown[i], "green")
     ELSE IF i = index + 1 THEN Painted(shown[i], "white") ELSE shown[i]]

(* A bug: the last words are spoken with every sequence that is completed.    *)
EnterSpeaks ==
  LET current == Tail(Head(sequences))
      rest == IF current = <<>> THEN Tail(sequences) ELSE <<current>> \o Tail(sequences)
      lit == Lit(display, Len(display) - Len(Head(sequences)) + 1)
  IN  /\ sequences' = rest
      /\ display' = IF current = <<>> THEN UpdateDisplayGlyphs(lit, rest) ELSE lit
      /\ speeches' = IF current = <<>> THEN speeches + 1 ELSE speeches

Enter ==
  LET current == Tail(Head(sequences))
      rest == IF current = <<>> THEN Tail(sequences) ELSE <<current>> \o Tail(sequences)
      lit == Lit(display, Len(display) - Len(Head(sequences)) + 1)
  IN  /\ sequences' = rest
      /\ display' = IF current = <<>> THEN UpdateDisplayGlyphs(lit, rest) ELSE lit
      /\ speeches' = IF rest = <<>> THEN speeches + 1 ELSE speeches

(* A bug: the poster is not asked what it shows now but what it showed first. *)
HandleNodeCollisionStale(p) ==
  IF sequences # <<>> /\ Hung[p] = Head(Head(sequences)) THEN Enter ELSE UNCHANGED puzzle

HandleNodeCollision(p) == IF Matches(p) THEN Enter ELSE UNCHANGED puzzle

(* The physics step: the person comes to a poster, leaves one or goes from    *)
(* one to another, or nothing changes.  Only coming to one is a contact.      *)
WalkTo(p) ==
  /\ phase = "physics"
  /\ phase' = "update"
  /\ at # p
  /\ at' = p
  /\ HandleNodeCollision(p)
  /\ UNCHANGED <<wall, swapTimer, m>>

Leave ==
  /\ phase = "physics"
  /\ phase' = "update"
  /\ at # Away
  /\ at' = Away
  /\ UNCHANGED <<wall, swapTimer, m, puzzle>>

Stay ==
  /\ phase = "physics"
  /\ phase' = "update"
  /\ UNCHANGED <<wall, swapTimer, m, at, puzzle>>

Physics == (\E p \in Posters : WalkTo(p)) \/ Leave \/ Stay

Next == Update \/ Swap \/ Physics

Spec == Init /\ [][Next]_vars

(* Frames keep running.                                                       *)
FairSpec == Spec /\ WF_vars(Next)

(* -------------------------------- properties ------------------------------ *)

Tiles == [glyph : Glyphs, color : {"green", "white", "gray"}]

TypeOK ==
  /\ phase \in {"update", "swap", "physics"}
  /\ wall \in [Posters -> Glyphs]
  /\ swapTimer \in Int
  /\ phase # "update" => swapTimer < Interval
  /\ m \in 0..Len(Hung)
  /\ phase = "swap" <=> m > 0
  /\ sequences \in Seq(Seq(Glyphs))
  /\ display \in Seq(Tiles)
  /\ at \in Posters \cup {Away}
  /\ speeches \in Nat

(* However often the posters have swapped, and in the middle of it, no glyph  *)
(* is lost or doubled: the one that is asked for can be found.                *)
GlyphsKept == IsInjective(wall)

(* A display for a sequence of which the rest is still to be entered.         *)
Tells(shown, rest) ==
  LET entered == Len(shown) - Len(rest)
  IN  /\ rest # <<>>
      /\ entered >= 0
      /\ \A i \in DOMAIN shown :
           /\ i <= entered => shown[i].color = "green"
           /\ i > entered =>
                shown[i] = [glyph |-> rest[i - entered],
                            color |-> IF i = entered + 1 THEN "white" ELSE "gray"]

(* The display shows the current sequence: what has been entered green, the   *)
(* glyph asked for white, and what follows gray.                              *)
DisplayTellsNext ==
  IF sequences = <<>> THEN display = <<>> ELSE Tells(display, Head(sequences))

(* The last words, and with them the mark that ends the level, are queued     *)
(* once and with the last glyph.                                              *)
SpeaksOnce == speeches = IF sequences = <<>> THEN 1 ELSE 0

(* Both together: what the player sees and hears tells how far the sequences  *)
(* have been entered.                                                         *)
TellsHowFar == DisplayTellsNext /\ SpeaksOnce

(* Only coming to the right glyph gets on, whatever swaps in between.         *)
Lock == INSTANCE Combination WITH
          Symbols <- Glyphs,
          left <- FlattenSeq(sequences),
          shown <- IF at = Away THEN Away ELSE wall[at],
          beaten <- speeches > 0
ImplementsCombination == Lock!Spec

(* The swapping can delay but not keep a player from beating Mr Wright who    *)
(* goes, now and then, to the poster that shows the glyph asked for, and does *)
(* not stand before one for ever.                                             *)
Persistent == SF_vars(\E p \in Posters : WalkTo(p) /\ Matches(p)) /\ SF_vars(Leave)
PersistenceWins == Persistent => <>(sequences = <<>>)
=============================================================================
