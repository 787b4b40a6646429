--------------------------- MODULE TerminalPuzzle ----------------------------
(* The wife (src/src/Wife.cpp), the last boss: the terminals of her room are  *)
(* to be used in an order the player must find out, and using the last one    *)
(* ends the game, unless the player dies of it.                               *)
EXTENDS Shuffling, Functions

CONSTANTS
  Terminals,   \* the terminals of her room, in the order of the room's file
  Away         \* the person uses no terminal

ASSUME TerminalsAssumption ==
  /\ Terminals \in Seq(Range(Terminals))
  /\ Terminals # <<>>
  /\ IsInjective(Terminals)
  /\ Away \notin Range(Terminals)

VARIABLES
  phase,     \* "shuffle", the loop of DelayedStart; "update"; "physics"
  m,         \* of the loop: the places behind are done
  sequence,  \* sequence_
  lit,       \* the terminals that have turned green
  at,        \* the terminal the person is at
  inRoom,    \* the person is in the wife's room
  dead,      \* EndLevel(true, false) has disabled everything
  endings    \* how often the credits were called for, EndLevel(false, true)

vars == <<phase, m, sequence, lit, at, inRoom, dead, endings>>
person == <<at, inRoom, dead>>

Init ==
  /\ phase = "shuffle"
  /\ m = Len(Terminals)
  /\ sequence = Terminals
  /\ lit = {}
  /\ at = Away
  /\ inRoom = FALSE
  /\ dead = FALSE
  /\ endings = 0

(* A bug: two places are overwritten rather than swapped.                     *)
ShuffleCopies ==
  /\ phase = "shuffle"
  /\ \E n \in 1..m : sequence' = [sequence EXCEPT ![m] = sequence[n]]
  /\ m' = m - 1
  /\ phase' = IF m = 1 THEN "update" ELSE "shuffle"
  /\ UNCHANGED <<lit, person, endings>>

(* One round of the loop of DelayedStart.                                     *)
Shuffle ==
  /\ phase = "shuffle"
  /\ \E n \in 1..m : sequence' = Swapped(sequence, m, n)
  /\ m' = m - 1
  /\ phase' = IF m = 1 THEN "update" ELSE "shuffle"
  /\ UNCHANGED <<lit, person, endings>>

(* LoadLevel has cleared the scene for the credits, and her with it.          *)
InScene == endings = 0

(* A bug: also the dead win, nothing having stopped Update.                   *)
UpdateDead ==
  /\ phase = "update"
  /\ InScene
  /\ phase' = "physics"
  /\ endings' = IF inRoom /\ sequence = <<>> THEN endings + 1 ELSE endings
  /\ UNCHANGED <<m, sequence, lit, person>>

(* Wife::Update, which EndLevel disables when the person dies.                *)
Update ==
  /\ phase = "update"
  /\ ~dead
  /\ InScene
  /\ phase' = "physics"
  /\ endings' = IF inRoom /\ sequence = <<>> THEN endings + 1 ELSE endings
  /\ UNCHANGED <<m, sequence, lit, person>>

(* A bug: any terminal not used yet will do.                                  *)
HandleNodeCollisionAnyOrder(terminal) ==
  /\ sequence' = SelectSeq(sequence, LAMBDA t : t # terminal)
  /\ lit' = IF sequence # <<>> THEN lit \cup {terminal} ELSE lit

HandleNodeCollision(terminal) ==
  IF sequence # <<>> /\ terminal = Head(sequence)
  THEN sequence' = Tail(sequence) /\ lit' = lit \cup {terminal}
  ELSE UNCHANGED <<sequence, lit>>

(* A bug: a terminal can be used from outside of the room.                    *)
ComeOutside(terminal) ==
  /\ phase = "physics"
  /\ InScene
  /\ at # terminal
  /\ at' = terminal
  /\ inRoom' \in BOOLEAN
  /\ HandleNodeCollision(terminal)
  /\ dead' \in BOOLEAN
  /\ phase' = "update"
  /\ UNCHANGED <<m, endings>>

(* In the physics step the person comes to a terminal, which is in the room,  *)
(* or is anywhere else, or a laser may kill, before the contact with the      *)
(* terminal is delivered or after.                                            *)
Come(terminal) ==
  /\ phase = "physics"
  /\ InScene
  /\ at # terminal
  /\ at' = terminal
  /\ inRoom' = TRUE
  /\ HandleNodeCollision(terminal)
  /\ dead' \in BOOLEAN
  /\ phase' = "update"
  /\ UNCHANGED <<m, endings>>

Go ==
  /\ phase = "physics"
  /\ InScene
  /\ at' = Away
  /\ inRoom' \in BOOLEAN
  /\ dead' \in BOOLEAN
  /\ phase' = "update"
  /\ UNCHANGED <<m, sequence, lit, endings>>

Stay ==
  /\ phase = "physics"
  /\ InScene
  /\ dead' \in BOOLEAN
  /\ phase' = "update"
  /\ UNCHANGED <<m, sequence, lit, at, inRoom, endings>>

Next == Shuffle \/ Update \/ (\E t \in Range(Terminals) : Come(t)) \/ Go \/ Stay

Spec == Init /\ [][Next]_vars

(* -------------------------------- properties ------------------------------ *)

TypeOK ==
  /\ phase \in {"shuffle", "update", "physics"}
  /\ m \in 0..Len(Terminals)
  /\ phase = "shuffle" <=> m > 0
  /\ sequence \in Seq(Range(Terminals))
  /\ lit \subseteq Range(Terminals)
  /\ at \in Range(Terminals) \cup {Away}
  /\ inRoom \in BOOLEAN
  /\ dead \in BOOLEAN
  /\ endings \in {0, 1}

(* What is green is done and the rest is still to do, each terminal once: the *)
(* shuffle loses none, and the player can find the order out by trying.       *)
LitAreDone ==
  /\ IsInjective(sequence)
  /\ lit = Range(Terminals) \ Range(sequence)

(* The game is over in the very frame after the last terminal: there is no    *)
(* time to leave the room, in which case nothing would happen.                *)
EndsAtOnce == phase = "physics" /\ sequence = <<>> => endings = 1

(* It is not over for one who died with the last terminal, the contact of     *)
(* which is delivered all the same.                                           *)
DeadDoNotEnd == ~(dead /\ endings > 0)

(* Both together: the game ends at once and only for one who lives.           *)
EndsForTheLiving == EndsAtOnce /\ DeadDoNotEnd

(* A terminal gets the player on only in its turn, and all must be used.      *)
Lock == INSTANCE Combination WITH
          Symbols <- Range(Terminals),
          left <- sequence,
          shown <- at,
          beaten <- endings > 0
LockStep == [][phase # "shuffle" => Lock!Next]_vars
=============================================================================
