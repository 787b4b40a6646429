--------------------------- MODULE BossLevel_proofs ---------------------------
(* Proofs about BossLevel: how a boss level is won, for any boss, zones and   *)
(* lethal bodies, and what its audio manager promises.                        *)
EXTENDS BossLevel, SequenceTheorems, TLAPS

Entries == [sound : Clips \cup {Null}, delay : Int]

TypeOK ==
  /\ phase \in {"update", "physics"}
  /\ playing \in BOOLEAN
  /\ queue \in Seq(Entries)
  /\ gameState \in {"PLAYING", "DEAD", "STAIRS", "CREDITS"}
  /\ level \in 0..(NumLevels - 1)
  /\ frozen \in BOOLEAN
  /\ hits \in 0..Hits
  /\ zones \subseteq Zones

(* A level that has been won lies still: no contact is left to be delivered.  *)
WonIsFrozen == gameState = "STAIRS" => frozen /\ contacts = {}

Inv == TypeOK /\ WonMeansBeaten /\ WonIsFrozen

(* --------------------------- the audio manager's part --------------------- *)

(* What a zone passes to Play are entries with a sound.                       *)
LEMMA ZoneEntries ==
  ASSUME NEW z \in Zones
  PROVE  /\ ZoneList(z) \in Seq(Entries)
         /\ \A i \in DOMAIN ZoneList(z) : ZoneList(z)[i].sound # Null
         /\ Audio!EnqueueAudioClips(ZoneWords[z]) = ZoneList(z)
<1> DEFINE words == ZoneWords[z]
           heard == [sound : Clips, delay : Nat]
<1>1. words \in Seq(heard)
  BY BossAssumption
<1>2. \A e \in heard : e \in Entries /\ e.sound # Null
  BY BossAssumption DEF Entries
<1>3. ZoneList(z) = [i \in 1..Len(words) |-> words[(Len(words) - i) + 1]]
  BY DEF ZoneList, Reverse
<1>4. Audio!EnqueueAudioClips(words) = ZoneList(z)
  BY DEF Audio!EnqueueAudioClips, Audio!Reverse, ZoneList, Reverse
<1> HIDE DEF words, heard
<1>5. Len(words) \in Nat /\ \A i \in 1..Len(words) : words[i] \in heard
  BY <1>1, LenProperties, ElementOfSeq
<1>6. \A i \in 1..Len(words) : (Len(words) - i) + 1 \in 1..Len(words)
  BY <1>5
<1>7. \A i \in 1..Len(words) : ZoneList(z)[i] \in Entries /\ ZoneList(z)[i].sound # Null
  BY <1>2, <1>3, <1>5, <1>6
<1>8. ZoneList(z) \in [1..Len(words) -> Entries]
  BY <1>3, <1>7
<1>9. ZoneList(z) \in Seq(Entries)
  BY <1>5, <1>8, SeqDef
<1>10. QED
  BY <1>3, <1>4, <1>7, <1>9 DEF words

(* A frame of the manager adds no mark to the queue, and neither does it      *)
(* change what is waiting but for its delay.                                  *)
LEMMA SceneUpdateQueue ==
  ASSUME TypeOK, Audio!HandleSceneUpdate
  PROVE  /\ queue' \in Seq(Entries)
         /\ playing' \in BOOLEAN
         /\ EndingWaits' => EndingWaits
<1>1. CASE Audio!Idle
  BY <1>1 DEF Audio!Idle, Audio!audioVars, TypeOK, EndingWaits
<1>2. CASE Audio!Pop
  <2>1. queue # <<>> /\ queue' = SubSeq(queue, 1, Len(queue) - 1)
    BY <1>2 DEF Audio!Pop, Audio!Front
  <2>2. /\ queue \in Seq(Entries) /\ Len(queue) \in Nat \ {0}
        /\ DOMAIN queue = 1..Len(queue)
    BY <2>1, EmptySeq DEF TypeOK
  <2>3. /\ queue' \in Seq(Entries) /\ Len(queue') = Len(queue) - 1
        /\ \A i \in 1..(Len(queue) - 1) : queue'[i] = queue[i]
    BY <2>1, <2>2
  <2>4. DOMAIN queue' = 1..(Len(queue) - 1)
    BY <2>3
  <2>5. DOMAIN queue' \subseteq DOMAIN queue
    BY <2>2, <2>4
  <2>6. EndingWaits' => EndingWaits
    BY <2>3, <2>4, <2>5 DEF EndingWaits
  <2>7. QED
    BY <1>2, <2>3, <2>6 DEF Audio!Pop
<1>3. ASSUME NEW step \in TimeSteps, Audio!Delay(step)
      PROVE  queue' \in Seq(Entries) /\ playing' \in BOOLEAN /\ (EndingWaits' => EndingWaits)
  <2>1. /\ queue # <<>> /\ playing' = playing
        /\ queue' = [queue EXCEPT ![Len(queue)].delay = queue[Len(queue)].delay - step]
    BY <1>3 DEF Audio!Delay
  <2>2. /\ queue \in Seq(Entries) /\ Len(queue) \in Nat \ {0}
        /\ DOMAIN queue = 1..Len(queue) /\ queue \in [1..Len(queue) -> Entries]
    BY <2>1, EmptySeq DEF TypeOK
  <2>3. Len(queue) \in 1..Len(queue) /\ step \in Int
    BY <2>2, BossAssumption
  <2> DEFINE last == queue[Len(queue)]
             late == [last EXCEPT !.delay = queue[Len(queue)].delay - step]
  <2>4. last \in Entries
    BY <2>2, <2>3
  <2>5. late \in Entries /\ late.sound = last.sound
    <3>1. \A e \in Entries : \A d \in Int : /\ [e EXCEPT !.delay = d] \in Entries
                                           /\ [e EXCEPT !.delay = d].sound = e.sound
      BY DEF Entries
    <3>2. last.delay - step \in Int
      BY <2>3, <2>4 DEF Entries
    <3>3. QED
      BY <2>4, <3>1, <3>2
  <2>6. queue' = [queue EXCEPT ![Len(queue)] = late]
    BY <2>1
  <2> HIDE DEF last, late
  <2>7. queue' \in [1..Len(queue) -> Entries]
    BY <2>2, <2>5, <2>6
  <2>8. queue' \in Seq(Entries) /\ DOMAIN queue' = DOMAIN queue
    BY <2>2, <2>7, SeqDef
  <2>9. \A i \in DOMAIN queue : queue'[i].sound = queue[i].sound
    BY <2>2, <2>3, <2>5, <2>6 DEF last
  <2>10. QED
    BY <2>1, <2>8, <2>9 DEF EndingWaits, TypeOK
<1>4. QED
  BY <1>1, <1>2, <1>3 DEF Audio!HandleSceneUpdate

(* The manager ends the level only with a mark that waits.                    *)
LEMMA DueWaits == ASSUME TypeOK, Audio!EndingDue PROVE EndingWaits
<1>1. queue # <<>> /\ queue[Len(queue)].sound = Null
  BY DEF Audio!EndingDue, Audio!Last
<1>2. Len(queue) \in DOMAIN queue
  BY <1>1, EmptySeq DEF TypeOK
<1>3. QED
  BY <1>1, <1>2 DEF EndingWaits

(* What a beaten boss says.                                                   *)
LEMMA BossEntries == BossWords \in Seq(Entries)
<1>1. [sound : Clips \cup {Null}, delay : Nat] \subseteq Entries
  BY DEF Entries
<1>2. BossWords \in Seq([sound : Clips \cup {Null}, delay : Nat])
  BY BossAssumption
<1>3. QED
  BY <1>1, <1>2, SeqMonotonic

(* Play takes the place of all that waits: the code never asks to keep it.    *)
LEMMA PlayReplaces ==
  ASSUME NEW s \in Seq(Entries), Audio!Play(s, FALSE)
  PROVE  queue' = s /\ playing' = playing
BY ConcatEmptySeq DEF Audio!Play

(* ------------------------------- winning a level -------------------------- *)

LEMMA InvInit == Init => Inv
<1> SUFFICES ASSUME Init PROVE Inv
  OBVIOUS
<1>1. queue = <<>> /\ playing = FALSE /\ gameState = "PLAYING" /\ hits = Hits
  BY DEF Init, Audio!Init
<1>2. 0 \in 0..(NumLevels - 1) /\ Hits \in 0..Hits
  BY BossAssumption
<1>3. TypeOK
  <2>1. queue \in Seq(Entries)
    BY <1>1, EmptySeq
  <2>2. phase = "update" /\ level = 0 /\ frozen = FALSE /\ zones = Zones
    BY DEF Init
  <2>3. QED
    BY <1>1, <1>2, <2>1, <2>2 DEF TypeOK
<1>4. ~EndingWaits
  BY <1>1 DEF EndingWaits
<1>5. QED
  BY <1>1, <1>3, <1>4 DEF Inv, WonMeansBeaten, WonIsFrozen

(* The manager ends a level only if its boss is beaten, and nothing touches   *)
(* the person in the frame in which it does.                                  *)
LEMMA SceneUpdateKeeps == Inv /\ SceneUpdate => Inv'
<1> SUFFICES ASSUME Inv, SceneUpdate PROVE Inv'
  OBVIOUS
<1> USE DEF Inv
<1>1. /\ phase' = "physics" /\ hits' = hits /\ zones' = zones
      /\ contacts' \in IF gameState = "CREDITS" \/ frozen' THEN {{}} ELSE SUBSET Bodies
      /\ Audio!HandleSceneUpdate
      /\ IF Audio!EndingDue THEN EndLevel(FALSE) ELSE UNCHANGED levelVars
  BY DEF SceneUpdate
<1>2. /\ queue' \in Seq(Entries) /\ playing' \in BOOLEAN
      /\ EndingWaits' => EndingWaits
  BY <1>1, SceneUpdateQueue
<1>3. CASE Audio!EndingDue
  <2>1. gameState' = "STAIRS" /\ frozen' = TRUE /\ level' = level
    BY <1>1, <1>3 DEF EndLevel
  <2>2. hits = 0
    BY <1>3, DueWaits DEF WonMeansBeaten
  <2>3. contacts' = {}
    BY <1>1, <2>1
  <2>4. QED
    BY <1>1, <1>2, <2>1, <2>2, <2>3 DEF TypeOK, WonMeansBeaten, WonIsFrozen
<1>4. CASE ~Audio!EndingDue
  <2>1. gameState' = gameState /\ frozen' = frozen /\ level' = level
    BY <1>1, <1>4 DEF levelVars
  <2>2. gameState' = "STAIRS" => contacts' = {}
    BY <1>1, <2>1 DEF WonIsFrozen
  <2>3. QED
    BY <1>1, <1>2, <2>1, <2>2 DEF TypeOK, WonMeansBeaten, WonIsFrozen
<1>5. QED
  BY <1>3, <1>4

(* A contact is delivered only in a level that has not been won.              *)
LEMMA ContactMeansOpen ==
  ASSUME Inv, NEW body, Delivers(body)
  PROVE  gameState # "STAIRS" /\ phase' = phase
BY DEF Inv, WonIsFrozen, Delivers

(* Only the last hit queues the mark.                                         *)
LEMMA BossHitKeeps == Inv /\ BossHit => Inv'
<1> SUFFICES ASSUME Inv, BossHit PROVE Inv'
  OBVIOUS
<1>1. /\ Delivers("boss") /\ zones' = zones
      /\ gameState' = gameState /\ frozen' = frozen /\ level' = level
  BY DEF BossHit, levelVars
<1>2. gameState # "STAIRS" /\ phase' = phase /\ TypeOK /\ WonMeansBeaten
  BY <1>1, ContactMeansOpen DEF Inv
<1> DEFINE speaks == Audio!Play(BossWords, FALSE)
<1>3. IF hits > 0
      THEN /\ hits' = hits - 1
           /\ IF hits = 1 THEN speaks ELSE UNCHANGED <<playing, queue>>
      ELSE UNCHANGED <<hits, playing, queue>>
  BY DEF BossHit
<1> HIDE DEF speaks
<1>4. ~(0 > 0) /\ 1 > 0 /\ 1 - 1 = 0
  OBVIOUS
<1>5. CASE hits = 0
  <2>1. UNCHANGED <<hits, playing, queue>>
    BY <1>5, <1>3, <1>4
  <2>2. QED
    BY <1>1, <1>2, <1>5, <2>1 DEF Inv, TypeOK, WonMeansBeaten, WonIsFrozen
<1>6. CASE hits = 1
  <2>1. hits' = 0 /\ speaks
    BY <1>6, <1>3, <1>4
  <2>2. queue' \in Seq(Entries) /\ playing' = playing
    BY <2>1, BossEntries, PlayReplaces DEF speaks
  <2>3. 0 \in 0..Hits
    BY BossAssumption
  <2>4. QED
    BY <1>1, <1>2, <2>1, <2>2, <2>3 DEF Inv, TypeOK, WonMeansBeaten, WonIsFrozen
<1>7. CASE hits > 1
  <2>1. hits' = hits - 1 /\ UNCHANGED <<playing, queue>>
    <3>1. hits > 0 /\ hits # 1
      BY <1>2, <1>7, BossAssumption DEF TypeOK
    <3>2. QED
      BY <3>1, <1>3
  <2>2. ~EndingWaits
    BY <1>2, <1>7 DEF WonMeansBeaten
  <2>3. ~EndingWaits'
    BY <2>1, <2>2 DEF EndingWaits
  <2>4. hits' \in 0..Hits
    BY <1>2, <1>7, <2>1, BossAssumption DEF TypeOK
  <2>5. QED
    BY <1>1, <1>2, <2>1, <2>3, <2>4 DEF Inv, TypeOK, WonMeansBeaten, WonIsFrozen
<1>8. hits \in Nat
  BY <1>2, BossAssumption DEF TypeOK
<1>9. QED
  BY <1>5, <1>6, <1>7, <1>8

(* A zone has no mark among its words.                                        *)
LEMMA ZoneKeeps == ASSUME NEW z \in Zones, Inv, ZoneEntered(z) PROVE Inv'
<1>1. /\ Delivers(z) /\ zones' = zones \ {z} /\ hits' = hits
      /\ gameState' = gameState /\ frozen' = frozen /\ level' = level
      /\ Audio!Play(ZoneList(z), FALSE)
  BY ZoneEntries DEF ZoneEntered, levelVars
<1>2. gameState # "STAIRS" /\ phase' = phase /\ TypeOK
  BY <1>1, ContactMeansOpen DEF Inv
<1>3. queue' = ZoneList(z) /\ playing' = playing
  BY <1>1, ZoneEntries, PlayReplaces
<1>4. queue' \in Seq(Entries) /\ ~EndingWaits'
  BY <1>3, ZoneEntries DEF EndingWaits
<1>5. QED
  BY <1>1, <1>2, <1>3, <1>4 DEF Inv, TypeOK, WonMeansBeaten, WonIsFrozen

LEMMA KilledKeeps == ASSUME NEW k \in Killers, Inv, Killed(k) PROVE Inv'
<1>1. /\ Delivers(k) /\ UNCHANGED <<playing, queue, hits, zones, level>>
      /\ gameState' = "DEAD" /\ frozen' = TRUE
  BY DEF Killed, EndLevel
<1>2. EndingWaits' = EndingWaits
  BY <1>1 DEF EndingWaits
<1>3. phase' = phase
  BY <1>1 DEF Delivers
<1>4. QED
  BY <1>1, <1>2, <1>3 DEF Inv, TypeOK, WonMeansBeaten, WonIsFrozen

(* A new level has an empty queue.                                            *)
LEMMA HandleUpdateKeeps == Inv /\ HandleUpdate => Inv'
<1> SUFFICES ASSUME Inv, HandleUpdate PROVE Inv'
  OBVIOUS
<1>1. phase' = "update" /\ contacts = {} /\ contacts' = {}
  BY DEF HandleUpdate
<1>2. CASE UNCHANGED <<playing, queue, levelVars, hits, zones>>
  <2>1. EndingWaits' = EndingWaits
    BY <1>2 DEF EndingWaits
  <2>2. QED
    BY <1>1, <1>2, <2>1 DEF Inv, TypeOK, WonMeansBeaten, WonIsFrozen, levelVars
<1>3. CASE LoadLevel
  <2>1. /\ frozen' = FALSE /\ zones' = Zones /\ hits' = Hits
        /\ playing' = FALSE /\ queue' = <<>>
    BY <1>3 DEF LoadLevel, NewNodes, Audio!Recreate
  <2>2. gameState' \in {"PLAYING", "CREDITS"} /\ level' \in 0..(NumLevels - 1)
    <3>1. NextLevel \in Nat
      BY BossAssumption DEF NextLevel, Inv, TypeOK
    <3>2. QED
      BY <1>3, <3>1, BossAssumption DEF LoadLevel
  <2>3. ~EndingWaits' /\ Hits \in 0..Hits /\ queue' \in Seq(Entries)
    BY <2>1, BossAssumption DEF EndingWaits
  <2>4. QED
    BY <1>1, <2>1, <2>2, <2>3 DEF Inv, TypeOK, WonMeansBeaten, WonIsFrozen
<1>4. QED
  BY <1>2, <1>3 DEF HandleUpdate

LEMMA InvNext == Inv /\ [Next]_vars => Inv'
<1> SUFFICES ASSUME Inv, [Next]_vars PROVE Inv'
  OBVIOUS
<1>1. CASE SoundFinished
  <2>1. playing' = FALSE /\ UNCHANGED <<phase, queue, gameState, level, frozen, hits, zones, contacts>>
    BY <1>1 DEF SoundFinished, Audio!SoundFinished, levelVars
  <2>2. EndingWaits' = EndingWaits
    BY <2>1 DEF EndingWaits
  <2>3. QED
    BY <2>1, <2>2 DEF Inv, TypeOK, WonMeansBeaten, WonIsFrozen
<1>2. CASE UNCHANGED vars
  <2>1. EndingWaits' = EndingWaits
    BY <1>2 DEF vars, EndingWaits
  <2>2. QED
    BY <1>2, <2>1 DEF vars, Inv, TypeOK, WonMeansBeaten, WonIsFrozen
<1>3. QED
  BY <1>1, <1>2, SceneUpdateKeeps, BossHitKeeps, ZoneKeeps, KilledKeeps, HandleUpdateKeeps
  DEF Next, Frame

(* A boss level is won only by beating its boss, in whatever order the last   *)
(* words, zones, deaths and restarts follow each other.                       *)
THEOREM WonCorrect == Spec => []WonMeansBeaten
<1>1. Inv => WonMeansBeaten
  BY DEF Inv
<1>2. QED
  BY <1>1, InvInit, InvNext, PTL DEF Spec

(* A level that has been won is not lost: no lethal contact is delivered in   *)
(* it, whatever the physics step had found.                                   *)
LEMMA WonForGood == Spec => WonStaysWon
<1>1. Inv /\ [Next]_vars => [gameState = "STAIRS" => gameState' # "DEAD"]_vars
  <2> SUFFICES ASSUME Inv, Next, gameState = "STAIRS" PROVE gameState' # "DEAD"
    OBVIOUS
  <2>1. CASE SceneUpdate
    BY <2>1 DEF SceneUpdate, EndLevel, levelVars
  <2>2. CASE HandleUpdate
    BY <2>2 DEF HandleUpdate, LoadLevel, levelVars
  <2>3. CASE SoundFinished
    BY <2>3 DEF SoundFinished, levelVars
  <2>4. ~BossHit /\ (\A z \in Zones : ~ZoneEntered(z)) /\ (\A k \in Killers : ~Killed(k))
    BY ContactMeansOpen DEF BossHit, ZoneEntered, Killed
  <2>5. QED
    BY <2>1, <2>2, <2>3, <2>4 DEF Next, Frame
<1>2. QED
  BY <1>1, InvInit, InvNext, PTL DEF Spec, WonStaysWon

(* What the physics step has found still exists when it is delivered.         *)
ContactsExist == contacts \subseteq Bodies

LEMMA ContactsKept == ContactsExist /\ [Next]_vars => ContactsExist'
<1> SUFFICES ASSUME ContactsExist, [Next]_vars PROVE ContactsExist'
  OBVIOUS
<1> USE DEF ContactsExist, Bodies
<1>1. CASE SceneUpdate
  BY <1>1 DEF SceneUpdate
<1>2. CASE BossHit
  BY <1>2 DEF BossHit, Delivers
<1>3. ASSUME NEW z \in Zones, ZoneEntered(z) PROVE ContactsExist'
  BY <1>3 DEF ZoneEntered, Delivers
<1>4. ASSUME NEW k \in Killers, Killed(k) PROVE ContactsExist'
  BY <1>4 DEF Killed, Delivers
<1>5. CASE HandleUpdate
  BY <1>5 DEF HandleUpdate
<1>6. CASE SoundFinished
  BY <1>6 DEF SoundFinished
<1>7. CASE UNCHANGED vars
  BY <1>7 DEF vars
<1>8. QED
  BY <1>1, <1>2, <1>3, <1>4, <1>5, <1>6, <1>7 DEF Next, Frame

(* What the scene update does to a mark: it is passed over by what is heard   *)
(* before it, and by delays, and goes only when it is due.                    *)
LEMMA MarkPlayed ==
  ASSUME TypeOK, Audio!HandleSceneUpdate, EndingWaits
  PROVE  EndingWaits' \/ Audio!EndingDue
<1>1. /\ queue # <<>> /\ queue \in Seq(Entries) /\ Len(queue) \in Nat \ {0}
      /\ DOMAIN queue = 1..Len(queue)
  <2>1. queue # <<>>
    BY DEF EndingWaits
  <2>2. QED
    BY <2>1, EmptySeq DEF TypeOK
<1>2. PICK i \in 1..Len(queue) : queue[i].sound = Null
  BY <1>1 DEF EndingWaits
<1>3. CASE Audio!Idle
  BY <1>3 DEF Audio!Idle, Audio!audioVars, EndingWaits
<1>4. CASE Audio!Pop
  <2>1. queue' = SubSeq(queue, 1, Len(queue) - 1)
    BY <1>4 DEF Audio!Pop, Audio!Front
  <2>2. CASE i = Len(queue)
    BY <1>2, <1>4, <2>2 DEF Audio!Pop, Audio!EndingDue, Audio!Last
  <2>3. CASE i # Len(queue)
    <3>1. i \in 1..(Len(queue) - 1)
      <4> DEFINE n == Len(queue)
      <4>1. n \in Nat /\ i \in 1..n /\ i # n
        BY <1>1, <2>3
      <4> HIDE DEF n
      <4>2. i \in 1..(n - 1)
        BY <4>1
      <4>3. QED
        BY <4>2, ZenonT(60) DEF n
    <3>2. DOMAIN queue' = 1..(Len(queue) - 1) /\ queue'[i] = queue[i]
      BY <1>1, <2>1, <3>1
    <3>3. QED
      BY <1>2, <3>1, <3>2 DEF EndingWaits
  <2>4. QED
    BY <2>2, <2>3
<1>5. ASSUME NEW step \in TimeSteps, Audio!Delay(step) PROVE EndingWaits'
  <2> DEFINE last == queue[Len(queue)]
             late == [last EXCEPT !.delay = last.delay - step]
  <2>1. queue' = [queue EXCEPT ![Len(queue)] = late]
    BY <1>5 DEF Audio!Delay
  <2>2. last \in Entries
    BY <1>1
  <2>3. late.sound = last.sound
    BY <2>2 DEF Entries
  <2> HIDE DEF last, late
  <2>4. DOMAIN queue' = 1..Len(queue) /\ queue'[i] = IF i = Len(queue) THEN late ELSE queue[i]
    BY <1>1, <2>1
  <2>5. queue'[i].sound = queue[i].sound
    BY <2>3, <2>4 DEF last
  <2>6. QED
    BY <1>2, <2>4, <2>5 DEF EndingWaits
<1>6. QED
  BY <1>3, <1>4, <1>5 DEF Audio!HandleSceneUpdate

(* A beaten boss's mark is only lost to another zone: for the hits to come    *)
(* there are no words left, and the manager ends the level with the mark.     *)
LEMMA MarkForGood == Spec => MarkStands
<1>1. Inv /\ ContactsExist /\ [Next]_vars
        => [EndingWaits /\ gameState = "PLAYING"
              => EndingWaits' \/ gameState' # "PLAYING" \/ zones' # zones]_vars
  <2> SUFFICES ASSUME Inv, ContactsExist, Next, EndingWaits, gameState = "PLAYING",
                      zones' = zones
               PROVE  EndingWaits' \/ gameState' # "PLAYING"
    OBVIOUS
  <2>1. UNCHANGED queue => EndingWaits'
    BY DEF EndingWaits
  <2>2. CASE SceneUpdate
    <3>1. EndingWaits' \/ Audio!EndingDue
      BY <2>2, MarkPlayed DEF SceneUpdate, Inv
    <3>2. QED
      BY <2>2, <3>1 DEF SceneUpdate, EndLevel
  <2>3. CASE BossHit
    <3>1. hits = 0
      BY DEF Inv, WonMeansBeaten
    <3>2. QED
      BY <2>1, <2>3, <3>1 DEF BossHit
  <2>4. ASSUME NEW z \in Zones, ZoneEntered(z) PROVE FALSE
    <3>1. z \in zones
      BY <2>4, BossAssumption DEF ZoneEntered, Delivers, ContactsExist, Bodies
    <3>2. QED
      BY <2>4, <3>1 DEF ZoneEntered
  <2>5. ASSUME NEW k \in Killers, Killed(k) PROVE gameState' # "PLAYING"
    BY <2>5 DEF Killed, EndLevel
  <2>6. CASE HandleUpdate
    BY <2>1, <2>6 DEF HandleUpdate
  <2>7. CASE SoundFinished
    BY <2>1, <2>7 DEF SoundFinished, Audio!SoundFinished
  <2>8. QED
    BY <2>2, <2>3, <2>4, <2>5, <2>6, <2>7 DEF Next, Frame
<1>2. Init => ContactsExist
  BY DEF Init, ContactsExist
<1>3. QED
  BY <1>1, <1>2, InvInit, InvNext, ContactsKept, PTL DEF Spec, MarkStands

(* A victory is lost neither between the last hit and its ending, but to      *)
(* another zone or a death, nor after it.                                     *)
THEOREM VictoryStands == Spec => VictoryHolds
BY WonForGood, MarkForGood, PTL DEF VictoryHolds

(* ------------------------------- what is heard ---------------------------- *)

(* The sounds of a queue in the order in which they are heard.                *)
Heard(q) == Audio!Reverse(Audio!SoundsOf(q))

LEMMA HeardIs ==
  ASSUME NEW q \in Seq(Entries)
  PROVE  /\ Heard(q) = [i \in 1..Len(q) |-> q[(Len(q) - i) + 1].sound]
         /\ Heard(q) \in Seq(Clips \cup {Null})
         /\ Len(Heard(q)) = Len(q)
<1>1. Len(q) \in Nat /\ DOMAIN q = 1..Len(q) /\ \A i \in 1..Len(q) : q[i].sound \in Clips \cup {Null}
  <2>1. Len(q) \in Nat /\ DOMAIN q = 1..Len(q) /\ \A i \in 1..Len(q) : q[i] \in Entries
    BY LenProperties, ElementOfSeq
  <2>2. \A e \in Entries : e.sound \in Clips \cup {Null}
    BY DEF Entries
  <2>3. QED
    BY <2>1, <2>2
<1> DEFINE sounds == [i \in 1..Len(q) |-> q[i].sound]
<1>2. Audio!SoundsOf(q) = sounds
  BY <1>1 DEF Audio!SoundsOf
<1>3. sounds \in Seq(Clips \cup {Null}) /\ Len(sounds) = Len(q)
  <2>1. sounds \in [1..Len(q) -> Clips \cup {Null}]
    BY <1>1
  <2>2. sounds \in Seq(Clips \cup {Null}) /\ DOMAIN sounds = 1..Len(q)
    BY <1>1, <2>1, SeqDef
  <2>3. QED
    BY <1>1, <2>2, LenProperties
<1>4. \A i \in 1..Len(q) : (Len(q) - i) + 1 \in 1..Len(q)
  BY <1>1
<1>5. Heard(q) = [i \in 1..Len(q) |-> sounds[(Len(q) - i) + 1]]
  BY <1>2, <1>3 DEF Heard, Audio!Reverse
<1>6. Heard(q) = [i \in 1..Len(q) |-> q[(Len(q) - i) + 1].sound]
  BY <1>4, <1>5
<1> HIDE DEF sounds
<1>7. Heard(q) \in [1..Len(q) -> Clips \cup {Null}]
  BY <1>1, <1>4, <1>6
<1>8. Heard(q) \in Seq(Clips \cup {Null}) /\ DOMAIN Heard(q) = 1..Len(q)
  BY <1>1, <1>7, SeqDef
<1>9. QED
  BY <1>1, <1>6, <1>8, LenProperties

(* Popping the back of the vector is hearing the next sound.                  *)
LEMMA PopHears ==
  ASSUME NEW q \in Seq(Entries), q # <<>>
  PROVE  /\ Heard(q) # <<>>
         /\ Head(Heard(q)) = q[Len(q)].sound
         /\ Heard(SubSeq(q, 1, Len(q) - 1)) = Tail(Heard(q))
<1> DEFINE n == Len(q)
           rest == SubSeq(q, 1, n - 1)
<1>1. n \in Nat \ {0}
  BY EmptySeq
<1>2. \A i \in 1..(n - 1) : i \in 1..n /\ q[i] \in Entries
  BY <1>1, ElementOfSeq
<1>3. rest \in Seq(Entries) /\ Len(rest) = n - 1 /\ \A i \in 1..(n - 1) : rest[i] = q[i]
  <2>1. /\ rest \in Seq(Entries)
        /\ Len(rest) = IF 1 <= n - 1 THEN (n - 1) - 1 + 1 ELSE 0
        /\ \A i \in 1..((n - 1) - 1 + 1) : rest[i] = q[1 + i - 1]
    <3>1. 1 \in Int /\ n - 1 \in Int
      BY <1>1
    <3> HIDE DEF n
    <3>2. QED
      BY <1>2, <3>1, SubSeqProperties
  <2> HIDE DEF n, rest
  <2>2. QED
    BY <1>1, <2>1
<1> HIDE DEF n, rest
<1>4. /\ Heard(q) = [i \in 1..n |-> q[(n - i) + 1].sound]
      /\ Heard(q) \in Seq(Clips \cup {Null}) /\ Len(Heard(q)) = n
  BY HeardIs DEF n
<1>5. /\ Heard(rest) = [i \in 1..(n - 1) |-> rest[((n - 1) - i) + 1].sound]
      /\ Heard(rest) \in Seq(Clips \cup {Null}) /\ Len(Heard(rest)) = n - 1
  BY <1>3, HeardIs
<1>6. Heard(q) # <<>> /\ Head(Heard(q)) = q[n].sound
  <2>1. Heard(q) # <<>>
    BY <1>1, <1>4, EmptySeq
  <2>2. 1 \in 1..n /\ (n - 1) + 1 = n
    BY <1>1
  <2>3. Heard(q)[1] = q[n].sound
    BY <1>4, <2>2
  <2>4. QED
    BY <1>4, <2>1, <2>3
<1>7. /\ Tail(Heard(q)) \in Seq(Clips \cup {Null}) /\ Len(Tail(Heard(q))) = n - 1
      /\ \A i \in 1..(n - 1) : Tail(Heard(q))[i] = Heard(q)[i + 1]
  BY <1>4, <1>6, HeadTailProperties, ZenonT(60)
<1>8. \A i \in 1..(n - 1) : Heard(rest)[i] = Tail(Heard(q))[i]
  <2>1. TAKE i \in 1..(n - 1)
  <2>2. /\ i + 1 \in 1..n /\ (n - (i + 1)) + 1 = n - i
        /\ ((n - 1) - i) + 1 = n - i /\ n - i \in 1..(n - 1)
    BY <1>1
  <2>3. Tail(Heard(q))[i] = q[n - i].sound
    BY <1>4, <1>7, <2>2, ZenonT(60)
  <2>4. Heard(rest)[i] = q[n - i].sound
    BY <1>3, <1>5, <2>2
  <2>5. QED
    BY <2>3, <2>4
<1>9. Heard(rest) = Tail(Heard(q))
  BY <1>5, <1>7, <1>8, SeqEqual
<1>10. QED
  BY <1>6, <1>9 DEF n, rest

(* What a list passed to Play becomes is one of the batches of Speech.        *)
LEMMA PlayIsHeard ==
  ASSUME NEW list \in Seq(Entries), list \in {BossWords} \cup {ZoneList(z) : z \in Zones},
         Audio!Play(list, FALSE)
  PROVE  Audio!Spoken!Next
<1>1. queue' = list /\ playing' = playing
  BY PlayReplaces
<1>2. Heard(queue)' = Heard(list)
  BY <1>1 DEF Heard, Audio!SoundsOf, Audio!Reverse
<1>3. Audio!Spoken!Accept(Heard(list))
  BY <1>1, <1>2 DEF Audio!Spoken!Accept, Heard
<1>4. QED
  BY <1>3 DEF Audio!Spoken!Next, Heard

(* The manager's own step begins the next sound or is not heard.              *)
LEMMA FrameIsHeard ==
  ASSUME TypeOK, Audio!HandleSceneUpdate
  PROVE  Audio!Spoken!Next \/ (Heard(queue)' = Heard(queue) /\ playing' = playing)
<1>1. CASE Audio!Idle
  BY <1>1 DEF Audio!Idle, Audio!audioVars, Heard, Audio!SoundsOf, Audio!Reverse
<1>2. CASE Audio!Pop
  <2>1. /\ ~playing /\ queue # <<>>
        /\ queue' = SubSeq(queue, 1, Len(queue) - 1)
        /\ playing' = (queue[Len(queue)].sound # Null)
    BY <1>2 DEF Audio!Pop, Audio!Front, Audio!Last
  <2>2. /\ Heard(queue) # <<>> /\ Head(Heard(queue)) = queue[Len(queue)].sound
        /\ Heard(SubSeq(queue, 1, Len(queue) - 1)) = Tail(Heard(queue))
    BY <2>1, PopHears DEF TypeOK
  <2>3. Heard(queue)' = Tail(Heard(queue))
    <3>1. Heard(queue)' = Heard(queue')
      BY DEF Heard, Audio!SoundsOf, Audio!Reverse
    <3>2. QED
      BY <2>1, <2>2, <3>1
  <2>4. Audio!Spoken!Begin
    BY <2>1, <2>2, <2>3 DEF Audio!Spoken!Begin, Heard
  <2>5. QED
    BY <2>4 DEF Audio!Spoken!Next
<1>3. ASSUME NEW step \in TimeSteps, Audio!Delay(step)
      PROVE  Heard(queue)' = Heard(queue) /\ playing' = playing
  <2>1. playing' = playing /\ queue' \in Seq(Entries) /\ queue \in Seq(Entries)
    BY <1>3, SceneUpdateQueue, SMTT(60) DEF Audio!Delay, TypeOK
  <2>2. /\ Len(queue') = Len(queue)
        /\ \A i \in 1..Len(queue) : queue'[i].sound = queue[i].sound
    <3>1. Len(queue) \in 1..Len(queue) /\ DOMAIN queue = 1..Len(queue)
      BY <1>3, <2>1, EmptySeq, LenProperties DEF Audio!Delay
    <3> DEFINE last == queue[Len(queue)]
               late == [last EXCEPT !.delay = queue[Len(queue)].delay - step]
    <3>2. last \in Entries
      BY <2>1, <3>1, ElementOfSeq
    <3>3. late.sound = last.sound
      BY <3>2 DEF Entries
    <3>4. queue' = [queue EXCEPT ![Len(queue)] = late]
      BY <1>3 DEF Audio!Delay
    <3> HIDE DEF last, late
    <3>5. DOMAIN queue' = 1..Len(queue)
      BY <3>1, <3>4
    <3>6. Len(queue') = Len(queue)
      BY <2>1, <3>5, LenProperties
    <3>7. QED
      BY <3>1, <3>3, <3>4, <3>6 DEF last
  <2>3. Heard(queue') = Heard(queue)
    <3>1. /\ Heard(queue) \in Seq(Clips \cup {Null}) /\ Len(Heard(queue)) = Len(queue)
          /\ Heard(queue') \in Seq(Clips \cup {Null}) /\ Len(Heard(queue')) = Len(queue)
      BY <2>1, <2>2, HeardIs
    <3>2. \A i \in 1..Len(queue) : (Len(queue) - i) + 1 \in 1..Len(queue)
      BY <2>1, LenProperties
    <3>3. \A i \in 1..Len(queue) : Heard(queue')[i] = Heard(queue)[i]
      <4>1. TAKE i \in 1..Len(queue)
      <4>2. Heard(queue)[i] = queue[(Len(queue) - i) + 1].sound
        BY <2>1, HeardIs
      <4>3. Heard(queue')[i] = queue'[(Len(queue) - i) + 1].sound
        BY <2>1, <2>2, HeardIs
      <4>4. QED
        BY <2>2, <3>2, <4>2, <4>3
    <3>4. QED
      BY <3>1, <3>3, SeqEqual
  <2>4. Heard(queue)' = Heard(queue')
    BY DEF Heard, Audio!SoundsOf, Audio!Reverse
  <2>5. QED
    BY <2>1, <2>3, <2>4
<1>4. QED
  BY <1>1, <1>2, <1>3 DEF Audio!HandleSceneUpdate

LEMMA StepIsHeard ==
  ASSUME TypeOK, [Next]_vars
  PROVE  Audio!Spoken!Next \/ (Heard(queue)' = Heard(queue) /\ playing' = playing)
<1> DEFINE silent == Heard(queue)' = Heard(queue) /\ playing' = playing
<1>1. ASSUME UNCHANGED <<playing, queue>> PROVE silent
  BY <1>1 DEF Heard, Audio!SoundsOf, Audio!Reverse
<1>2. CASE SceneUpdate
  BY <1>2, FrameIsHeard DEF SceneUpdate
<1>3. CASE BossHit
  <2>1. Audio!Play(BossWords, FALSE) \/ UNCHANGED <<playing, queue>>
    BY <1>3 DEF BossHit
  <2>2. QED
    BY <1>1, <2>1, BossEntries, PlayIsHeard
<1>4. ASSUME NEW z \in Zones, ZoneEntered(z) PROVE Audio!Spoken!Next
  BY <1>4, ZoneEntries, PlayIsHeard DEF ZoneEntered
<1>5. ASSUME NEW k \in Killers, Killed(k) PROVE silent
  BY <1>1, <1>5 DEF Killed
<1>6. CASE HandleUpdate
  <2>1. CASE LoadLevel
    <3>1. playing' = FALSE /\ queue' = <<>>
      BY <2>1 DEF LoadLevel, Audio!Recreate
    <3>2. Heard(queue)' = <<>>
      <4>1. Heard(queue)' = Heard(queue')
        BY DEF Heard, Audio!SoundsOf, Audio!Reverse
      <4>2. Heard(<<>>) \in Seq(Clips \cup {Null}) /\ Len(Heard(<<>>)) = 0
        BY HeardIs, EmptySeq
      <4>3. QED
        BY <3>1, <4>1, <4>2, EmptySeq
    <3>3. Audio!Spoken!Reset
      BY <3>1, <3>2 DEF Audio!Spoken!Reset, Heard
    <3>4. QED
      BY <3>3 DEF Audio!Spoken!Next
  <2>2. CASE UNCHANGED <<playing, queue>>
    BY <1>1, <2>2
  <2>3. QED
    BY <1>6, <2>1, <2>2 DEF HandleUpdate
<1>7. CASE SoundFinished
  <2>1. playing /\ playing' = FALSE /\ Heard(queue)' = Heard(queue)
    BY <1>7 DEF SoundFinished, Audio!SoundFinished, Heard, Audio!SoundsOf, Audio!Reverse
  <2>2. Audio!Spoken!Finish
    BY <2>1 DEF Audio!Spoken!Finish, Heard
  <2>3. QED
    BY <2>2 DEF Audio!Spoken!Next
<1>8. CASE UNCHANGED vars
  BY <1>1, <1>8 DEF vars
<1>9. QED
  BY <1>2, <1>3, <1>4, <1>5, <1>6, <1>7, <1>8 DEF Next, Frame

(* Whatever is inserted and popped at the two ends of the vector, what is     *)
(* heard is what Speech promises: for any boss, any zones and any frames.     *)
THEOREM SpeechImplemented == Spec => ImplementsSpeech
<1>1. Init => Audio!Spoken!Init
  <2> SUFFICES ASSUME Init PROVE Audio!Spoken!Init
    OBVIOUS
  <2>1. queue = <<>> /\ playing = FALSE
    BY DEF Init, Audio!Init
  <2>2. Heard(<<>>) \in Seq(Clips \cup {Null}) /\ Len(Heard(<<>>)) = 0
    BY HeardIs, EmptySeq
  <2>3. Heard(queue) = <<>>
    BY <2>1, <2>2, EmptySeq
  <2>4. QED
    BY <2>1, <2>3 DEF Audio!Spoken!Init, Heard
<1>2. TypeOK /\ [Next]_vars => [Audio!Spoken!Next]_<<Heard(queue), playing>>
  BY StepIsHeard
<1>3. Inv => TypeOK
  BY DEF Inv
<1>4. QED
  BY <1>1, <1>2, <1>3, InvInit, InvNext, PTL DEF Spec, ImplementsSpeech, Audio!Spoken!Spec, Heard
=============================================================================
