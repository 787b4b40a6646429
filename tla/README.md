# The Traitor: a verification project

TLA+ models of the game in `src/src/` ("The Traitor", a stealth game built on
Urho3D) and of the crash reporting it is built with (`src/Breakpad/`), the TLC runs that check
them and TLAPS proofs about them.

## 1. The system

The program is one class `Game` (an Urho3D application) and about twenty
components that live on the nodes of a scene. The game itself has one thread. What makes it
hard is not parallelism but *order*: in every frame the engine calls, one after
the other,

1. the scene update: `Update` of every enabled component, and the audio manager;
2. the physics step: contacts are computed first and then delivered one by one,
   also to bodies and components an earlier delivery has disabled;
3. `Game::HandleUpdate`, with its stages `[space]`, menu, movies, developer keys;
4. `Game::HandlePostRenderUpdate`, which draws the debug displays.

In 1, 2 and 3 the same two functions, `Game::EndLevel` and `Game::LoadLevel`, may
be called, by eight different callers that do not look at the state of the game.

Threads appear where the game ends: every event for the authors is an HTTP request with a thread of
its own, Breakpad's handler thread calls the game back when any of them crashes, and its
out-of-process server has a thread per callback.

| Component | State it keeps | Operations | Correct when |
|---|---|---|---|
| Game control flow (`Game.cpp`) | `gameState_`, `currentLevel_`, scene, UI, movie statics, debug flags | `LoadLevel`, `EndLevel`, `HandleUpdate`, `HandlePostRenderUpdate` | state, level index, scene and UI agree; lost levels are retried, won ones are followed by the next; movies end |
| Scoring (`Game.cpp`) | `levelTime_`, `totalTime_`, `totalScore_` | part of `LoadLevel`, `EndLevel`, `HandleUpdate` | every attempt is counted once; the times shown are the times taken |
| Level loader (`Game.cpp` 289-774) | the scene | loops over the image, rooms, guards, zones, walls | terminates; every guard has waypoints; exactly one person |
| Audio (`AudioManager`, `AudioZone`) | queue of sounds and delays, the playing sound | `HandleSceneUpdate`, `Play`, `EnqueueAudioClip`, zone contact | batches are heard in order, replace each other, the level ends behind the last word |
| MrWright | three sequences of glyphs, swap timer | poster contact, shuffle | the sequences can be completed whatever the shuffle does |
| Bertha, her lasers | health, charge timer, laser timers | damage, charge, lethal touch | health stays in range, beaten once |
| Wife | sequence of terminals | terminal contact, end of the game | ends exactly when all terminals were used in order |
| Guard | path, waypoints, `wasFollowingPlayer_`, `willHearSound_` | patrol, pursue, hear, alarm, lethal touch | never without a path, resumes its patrol |
| Person, doors | path, direction, health, door timers | click or stick, door walk, damage | a walk through a door ends, dies once |
| Items (`Inventory`, `Pickup`, `Thrower`, `SelfDestroy`, `Padlock`, `Terminal`) | items, their nodes' enabled parts, timers | collect, throw, decay, unlock | an item is in one place; a throw is used once |
| Lasers and cameras | timers, pulses, the lights of a room; yaw | switching, pulse, sweep, alarm | of two lasers that alternate none overtakes the other; no light stays red; the camera sweeps its arc and turns only at its ends; alarms are answered |
| Camera controller, posters, markers | angles, timers | rotation, zoom, fades | bounds |
| Analytics, crash handler | list of pending requests | send, clean up, flush at exit and in a crash | the authors are told of a crash; the process ends |
| Breakpad's exception handlers | handler stack, locks, semaphores, the mailbox (Mac) | filter, handler thread, callback | one crash is reported at a time, and its thread waits for that |
| Breakpad's crash generation server | state of the pipe, list of clients, their waits and events | one handler per state, dump, client's end, destructor | no `ClientInfo` is used after it is freed; every request is answered; shutting down ends |
| Urho3D | external | | |

The components interact through direct calls (`EndLevel`, `AudioManager::Play`,
`Guard::HeardSound`, `Guard::SetPath`, `Inventory::GetItemOfType`), through the
enabled flags that `EndLevel` clears, and through events of the engine.

## 2. The modules

| Module | Models | Uses |
|---|---|---|
| `Campaign` | abstract: the course of a game as the player sees it | |
| `GameFlow` | `Game`'s control flow, frame by frame | implements `Campaign` |
| `ScoreBoard` | level clock and totals | along the steps of `Campaign` |
| `Speech` | abstract: what the audio manager promises | |
| `AudioManager` | the audio manager and the queues of the zones | implements `Speech` |
| `BossLevel` | a boss level: audio manager, zones, boss, lethal contacts, `EndLevel`/`LoadLevel` | instance of `AudioManager`; its steps are steps of `Campaign` |
| `Guard` | a guard: patrol, pursuit, hearing, alarms | |
| `LaserBeams` | the lasers of a room and the lights they share | |
| `Room` | a guard in a room with lasers and a camera, frame by frame | extends `Guard` and `LaserBeams` |
| `ItemLife` | abstract: the life of an item | |
| `Inventory` | `Inventory`, `Pickup`, `Thrower`, `SelfDestroy`, `Padlock` on shared nodes | implements `ItemLife` |
| `Combination` | abstract: a boss that is beaten by entering a combination | |
| `Shuffling` | one round of the shuffles of posters and terminals | |
| `GlyphPuzzle` | MrWright: glyph sequences, swapping posters, the display | `Shuffling`; implements `Combination` |
| `TerminalPuzzle` | the wife: the order of the terminals, the end of the game | `Shuffling`; its steps are steps of `Combination` |
| `Analytics` | the events the game sends, and the list of their requests | |
| `CrashReport` | a crash: the crashed threads, Breakpad's handler thread on Windows and on the Mac, the callback, the end of the game | instance of `Analytics` |
| `CrashServer` | Breakpad's out-of-process server on Windows, its clients and their ends | |
| `*_proofs` | TLAPS proofs about `GameFlow`, `ScoreBoard`, `BossLevel`, `Guard` and `Room`, `Inventory`, `GlyphPuzzle`, `TerminalPuzzle`; `Breakpad_proofs` about `CrashReport` and `CrashServer` | |
| `MC...` | values of the constants for TLC | |

Definitions whose comment begins "A bug" are variants of the definition that
follows them; nothing uses them. They show what the properties would notice: with
the variant in the place of the original, the property of the run fails.

### GameFlow

`phase` is the point the frame has reached (`scene`, `physics`, the four stages
of `HandleUpdate`, `render`); the stages always follow each other, none is left
out. `gameState`, `currentLevel`, `developerMode` are the members of the same
name. `scene` abstracts `scene_` to what the code tells apart: *empty* (cleared,
no scene components but a sound), *title*, *level*, *frozen* (a level whose
components `EndLevel` has disabled). `ui` says which screen the UI root holds;
`"movie"` means that the sprite `Movie` exists, which the movie stages
dereference. `movie` holds the function-local statics `frame` and `frameTimer` of
the two movies in clock ticks; they survive a skipped movie as they do in the
code. `contacts` counts the lethal contacts of the physics step still to be
delivered. `LoadLevel(state, level)` and `EndLevel(died, suppressScore)` are
operators used by every caller. The components' own logic appears only as the
call: `StairsReached`, `EndingPlayed` (the NULL sound), `WifeDefeated`,
`LethalContact` (guard, Bertha, the person's last hit point).

`Ending` gives each level its kind of ending; it is taken from the level data
(MrWright in level 3, Bertha in 6, the wife in 9, stairs elsewhere).

### ScoreBoard

The screens and levels of `Campaign`, whose actions it uses, with `levelTime_` and
`totalTime_` in hundredths of a second. `EndLevel` may count an attempt more than
once (`DieAgain`: a second lethal contact of the same physics step; `CompleteLate`:
a boss's last words after a death). `ended` is a history variable. The score has
the same life as the total time and is left out.

### AudioManager and Speech

`queue` is the `PODVector` of the code with its orientation: inserted at the
front, popped at the back. `Speech` is the same in the order of hearing;
`AudioManager` implements it under the reversal of the queue. `Play`'s parameter `queue` (`keep` in
the model) is FALSE in every call of the game; the manager is checked as part of `BossLevel`.

### BossLevel

One or more levels that end by a boss's last words. `hits` is what it still takes
to beat the boss (MrWright's matches, laser hits on Bertha). The contacts of a
physics step are a set, delivered in any order, computed only while the level is
not frozen. `EndLevel` freezes; it does not stop the audio manager, which is a
component of the scene and not of a node with a model. After the last level the
model stays in the credits.

### Guard

The floor is a set of points and `Route` is `NavigationMesh::FindPath`; `Walkable`
says which straight ways do not cross a wall. `path`, `wasFollowing`, `hasSeen`,
`willHear` and `sound` are the members of the class. The three ways through
`Guard::Update` are `Hear`, `See` and `Patrol`; sight is a nondeterministic choice.
What reading the front of an empty `PODVector` gives is `Garbage`, a value that is not a
point. `HeardSound` is the call of a thrown item, `SetPath` that of cameras and lasers,
at any moment.

### LaserBeams and Room

`Timers` and `Lights` are the two halves of `Laser::Update` for all lasers of a room in the order of
their nodes: each pulsing laser colours the same lights, so the last one decides. `Room` puts them,
a camera and a guard into one frame: `Scan` (the objects of a room are made before its guards, and
so updated before them), `GuardUpdate`, `Physics`. Only lasers and the camera raise alarms here. Every frame has
its own length, which `Scan` chooses: it is the engine's `timeStep`, which no two frames need share. Three variables are
only for the properties: `called`, where the last alarm has sent the guard (dropped when it sees the person or
hears a noise: what an interrupted alarm comes to is not promised), `turned`, the length of the frame the camera
has just turned around in, and `slipped`, which notes that the frame after a turn was shorter than that.

### Inventory and ItemLife

Each item is a scene node with flags that several components change: enabled,
pickup, self-destruction. `Inventory` keeps these flags, the list of the inventory, its labels
and the padlocks, with one action per component's `Update`. `ItemLife` knows only where an
item is; it is implemented under a refinement mapping from the flags.

### GlyphPuzzle and TerminalPuzzle

`GlyphPuzzle` has the glyph on each poster (`wall`), the sequences still to be
entered and the display, glyph by glyph. A shuffle takes several steps, one per round of its
loop, so that every intermediate arrangement is a state. `swapTimer_`, which no
constructor initialises, starts with any value of `Timers`. The person comes to
a poster, leaves it or stays in the physics step of a frame; only coming is a contact.

`TerminalPuzzle` begins with the shuffle of `DelayedStart`. The person walks
between terminals, the rest of the room and other rooms, and may be killed in any physics
step, before or after the contact with a terminal. `EndLevel(false, true)` clears the scene, so
the model ends there.

`Combination` is what both promise: the combination is entered symbol by symbol by coming to
what shows it, and nothing else, and only then the boss is beaten, for good.

### Analytics and CrashReport

`requests` is `requests_`, `http` what the thread of each request does, `deleted` the requests whose
object is gone. `SendGameEvent` takes two steps, before and after the request's thread is started, so that
a crash can come between; `made` is the main thread's local variable for the request meanwhile. `Kept` is the clean-up loop at its
beginning, which erases finished requests. A finished request leaves the list without being released (a leak that
nothing depends on); `ReleaseRef` on a deleted request, or two threads in the list at once, is undefined
behaviour: `process = "undefined"`.

`CrashReport` has the crashed threads (`pc`), the handler thread (`handler`), the two critical sections, the
two semaphores and the filter of Windows; on the Mac a mailbox of messages and the threads the
handler has suspended. A crash is an unhandled exception, an invalid parameter (whose thread ends the
process itself) or a breakpoint (which is not reported). The game's order of destruction is part of the
model: the handler goes before `Analytics` flushes for the last time.

### CrashServer

`state` is `server_state_`, with one action per state handler; `io` is the overlapped operation on the pipe. `info`
says whether the `ClientInfo` of a client exists, `listed` whether it is in `clients_`. `dumping` and
`ending` are `OnDumpRequest` and `OnClientEnd`, in threads of the pool; `server` is where the destructor is.
Clients register, ask for dumps, give up waiting and end at any moment. The game starts no such
server; it is modelled as the part of the library in which most threads meet.

## 3. What the runs show

| Run | Question | Result |
|---|---|---|
| `game` | nine levels as shipped, players and developers | `gameState_`, level index, scene and UI agree in every stage; nothing NULL is drawn for a player; the movies play in real time and end; every game is a `Campaign` |
| `debug_rendering` | can the displays of the README be drawn on every screen? | no, see findings |
| `boss` | two boss levels, two zones, a guard and Bertha's body | won only when beaten, after the last word; stays won; the mark of a victory stands and ends the level unless a further zone speaks; the audio manager implements `Speech` |
| `boss_death` | does a dead player advance? | yes, see findings |
| `guard` | a guard in a room with two lasers and a camera, noises and glimpses in any order, frames of varying length | leaves the floor only after an alarm, and never walks towards the front of an empty path; no noise is lost; stays on the way of the last alarm and gets where that called it; resumes its round; no light stays red; the lasers may drift but none overtakes the other; the camera sweeps from end to end and turns around only there, until a turn is followed by a shorter frame |
| `inventory` | two throwable items, two keys, three padlocks | flags, list and labels agree; items live as `ItemLife` says; a thrown item breaks |
| `glyphs` | three posters, sequences of two and three glyphs, swaps at any time | no glyph is lost; the display is right; implements `Combination`; a persistent player wins |
| `terminals` | four terminals in every order, death at any moment | the game ends once, at once, and only for the living |
| `scores` | several games, several ways to end a level | no attempt is missing in the total |
| `score_replay` | do the statistics show the game just played? | no, see findings |
| `crash` | main, mixer and request threads crash, up to two of them, on either platform: the main thread while the game starts and runs, the others also while it ends | one report at a time; nobody goes on before the authors are told; the process ends, unless the callback waits for a thread that cannot |
| `crash_server` | two clients register, ask for dumps, give up and end while the server is shut down | no freed `ClientInfo` is used (one exception, below); answers are fresh; nothing outlives the server (one exception, below); first requests are not lost and are answered; shutting down ends |

**Fairness.** The engine keeps calling the frame: weak fairness of the frame's steps
in `game`, `boss`, `guard` and `glyphs`. No voice file is looped: weak fairness of the end
of a sound (`boss`). A guard that keeps walking over free floor gets where it is
going, however often it is distracted in between: strong fairness of `ArriveOnFoot`, not of a walk
through a wall. In `inventory` the life time of a thrown item runs down with the
frames. The player's keys, contacts and victories carry no fairness;
what a persistent player does is the premise of `PersistenceWins`, and `ResumesPatrol`, `CalledGuardComes` and
`HearsEverySound` have "nobody disturbs it for ever" as theirs. In `crash` and `crash_server` every thread that
can run does, and a request ends (its connection times out); nobody has to crash, connect, ask
or quit, and the 15 seconds after which a client gives up are not relied on.

**Deadlock.** A developer can crash the program, so `game` and `debug_rendering` do
not ask for absence of deadlock; `NeverCrashes` says that only a developer can. `terminals` stops
with a death and with the credits; in `crash` and `crash_server` a process that has ended does no more. The
others do ask.

**Bounds.** `MaxContacts` = 2 lethal contacts in a physics step (a second one already
meets the frozen level and a third meets the state the second leaves); movies of
two and three frames, two ticks per frame, time steps of one and three ticks (shorter
than a frame, and longer so that several frames pass at once); `MaxQueue` = 5
entries (the longest list and one more batch behind it); two hits per boss; two
zones. Inputs are combinations of `[space]`, no, one or two digits and the
developer's letters, so that one key press seen by two stages (`2` starts a level
and toggles a display) is covered. The guard has a corridor of three points, of which its round takes two, turning
back, and a point off the mesh, so that routes may be missing; noises and alarms come from that point and from the corridor's far end, from
where the way to the start of the round leads through the other. Its room has two lasers like those of
`data/Levels/5/1x2.xml`, the second one interval late, both shortened to one unit. Frames of one and of two units, in any order, end a delay,
an interval, a pulse or a sweep at their end or within, let the lasers drift until they are lit together or change over together, and take the camera
beyond its limits for good. `YawBound` is twice the limit: a camera out there is not followed farther, but the shorter frame always leaves it a step.
Two items of the throwable type, two keys and three
padlocks let a key open two of them and an item be asked for by type while another of its type is
carried; the life time is no multiple of the longer time step. Three posters make a shuffle with a
fixed point, a swap and a rotation possible, and the second sequence is longer than the first, so that
the display is rebuilt. Four terminals have all 24 orders. `MaxTime` stops the clocks of `ScoreBoard`. `CrashReport` has two events of the game (one may have ended
and left the list while the other is pending) and two crashes (the second may meet the first in every stage, also as the crash of a
request the callback waits for; a third would wait behind the second). `CrashServer` has two clients: two are enough for the one pipe instance and the one mutex to be
contended. They ask for two dumps between them: each for one, so that both may wait at the same time, or one for two, as a stale answer takes a second request.

### Findings

* **A debug display crashes the movies** (`debug_rendering`). The displays switched on
  with `2` and `3` stay on; in the intro, the credits and the statistics the scene
  has no `PhysicsWorld` and no `NavigationMesh`, and
  `HandlePostRenderUpdate` (Game.cpp:1609, 1613) dereferences NULL. The
  README promises `2` Physics Debug Rendering without such a limit.
* **A dead player advances** (`boss_death`). A player killed after beating a boss
  sees the "murdered" panel, but when the boss's last words end the NULL sound
  calls `EndLevel(false, false)`: `GS_DEAD` becomes `GS_STAIRS` and `[space]`
  leads to the next level, against the comment at Game.cpp:243. `Campaign` makes this
  exception explicit as `WinLate`, restricted to boss levels, and the proof shows
  there is no other way.
* **The statistics add up all games** (`score_replay`). `totalTime_` and `totalScore_` are only
  ever added to (Game.cpp:793); the statistics of a second game, for which they ask with
  "Can you do better next time?", contain the first.

Behaviour that no document of the repository contradicts, and that the properties
describe as it is:

* an audio zone entered after a boss is beaten drops the mark that ends the
  level, which then has no ending (`VictoryEndsLevel` says that
  this is the only way to get stuck);
* a skipped movie continues where it was skipped when it is shown again;
* a guard called by an alarm does not note that it left its round: it makes straight for its first
  waypoint afterwards, through whatever is between (`PathOnFoot`); a camera that alerts it in every
  frame, each time with a path that starts where the guard stands, may hold it on the spot (`CalledGuardComes`
  holds once that stops);
* the timers of lasers drop what a frame was too long: with frames of varying length, lasers meant to alternate drift,
  and may come to be lit together for a whole interval and dark for the next. `TakeTurns` says what remains: they change over one
  after the other, or both at once, and none of them twice in between;
* a camera turns around whenever it is beyond its limit, whichever way it goes. If it overshoots in a long frame and is still beyond
  the limit after a shorter one, it turns around again, and may stay out there or get still farther, turning around in
  every frame (`slipped`; `TurnsAtEnds` and `SweepsAcross` say that nothing else puts it off);
* a guard that stands neither sees nor hears; it takes up a noise once it moves (`HearsEverySound`);
* the first swap of the posters comes at once, after ten seconds or much later, as
  `swapTimer_` happens to start;
* several lethal contacts, or a boss's last words after a death, count an attempt several times (`NoAttemptLost` bounds the total from below only);
* the third field of the completion time still contains the minutes (Game.cpp:851, 1492): one minute is shown as
  `01:00.6000`. This is arithmetic, not behaviour, and no module is about it;
* a crash is not reported if it comes before the constructor of `Game` has registered `Analytics` (Game.cpp:77 and 85: the
  callback dereferences NULL, which ends the process on Windows and hangs it on the Mac); if the
  crashed thread is that of a request in the list, or a request is pending on the Mac, where all threads are suspended,
  `FlushEvents` waits for ever (`Stuck`); a second crash finds the
  requests the first has deleted still in the list (`FlushEvents` does not empty it) and asks them for their state;
* the server frees the `ClientInfo` of a process that ends before `AddClient` has listed it, and then lists it: the comment in
  `HandleReadingAckState` holds only for later ends (`InfosAreValid`);
* the server's destructor gives up waiting for a callback that has begun after a second: its
  `ConnectNamedPipe` may then still be pending (`NothingOutlivesServer`). A client that opens the pipe and closes
  it before `ConnectNamedPipe` leaves the server in its error state for good;
* a client is told of a dump although none could be written, may take the answer to a request it has given up
  for that to its next one (`AnswersAreFresh` excludes only that case), and of several that wait when the server
  goes, one gets its mutex and the others the timeout (`FirstRequestAnswered`).

## 4. What is proved

Every theorem holds for all values of the constants that the named `ASSUME` of its
module allows.

**`GameFlow_proofs`** (`ConstantsAssumption`): `TypeCorrect`, `StateAgreement`
(`FirstLevelNext /\ ScreenMatchesState`), `PlayersAreSafe` (`NeverCrashes`) and `CampaignImplemented`
(`Spec => ImplementsCampaign`). The inductive invariant `Inv` is the conjunction of the
agreements: none of them is inductive alone, because `EndLevel` is only called in a
level if the scene matches the state, and `LoadLevel` finds a level or level 0 only if
the index is in range. `LoadLevelResult` and `EndLevelResult` say where the two functions
leave the game whoever calls them; every action's lemma rests on them.
`AdvancedType` needs that whole frames counted off a timer leave a remainder
(`WholeFrames`). `MoviesInTime` (`MoviesKeepTime`) needs in addition that they and the remainder make up the timer (`NoTickLost`):
`AdvancedTime` shows that a movie's statics move on by exactly the length of the frame. The refinement shows per action that a step is a step of
`Campaign` or leaves screen and level alone.

**`ScoreBoard_proofs`** (`ScoreAssumption`): `AttemptsCounted`. `NoAttemptLost` needs only
that the clocks are natural numbers; `CountKeeps` is the case all endings share.

**`BossLevel_proofs`** (`BossAssumption`: the words of the zones contain no NULL): `WonCorrect` (`WonMeansBeaten`), `VictoryStands` (`VictoryHolds`, which is `MarkStands` before the ending and `WonStaysWon` after it) and `SpeechImplemented` (`Spec => ImplementsSpeech`). The invariant adds `WonIsFrozen`: the frame in which
the manager ends a level finds no contacts, which is why none can turn it into a lost one. The mark is kept (`MarkForGood`) for a reason of its own: the mark waits only while `hits` is 0, so no hit
can push the last words again, and the manager that takes the mark off the queue ends the level in the same step. For the
refinement, `Heard` is the queue in the order of hearing; `PopHears` shows that taking the back of
the vector is hearing the next sound, `FrameIsHeard` that nothing is heard of a delay.

**`Guard_proofs`** (`GuardAssumption`: routes lead over the floor and start where they are
asked from; there is at least one waypoint, and the round can be walked): `TypeCorrect`, which includes that
`Garbage` is never a target, and `PathsCorrect` (`PathOnFoot`). Their conjunction is inductive.
`RestOnFoot` says that what is left of a path that can be walked can be walked;
`WalkWaypoints` deals with the one exception, a round that starts over. `NoShortcutTaken` needs more of the
level: a part of the mesh (`Connected`) that routes do not leave and from which they always find the first waypoint; TLC
evaluates it for the corridor of `MCGuard`. Its invariant is about where paths *end*
(`Undisturbed`): a path that is not to be followed back later ends where the round can be taken up.
`RoomIsGuarded` (`RoomSpec => Spec`) carries all this into rooms with lasers and cameras (`PathsInRoom`, and `FloorKept` for `KeepsToFloor`, which is `PathOnFoot`, `NoShortcut` and `NoGarbage`); `LightsCorrect`
shows `LightsTell` for any number of lasers and frames of any lengths. `AlarmsStand` (`AlarmStands`) shows per way through
`Guard::Update` that a path set by an alarm keeps its end until the guard is there (`WalkStands`). `CameraTurns`
(`TurnsAtEnds`) rests on `CameraInv`: a camera that has just turned around is beyond the end it comes from by less than the frame it turned around in, so that
a next frame at least as long brings it inside its limits, where it stays until the other end.
`LasersTakeTurns` (`BeamsAssumption`, `FramesAssumption`) proves `TakeTurns` for every interval and frames of any lengths in any order. The
property is not inductive: that none overtakes the other depends on how their timers stand. `Turns` says so for every stage two such lasers can be
in: the second waits (`Waits`), and its delay and the first one's timer add up to the interval; if both are alike, the first is to change over
next and its timer is not the lesser one (`FirstIsNext`), else the second's is not (`SecondIsNext`). A frame adds the same to both timers, so their order stays until one changes over.

**`Inventory_proofs`** (`ItemsAssumption`): `TypeCorrect`, `FlagsCorrect`, `LabelsCorrect` and
`LifeImplemented`. The inductive invariant says of each item alone that its flags agree
(`Agree`; `PlacesNameFlags` shows that this is `FlagsAgree`), together with the types and
with only throwable items ever having a life time. The labels need in addition
`Marked`, what `dirty_`, never cleared once it is set, stands for.

**`GlyphPuzzle_proofs`** (`PuzzleAssumption`): `TypeCorrect`, `GlyphsCorrect`, `DisplayCorrect`
(`TellsHowFar`: `DisplayTellsNext` and `SpeaksOnce`). `DisplayTellsNext` is not inductive: the display is rebuilt only if the
number of glyphs changes, so the invariant adds what is still to come (`Coming`): the
sequences have the lengths of `Lengths`, neighbours of which differ. With equal neighbours the display would
keep the old, green glyphs. `CombinationImplemented` (`Spec => ImplementsCombination`) maps the sequences to the one combination
they make (`FlattenSeq`). `FlatEnters` is its core: to take the first glyph off the first sequence, and that sequence off
the list if it was its last, is to take the head off the combination. It is shown about the recursive function in
`FlattenSeq` (`FlatExists`, `FlatUnique`) by least counterexamples. `SwapKeeps`, here and in the next module, says that exchanging two elements of
a sequence without repetition keeps it one.

**`TerminalPuzzle_proofs`** (`TerminalsAssumption`): `TypeCorrect`, `LitCorrect`, `EndingCorrect` (`EndsForTheLiving`) and
`LockImplemented` (`Spec => LockStep`: every step after the shuffle is one of `Combination`). The
invariant adds `Course`, how phase, shuffle, death and ending go together.

**`Breakpad_proofs`**, for any number of threads, events and clients.

*The crash generation server* (`ServerAssumption`): `ServerCorrect` (the invariant `ServerInv`), `NoFreedInfo` (`InfosAreValid`), `AnswersBelong`
(`AnswersAreFresh`), `NothingLeft` (`NothingOutlivesServer`) and `FirstRequestStands` (`FirstRequestKept`). The invariant has a part about the pipe (`OperationInv`: an operation that is pending has not
signaled; a pipe that is down is used by nobody; the last steps of the destructor come after the callback) and parts
about each client alone. `Registering` says that while the pipe is up a client without a `ClientInfo` is one to which the server has not yet replied, or
whose reply it is just delivering (`Served`, one line per state); `Pooled`, that waits and threads of the pool exist only for clients in the list or on
their way there, which is why the destructor finds them all; `Valid`, that these `ClientInfo`s live unless some client has ended early;
`Answering`, that a client that never gave up has no dump under way but the one it asked for. `FreedEarly` shows the one
way to undefined behaviour; what comes after it is not described (`FreedStops`). `FirstRequestStands` adds to
the invariant what becomes of each client's requests (`Asked`): the first stays signaled until `HandleDumpRequest` has answered it, and the wait that will see it stays registered
as long as process and `ClientInfo` live.

*A crash report* (`CrashAssumption`: the requests have different names, which are not those of the other threads): `ReportCorrect` (`ReportInv`), `ReportsDoNotMix` (`OneAtATime`) and `NoCrashUntold`
(`AuthorsAreTold`). `LocksInv` says what the handler thread, both critical sections and both semaphores may be at together: its answer can only meet the
thread that holds both locks. `AuthorsAreTold` rests on the loop of `FlushEvents` (`LoopInv`): each request before its
position has been deleted and so has finished, and the one that tells of the crash stays in the list until it has finished. For that, the clean-up loop must not lose it: `KeptKeeps`
shows by induction along the list that `Kept` drops only finished requests, and `NextIsNew` that a new request is not one of the old.

Induction over data is available in one form: the prover cannot instantiate the library's induction theorems, whose parameter is an operator, but
`LeastElement` (from the well-foundedness of finite sets under inclusion) is about a *set* of numbers, and `Induction` follows from it. Every theorem about a recursive function rests on them.

Model-checked only: liveness (`MoviesEnd`, `VictoryEndsLevel`, `ResumesPatrol`, `HearsEverySound`, `CalledGuardComes`, `SweepsAcross`,
`ThrownBreaks`, `PersistenceWins`, `MainCrashIsTold`, `EveryEndingComes`, `FirstRequestAnswered`, `ShutdownEnds`), which is out of reach of
the prover. For six of them a safety half is proved, and that fairness then leads to the end is left to TLC: `MoviesKeepTime` (`MoviesEnd`), `MarkStands` (`VictoryEndsLevel`),
`AlarmStands` (`CalledGuardComes`), `TurnsAtEnds` (`SweepsAcross`), `FirstRequestKept` (`FirstRequestAnswered`) and `AuthorsAreTold`
(`MainCrashIsTold`) say that what must eventually happen is never lost on the way. Every safety property of a passing run, invariant, action property or refinement, is proved.

## 5. Not modelled

Rendering, layout, text, sounds as such, what an event says, and the engine beyond
the order of a frame, the delivery of contacts and the life of a request. The models assume that resources of the shipped game
load. `PROJECT.json` lists every component with its status. In particular:

* the loops of `LoadLevel` over level image and room files: sequential, without interaction, over fixed data; their
  results are the constants and initial states of the other modules. Noted while reading: a guard without waypoints
  makes the loop at Game.cpp:519 endless, a sound file that does not load would be taken for the mark that ends a level (Game.cpp:592);
* `Person`: steering by stick and click, of which the models take every outcome (any contact, any sighting,
  any time); a door sets a path of two points and closes when the person has left it; health is a counter whose end is `Killed`;
* the developer's keys that skip a level, in `BossLevel` (they are in `GameFlow`; any `LoadLevel` gives the audio manager a new scene and an empty queue);
* Bertha's charge, her lasers' aim and float health pace the hits and touches `BossLevel` takes in any order;
* camera controller, posters, markers, search light: nothing reads their state;
* holding ESC, the cheat code and joysticks, which touch no state of the modules but `developerMode_`;
* crashes of the main thread while it quits, flushes for the last time or joins; and the lock of the C run-time's heap: the
  models of a crash assume that the callback can allocate, while a crashed or suspended thread may hold that lock, and then nobody is told;
* of Breakpad: what is written into a dump, the readers of DWARF, STABS, Mach-O and PDB, the processor, the tools, the Linux, Solaris and iOS
  parts and all tests, which convert data in straight lines or are not built into the game. Of the exception handlers: several
  nested handlers, `WriteMinidump` on request, pure virtual calls and `SIGABRT` on the Mac. Of the server: a
  failing `Start`, and a failing registration of a client's waits;
* lasers reset the lights of a room to brightness 0.2 where the loader sets 0.25.
