------------------------------ MODULE Inventory ------------------------------
(* The items of a level and the inventory of the person: Inventory, Pickup,   *)
(* Thrower, SelfDestroy and Padlock (src/src/).  Where an item is follows     *)
(* from flags that belong to different objects: whether its node exists and   *)
(* is enabled, whether its Pickup component is, whether it has a SelfDestroy  *)
(* component, and the list of the inventory.                                  *)
EXTENDS Integers, Sequences, Functions

CONSTANTS
  Items,      \* the items of the level
  Padlocks,   \* its padlocks
  Type,       \* type_ of every item and every padlock
  LifeTime,   \* ticks a thrown item has left (7 s)
  TimeSteps,  \* lengths of a frame, in ticks
  None        \* no SelfDestroy component

Throwables == {i \in Items : Type[i] = "Throwable"}

(* No padlock of the levels is opened by a throwable item.                    *)
ASSUME ItemsAssumption ==
  /\ Items \cap Padlocks = {}
  /\ DOMAIN Type = Items \cup Padlocks
  /\ \A p \in Padlocks : Type[p] # "Throwable"
  /\ LifeTime \in Nat \ {0}
  /\ TimeSteps \subseteq Nat \ {0}
  /\ None \notin Int

VARIABLES
  nodes,     \* the items whose node is in the scene
  enabled,   \* the items whose node is enabled
  pickups,   \* the items whose Pickup component is enabled
  life,      \* lifeTime_ of an item's SelfDestroy
  items,     \* Inventory::items_
  dirty,     \* Inventory::dirty_
  visible,   \* the inventory's panel is on the screen
  labels,    \* the items whose labels are the children of panel_
  padlocks,  \* the padlocks still there
  ended      \* EndLevel has disabled the components

world == <<nodes, enabled, pickups, life>>
bag == <<items, dirty>>
display == <<visible, labels>>
vars == <<world, bag, display, padlocks, ended>>

Init ==
  /\ nodes = Items
  /\ enabled = Items
  /\ pickups = Items
  /\ life = [i \in Items |-> None]
  /\ items = <<>>
  /\ dirty \in BOOLEAN   \* not initialised by the constructor
  /\ visible = FALSE
  /\ labels = <<>>
  /\ padlocks = Padlocks
  /\ ended = FALSE

(* The sequence without its n-th element.                                     *)
Without(s, n) == [i \in 1..(Len(s) - 1) |-> IF i < n THEN s[i] ELSE s[i + 1]]

(* GetItemOfType: the place of the first item of a type in the list.          *)
IsItemOfType(n, type) ==
  /\ n \in DOMAIN items
  /\ Type[items[n]] = type
  /\ \A m \in 1..(n - 1) : Type[items[m]] # type

(* Pickup::Update while the item's first colliding body is the person.        *)
Collect(i) ==
  /\ ~ended
  /\ i \in nodes \cap enabled \cap pickups
  /\ items' = Append(items, i)
  /\ dirty' = TRUE
  /\ enabled' = enabled \ {i}
  /\ UNCHANGED <<nodes, pickups, life, display, padlocks, ended>>

(* A bug: what has been thrown can be picked up again.                        *)
ThrowCatchable ==
  /\ ~ended
  /\ \E n \in DOMAIN items :
       /\ IsItemOfType(n, "Throwable")
       /\ items' = Without(items, n)
       /\ enabled' = enabled \cup {items[n]}
       /\ life' = [life EXCEPT ![items[n]] = LifeTime]
  /\ UNCHANGED <<nodes, pickups, dirty, display, padlocks, ended>>

(* Thrower::Update with [T]: the first throwable item leaves the list, its    *)
(* node comes back without its Pickup, and it starts to decay.                *)
Throw ==
  /\ ~ended
  /\ \E n \in DOMAIN items :
       /\ IsItemOfType(n, "Throwable")
       /\ items' = Without(items, n)
       /\ enabled' = enabled \cup {items[n]}
       /\ pickups' = pickups \ {items[n]}
       /\ life' = [life EXCEPT ![items[n]] = LifeTime]
  /\ UNCHANGED <<nodes, dirty, display, padlocks, ended>>

(* A bug: an item whose time is up exactly stays.                             *)
DecayPastZero(i, step) ==
  /\ ~ended
  /\ i \in nodes \cap enabled
  /\ life[i] \notin {None, 0}
  /\ life' = [life EXCEPT ![i] = @ - step]
  /\ nodes' = IF life[i] < step THEN nodes \ {i} ELSE nodes
  /\ UNCHANGED <<enabled, pickups, bag, display, padlocks, ended>>

(* SelfDestroy::Update: the time runs out and the node goes.  Zero counts as  *)
(* never set.                                                                 *)
Decay(i, step) ==
  /\ ~ended
  /\ i \in nodes \cap enabled
  /\ life[i] \notin {None, 0}
  /\ life' = [life EXCEPT ![i] = @ - step]
  /\ nodes' = IF life[i] <= step THEN nodes \ {i} ELSE nodes
  /\ UNCHANGED <<enabled, pickups, bag, display, padlocks, ended>>

(* A bug: the list is believed to be drawn once it has been.                  *)
ShowOnce ==
  /\ ~ended
  /\ labels' = IF dirty THEN items ELSE labels
  /\ visible' = TRUE
  /\ dirty' = FALSE
  /\ UNCHANGED <<world, items, padlocks, ended>>

(* Inventory::Update with [Tab] held: the labels are made anew if the list    *)
(* has ever been added to.                                                    *)
Show ==
  /\ ~ended
  /\ labels' = IF dirty THEN items ELSE labels
  /\ visible' = TRUE
  /\ UNCHANGED <<world, bag, padlocks, ended>>

(* Inventory::Update without.                                                 *)
Hide ==
  /\ ~ended
  /\ visible' = FALSE
  /\ UNCHANGED <<world, bag, labels, padlocks, ended>>

(* A bug: the key is used up.                                                 *)
OpenOnce(p) ==
  /\ ~ended
  /\ p \in padlocks
  /\ \E n \in DOMAIN items : IsItemOfType(n, Type[p]) /\ items' = Without(items, n)
  /\ padlocks' = padlocks \ {p}
  /\ UNCHANGED <<world, dirty, display, ended>>

(* Padlock::Update with the person within 1 m.                                *)
Open(p) ==
  /\ ~ended
  /\ p \in padlocks
  /\ \E n \in DOMAIN items : IsItemOfType(n, Type[p])
  /\ padlocks' = padlocks \ {p}
  /\ UNCHANGED <<world, bag, display, ended>>

(* The developer's key U, also after the end of the level.                    *)
UnlockAll == padlocks' = {} /\ UNCHANGED <<world, bag, display, ended>>

(* EndLevel disables all of these components.                                 *)
EndLevel == ended' = TRUE /\ UNCHANGED <<world, bag, display, padlocks>>

Decays == \E i \in Items, step \in TimeSteps : Decay(i, step)

Next ==
  \/ \E i \in Items : Collect(i)
  \/ Throw
  \/ Decays
  \/ Show
  \/ Hide
  \/ \E p \in Padlocks : Open(p)
  \/ UnlockAll
  \/ EndLevel

Spec == Init /\ [][Next]_vars

(* Every frame updates the components, also SelfDestroy.                      *)
FairSpec == Spec /\ WF_vars(Decays)

(* -------------------------------- properties ------------------------------ *)

Carried == Range(items)

(* The list of the inventory holds nothing twice, although Pickup::Update     *)
(* adds the item in every frame in which it is called.                        *)
TypeOK ==
  /\ nodes \subseteq Items
  /\ enabled \subseteq Items
  /\ pickups \subseteq Items
  /\ life \in [Items -> Int \cup {None}]
  /\ items \in Seq(Items)
  /\ IsInjective(items)
  /\ dirty \in BOOLEAN
  /\ visible \in BOOLEAN
  /\ labels \in Seq(Items)
  /\ padlocks \subseteq Padlocks
  /\ ended \in BOOLEAN

(* Where an item is.                                                          *)
Place(i) ==
  IF i \in Carried THEN "carried"
  ELSE IF i \notin nodes THEN "gone"
  ELSE IF life[i] # None THEN "thrown" ELSE "floor"

(* The flags of the four objects always tell the same story: what the list    *)
(* holds is alive, switched off and not decaying; what lies on the floor can  *)
(* be collected; what flies cannot, and is about to break.  So no SelfDestroy *)
(* ever removes a node the inventory points to.                               *)
FlagsAgree ==
  \A i \in Items :
    CASE Place(i) = "carried" -> i \in nodes /\ i \notin enabled /\ life[i] = None
      [] Place(i) = "floor"   -> i \in enabled /\ i \in pickups
      [] Place(i) = "thrown"  -> i \in enabled /\ i \notin pickups /\ life[i] > 0
      [] OTHER                -> life[i] # None /\ life[i] <= 0

(* The labels made for an earlier list are never taken for those of this one: *)
(* whatever has been collected and thrown since, [Tab] shows what is carried. *)
LabelsUpToDate == dirty \/ labels = items

(* Items and padlocks go the way ItemLife says: nothing is thrown twice or    *)
(* picked up in flight, no key is used up, and no padlock opens without one.  *)
Life == INSTANCE ItemLife WITH
          Throwable <- Throwables,
          Opens <- {fit \in Items \X Padlocks : Type[fit[1]] = Type[fit[2]]},
          place <- [i \in Items |-> Place(i)],
          locked <- padlocks
ImplementsItemLife == Life!Spec

(* A thrown item breaks, unless the level ends first.                         *)
ThrownBreaks == \A i \in Items : life[i] # None ~> i \notin nodes \/ ended
=============================================================================
