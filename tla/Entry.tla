-------------------------------- MODULE Entry --------------------------------
(***************************************************************************)
(* One config entry, from its setup to its removal (__init__.py, keeper.py *)
(* and the listeners of coordinator.py): what Home Assistant calls while   *)
(* it is set up, what its entities were told last and show (entity.py),    *)
(* and the notice about presets, which outlives the setup.                 *)
(*                                                                         *)
(* Of the link only what the lamp's reach goes by is here, and which steps *)
(* of it tell the listeners; whose client is whose is Link's.  There is    *)
(* one keeper and one coordinator at a time: a command that outlives an    *)
(* unload has no listener left to tell, nothing to say of the reach and no *)
(* keeper to describe the lamp to, so those of earlier ones are left out.  *)
(*                                                                         *)
(* One setting of the lamp stands for all that is shown.                   *)
(***************************************************************************)
EXTENDS Naturals, FiniteSets

CONSTANTS
    Entity,
    Setting,    \* the entities that remember (GlowriumSettingEntity)
    Modal,      \* the entities that are for one operating mode
    Command,    \* the commands that may be in flight at once
    Value,      \* what the setting may be
    Model,      \* model ids
    None,       \* Python's None
    Unusable    \* protocol.UNUSABLE

Watcher == {"adverts", "gone", "clock"}

\* What the setup has called back by Home Assistant: the keeper's watchers, and
\* the listener for its stop.
Callback == Watcher \cup {"stop"}

\* What an entity shows that shows no value.  One that is not there is absent.
NoValue == {"absent", "unavailable", "unknown"}

ASSUME EntryAssumption == /\ Setting \subseteq Entity
                          /\ Modal \subseteq Entity
                          /\ None \notin Value \cup Model
                          /\ Unusable \notin Value \cup {None}
                          /\ Value \cap NoValue = {}

VARIABLES
    home,        \* Home Assistant: "up" or "stopping"
    phase,       \* of the entry: "out", "up", "leaving" or "removed"
    ceased,      \* EntryKeeper._ceased, and Link._stopped
    begun,       \* EntryKeeper._watchers
    registered,  \* how many of each callback Home Assistant has
    twice,       \* history: whether one was taken off that was not there
    present,     \* Link._present
    held,        \* Link.client: "none", "up", or "down" before anybody noticed
    task,        \* of each command, as far as the reach goes (see Pending)
    logged,      \* Link._logged_in_reach
    mirror,      \* the setting as the coordinator reads it
    allows,      \* mode_allows, for the modal entities
    spoken,      \* history: the values the lamp reported or acknowledged
    listeners,   \* GlowriumCoordinator._listeners
    failing,     \* GlowriumCoordinator._listeners_failing
    shown,       \* of each entity: its state in Home Assistant
    restored,    \* GlowriumSettingEntity._restored
    stored,      \* what Home Assistant keeps of its state, until it is added next
    data,        \* the model id in the entry's data
    profiled,    \* the models that have a profile in the version that runs
    notice       \* the repair about presets: whether it is up, and ignored

setup   == <<home, phase>>
watched == <<ceased, begun, registered, twice>>
link    == <<present, held, task>>
seen    == <<mirror, allows, spoken>>
told    == <<listeners, failing, shown, logged, stored>>
presets == <<data, profiled, notice>>
vars    == <<setup, watched, link, seen, told, restored, presets>>

TypeOK ==
    /\ home       \in {"up", "stopping"}
    /\ phase      \in {"out", "up", "leaving", "removed"}
    /\ ceased     \in BOOLEAN
    /\ begun      \subseteq Watcher
    /\ registered \in [Callback -> 0..1]
    /\ twice      \in BOOLEAN
    /\ present    \in BOOLEAN
    /\ held       \in {"none", "up", "down"}
    /\ task       \in [Command -> {"none", "writing", "again", "unsure"}]
    /\ logged     \in BOOLEAN
    /\ mirror     \in Value \cup {None, Unusable}
    /\ allows     \in BOOLEAN
    /\ spoken     \subseteq Value
    /\ listeners  \subseteq Entity
    /\ failing    \subseteq listeners
    /\ shown      \in [Entity -> Value \cup NoValue]
    /\ restored   \in [Entity -> Value \cup {None}]
    /\ stored     \in [Entity -> Value \cup {None}]
    /\ data       \in Model \cup {None}
    /\ profiled   \subseteq Model
    /\ notice     \in [up : BOOLEAN, ignored : BOOLEAN]

NoNotice == [up |-> FALSE, ignored |-> FALSE]

Nobody == [e \in Entity |-> "absent"]
Idle   == [k \in Command |-> "none"]

Init ==
    /\ home = "up" /\ phase = "out"
    /\ ceased = TRUE /\ begun = {} /\ twice = FALSE
    /\ registered = [w \in Callback |-> 0]
    /\ present = FALSE /\ held = "none" /\ task = Idle /\ logged = TRUE
    /\ mirror = None /\ allows = TRUE /\ spoken = {}
    /\ listeners = {} /\ failing = {} /\ shown = Nobody
    /\ restored = [e \in Entity |-> None]
    /\ stored   = [e \in Entity |-> None]
    /\ data = None /\ profiled \in SUBSET Model /\ notice = NoNotice

-----------------------------------------------------------------------------
(* What is shown, and who is told. *)

Live    == phase \in {"up", "leaving"}
InReach == present \/ held = "up"

\* What e shows when it is asked: nothing it could not be set to now; what was
\* read; what it remembers while nothing was; nothing for what cannot be used.
Shows(e) ==
    IF ~ InReach \/ (e \in Modal /\ ~ allows) THEN "unavailable"
    ELSE IF mirror \in Value THEN mirror
    ELSE IF mirror = None /\ restored[e] # None THEN restored[e]
    ELSE "unknown"

\* What is kept of a state x of e for its next start.
Kept(e, x) == IF e \in Setting /\ x \in Value THEN x ELSE None

\* Slip: a listener that raises is remembered, whether or not it is one still.
FailedAndGone(R, G) == (failing \ (listeners \ R)) \cup R

\* Who has failed after a round in which R raised, and G had left before their
\* turn: nobody is remembered who is gone, and who managed is news again.
Failed(R, G) == ((failing \ (listeners \ R)) \cup R) \ G

\* log_reach, wherever the listeners are told.
Logs == logged' = IF ceased' THEN logged ELSE InReach'

\* _async_notify_listeners.  Any of them may raise, and then shows what it showed
\* before; while the platforms are unloaded, one may leave as others are told.
Round ==
    /\ Logs
    /\ \E R \in SUBSET listeners, G \in SUBSET listeners :
          /\ phase # "leaving" => G = {}
          /\ listeners' = listeners \ G
          /\ failing'   = Failed(R, G)
          /\ shown'     = [e \in Entity |-> IF e \in G THEN "absent"
                                            ELSE IF e \in listeners \ R THEN Shows(e)'
                                            ELSE shown[e]]
          /\ stored'    = [e \in Entity |-> IF e \in G THEN Kept(e, shown[e])
                                            ELSE stored[e]]

-----------------------------------------------------------------------------
(* Setup and its end. *)

\* The notice as _review_presets_notice leaves it, the entry's model being m:
\* raised over itself, which leaves it ignored.
Reviewed(m) ==
    IF m = None THEN notice
    ELSE IF m \in profiled THEN NoNotice
    ELSE [notice EXCEPT !.up = TRUE]

\* Callbacks B are taken off.
Off(B) ==
    /\ registered' = [w \in Callback |-> IF w \in B /\ registered[w] > 0
                                         THEN registered[w] - 1 ELSE registered[w]]
    /\ twice' = (twice \/ \E w \in B : registered[w] = 0)

\* A coordinator as it is built: nothing is known of the lamp but whether it is
\* advertising, and it is said to be in reach until that is looked at.
Fresh(p) ==
    /\ present' = p /\ held' = "none" /\ task' = Idle
    /\ mirror' = None /\ allows' = TRUE

\* async_setup_entry, as far as the platforms.
SetUp ==
    /\ home = "up" /\ phase = "out"
    /\ phase' = "up" /\ ceased' = FALSE
    /\ begun' = Watcher
    /\ registered' = [w \in Callback |-> registered[w] + 1]
    /\ \E p \in BOOLEAN : Fresh(p) /\ logged' = p
    /\ notice' = Reviewed(data)
    /\ UNCHANGED <<home, twice, spoken, listeners, failing, shown, stored, restored,
                   data, profiled>>

\* Slip: the watchers are handed to the keeper when all of them were begun.
KeptAtTheEnd(B) == IF B = Watcher THEN B ELSE {}

\* What of the watchers B that were begun the keeper can end.
KeptOf(B) == B

\* The first, the second or the third watcher cannot be begun: the setup fails,
\* and the callbacks that were registered with the entry before it was started
\* take the rest back.
SetUpFails ==
    /\ home = "up" /\ phase = "out"
    /\ \E B \in {{}, {"adverts"}, {"adverts", "gone"}} :
          registered' = [w \in Callback |-> registered[w] + IF w \in B \ KeptOf(B)
                                                            THEN 1 ELSE 0]
    /\ notice' = Reviewed(data)
    /\ UNCHANGED <<setup, ceased, begun, twice, link, seen, told, restored, data, profiled>>

\* An entity is added: it subscribes, finds what is remembered of it and shows
\* how things stand (async_added_to_hass).
Added(e) ==
    /\ phase = "up" /\ home = "up"
    /\ shown[e] = "absent"
    /\ listeners' = listeners \cup {e}
    /\ restored' = [restored EXCEPT ![e] = stored[e]]
    /\ UNCHANGED <<setup, watched, link, seen, failing, logged, stored, presets>>
    /\ shown' = [shown EXCEPT ![e] = Shows(e)']

\* async_unload_entry, of an entry whose entities are there; then each goes, and
\* its state is kept.
Leaves ==
    /\ phase = "up"
    /\ \A e \in Entity : shown[e] # "absent"
    /\ phase' = "leaving"
    /\ UNCHANGED <<home, watched, link, seen, told, restored, presets>>

Removed(e) ==
    /\ phase = "leaving"
    /\ e \in listeners
    /\ listeners' = listeners \ {e}
    /\ failing'   = failing \ {e}
    /\ shown'     = [shown  EXCEPT ![e] = "absent"]
    /\ stored'    = [stored EXCEPT ![e] = Kept(e, shown[e])]
    /\ UNCHANGED <<setup, watched, link, seen, logged, restored, presets>>

\* Slip: unwatch takes the notice down, as it does the repair for the stack.
CeasesAndClears(B) ==
    /\ ceased' = TRUE
    /\ begun' = {}
    /\ Off(begun \cup B)
    /\ notice' = NoNotice

\* _async_stop_watching: every watcher is ended, once, and with them B.
Ceases(B) ==
    /\ ceased' = TRUE
    /\ begun' = {}
    /\ Off(begun \cup B)
    /\ UNCHANGED notice

\* The entry's callbacks: the listener for the stop is dropped, and async_stop.
Unloaded ==
    /\ phase = "leaving"
    /\ listeners = {}
    /\ phase' = "out"
    /\ Ceases({"stop"})
    /\ Fresh(FALSE) /\ logged' = TRUE
    /\ restored' = [e \in Entity |-> None]
    /\ UNCHANGED <<home, spoken, listeners, failing, shown, stored, data, profiled>>

\* Home Assistant stops, which unloads no entry: async_shutdown, which lets go of
\* the link and says nothing.
Stops ==
    /\ home = "up"
    /\ home' = "stopping"
    /\ IF Live THEN Ceases({}) /\ held' = "none"
               ELSE UNCHANGED <<ceased, begun, registered, twice, notice, held>>
    /\ UNCHANGED <<phase, present, task, seen, told, restored, data, profiled>>

\* And starts again, perhaps with a version that knows more models.  What it keeps
\* is the entry, the states, and of the notice that it is ignored.
Restarts ==
    /\ home = "stopping"
    /\ home' = "up"
    /\ phase' = IF phase = "removed" THEN phase ELSE "out"
    /\ ceased' = TRUE /\ begun' = {}
    /\ registered' = [w \in Callback |-> 0]
    /\ Fresh(FALSE) /\ logged' = TRUE
    /\ listeners' = {} /\ failing' = {} /\ shown' = Nobody
    /\ stored' = [e \in Entity |-> IF shown[e] = "absent" THEN stored[e]
                                   ELSE Kept(e, shown[e])]
    /\ restored' = [e \in Entity |-> None]
    /\ notice' = [notice EXCEPT !.up = FALSE]
    /\ \E P \in SUBSET Model : profiled \subseteq P /\ profiled' = P
    /\ UNCHANGED <<twice, spoken, data>>

\* async_remove_entry, of an entry that has been unloaded.
RemovesEntry ==
    /\ phase = "out"
    /\ phase' = "removed"
    /\ notice' = NoNotice
    /\ UNCHANGED <<home, watched, link, seen, told, restored, data, profiled>>

-----------------------------------------------------------------------------
(* The notice. *)

\* Slip: what is learnt of the model is said at the next start only.
DescribedUnsaid(m) ==
    /\ Live
    /\ held = "up" \/ ceased
    /\ data' = IF m = None THEN data ELSE m
    /\ UNCHANGED <<setup, watched, link, seen, told, restored, profiled, notice>>

\* lamp_described: the device info was read, with a model id or without.  A stop
\* of Home Assistant ends no exchange, and what it reads is kept and not said.
LampDescribed(m) ==
    /\ Live
    /\ held = "up" \/ ceased
    /\ data' = IF m = None THEN data ELSE m
    /\ notice' = IF ceased THEN notice ELSE Reviewed(data')
    /\ UNCHANGED <<setup, watched, link, seen, told, restored, profiled>>

\* Its owner does not want to see it again.
Ignores ==
    /\ notice.up
    /\ notice' = [notice EXCEPT !.ignored = TRUE]
    /\ UNCHANGED <<setup, watched, link, seen, told, restored, data, profiled>>

-----------------------------------------------------------------------------
(* The lamp, and the link. *)

\* What is advertised reaches the link while the watcher is there.
Heard(w) == Live /\ registered[w] > 0

\* advertising(True): told where it is news.
Advertises ==
    /\ Heard("adverts")
    /\ present' = TRUE
    /\ UNCHANGED <<setup, watched, held, task, seen, restored, presets>>
    /\ IF present THEN UNCHANGED told
       ELSE Round

\* advertising(False).
FallsSilent ==
    /\ Heard("gone")
    /\ present' = FALSE
    /\ UNCHANGED <<setup, watched, held, task, seen, restored, presets>>
    /\ Round

LockFree == \A k \in Command : task[k] \notin {"writing", "again"}

Goes(k, t) == task' = [task EXCEPT ![k] = t]

\* open: a client is taken, which may be down already; nobody else has told then.
Takes ==
    /\ held' \in {"up", "down"}
    /\ Round

\* A background connect.
Connects ==
    /\ Live /\ ~ ceased
    /\ LockFree /\ held # "up"
    /\ UNCHANGED <<setup, watched, present, task, seen, restored, presets>>
    /\ Takes

\* _drop: the link is lost, answers nothing, or is silent for too long.
Drops ==
    /\ Live /\ held # "none"
    /\ held' = "none"
    /\ UNCHANGED <<setup, watched, present, task, seen, restored, presets>>
    /\ Round

\* A frame of the lamp, on the link, on one that is being let go of, or on one that
\* is still subscribed on.
Reports ==
    /\ Live
    /\ mirror' \in Value \cup {Unusable}
    /\ allows' \in BOOLEAN
    /\ spoken' = spoken \cup ({mirror'} \cap Value)
    /\ UNCHANGED <<setup, watched, link, restored, presets>>
    /\ Round

\* Told with nothing new: the first exchange was made, a command was refused.
News ==
    /\ Live
    /\ UNCHANGED <<setup, watched, link, seen, restored, presets>>
    /\ Round

\* A command is put to the link that is held.
Writes(k) ==
    /\ Live /\ LockFree
    /\ task[k] = "none" /\ held = "up"
    /\ Goes(k, "writing")
    /\ UNCHANGED <<setup, watched, present, held, seen, told, restored, presets>>

\* It dials, first or once more, which a link that was stopped refuses.
Dials(k) ==
    /\ Live /\ ~ ceased
    /\ held # "up"
    /\ task[k] = "again" \/ (task[k] = "none" /\ LockFree)
    /\ Goes(k, "writing")
    /\ UNCHANGED <<setup, watched, present, seen, restored, presets>>
    /\ Takes

\* The write is acknowledged and echoed; _async_write tells at its end.
Acked(k) ==
    /\ Live
    /\ task[k] = "writing" /\ held = "up"
    /\ \E v \in Value : mirror' = v /\ spoken' = spoken \cup {v}
    /\ Goes(k, "none")
    /\ UNCHANGED <<setup, watched, present, held, allows, restored, presets>>
    /\ Round

\* The first write fails: its client is let go of and nobody is told, the command
\* being about to dial again.
FailsOnce(k) ==
    /\ Live
    /\ task[k] = "writing"
    /\ held' = "none"
    /\ Goes(k, "again")
    /\ UNCHANGED <<setup, watched, present, seen, told, restored, presets>>

\* It failed for the last time, or time is up: its client is no longer held, and
\* stays up for the command to be vouched for.
Fails(k) ==
    /\ Live
    /\ task[k] \in {"writing", "again"}
    /\ held' = "none"
    /\ Goes(k, "unsure")
    /\ UNCHANGED <<setup, watched, present, seen, told, restored, presets>>

\* Slip: a command that failed has nothing to tell the listeners.
EndsUntold(k) ==
    /\ Live
    /\ task[k] # "none"
    /\ Goes(k, "none")
    /\ UNCHANGED <<setup, watched, present, held, seen, told, restored, presets>>

\* It is vouched for, has failed, or is cancelled: _drop tells where it has a
\* client to let go of, and _async_write does whatever came of it.
Ends(k) ==
    /\ Live
    /\ task[k] # "none"
    /\ Goes(k, "none")
    /\ UNCHANGED <<setup, watched, present, held, seen, restored, presets>>
    /\ Round

-----------------------------------------------------------------------------
Lifetime ==
    \/ SetUp \/ SetUpFails \/ Leaves \/ Unloaded
    \/ Stops \/ Restarts \/ RemovesEntry
    \/ \E e \in Entity : Added(e) \/ Removed(e)

Lamp ==
    \/ Advertises \/ FallsSilent \/ Connects \/ Drops \/ Reports \/ News
    \/ \E k \in Command :
          Writes(k) \/ Dials(k) \/ Acked(k) \/ FailsOnce(k) \/ Fails(k) \/ Ends(k)

Next ==
    \/ Lifetime
    \/ Lamp
    \/ Ignores
    \/ \E m \in Model \cup {None} : LampDescribed(m)

Spec == Init /\ [][Next]_vars

-----------------------------------------------------------------------------
(* What must hold. *)

\* A command has let go of its link and told nobody yet: it dials again, or is
\* listened for.
Pending == \E k \in Command : task[k] \in {"again", "unsure"}

\* An entity of a watched lamp that did not raise when it was told last shows how
\* things stand: unavailable exactly out of reach or in another mode, the lamp's
\* word where there is one, and a value that was remembered only where there is
\* none.  Only while a command is about to dial again, or to be vouched for, may
\* that wait for its end.  And the log says the same of the reach.
ShownIsTrue ==
    Live /\ ~ ceased /\ ~ Pending =>
        /\ logged = InReach
        /\ \A e \in listeners \ failing :
              /\ shown[e] = "unavailable" <=> ~ InReach \/ (e \in Modal /\ ~ allows)
              /\ shown[e] \in Value => shown[e] \in spoken /\ mirror \in {None, shown[e]}
              /\ mirror \in Value => shown[e] \in {mirror, "unavailable"}

\* What Home Assistant calls is what the running setup needs, each once, and none
\* is taken off twice: whatever the setup failed at, whichever way it ended.
NothingOutlives ==
    /\ \A w \in Watcher : registered[w] = IF Live /\ ~ ceased THEN 1 ELSE 0
    /\ registered["stop"] = IF Live THEN 1 ELSE 0
    /\ ~ twice

\* The notice is up exactly for a model that is known and has no profile, while
\* the lamp is watched; and it is gone with the entry.
NoticeIsTrue ==
    /\ Live /\ ~ ceased => (notice.up <=> data # None /\ data \notin profiled)
    /\ phase = "removed" => notice = NoNotice

\* What its owner ignored stays ignored over reloads and restarts, and a notice
\* that is up stays up until the model has a profile, the entry goes or Home
\* Assistant does ("one that is deleted and raised afresh comes back as new").
NoticeStands ==
    [][/\ notice.ignored /\ ~ notice'.ignored => data' \in profiled \/ phase' = "removed"
       /\ notice.up /\ ~ notice'.up => \/ data' \in profiled
                                       \/ phase' = "removed"
                                       \/ home = "stopping" /\ home' = "up"]_vars
=============================================================================
