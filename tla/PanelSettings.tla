---------------------------- MODULE PanelSettings ---------------------------
(***************************************************************************)
(* Editing settings in the control panel: the settings file, the pins that *)
(* unlock editing, and the requests that read and rewrite both             *)
(* (algovoi_keystone_control.api and .store).                              *)
(*                                                                         *)
(* `put_settings` and `pin_submit` run on the event loop: from one await   *)
(* to the next no other of them runs.  `reset_settings` and `panel` run in *)
(* worker threads, which interleave with the loop and with each other at   *)
(* any point.  Every save loads or copies the whole table, and replaces    *)
(* the whole file.  A settings value is the number of the edit that wrote  *)
(* it.  Who may send a request at all is the subject of PanelSessions.     *)
(***************************************************************************)
EXTENDS Detection, TLC

CONSTANTS
    Request,      \* requests that can be under way at the same time
    Installed,    \* distributions that are there when the panel starts
    Installable,  \* distributions that pip installs and removes meanwhile
    EditedStep,   \* bound: the steps whose settings are edited
    PinMaxAge,    \* _PIN_COOKIE_MAX_AGE
    MaxTime,      \* bound: the clock stops here
    MaxEdits,     \* bound: settings values ever sent
    MaxPins,      \* bound: pins ever issued
    MaxFaults     \* bound: reads and writes that fail

ASSUME SettingsAssumption ==
    /\ IsFiniteSet(Request)
    /\ PinMaxAge \in Nat \ {0}
    /\ {MaxTime, MaxEdits, MaxPins, MaxFaults} \subseteq Nat

VARIABLES
    now,        \* the clock
    installed,  \* installed distributions
    file,       \* the settings file: settings by step
    pins,       \* _PINNED_SESSIONS: expiry by token
    pinFile,    \* the pins on disk
    req,        \* where each request is
    edits,      \* how many settings values have been sent
    faults,     \* how many reads and writes have failed
    granted,    \* history: every pin accepted, with the expiry it was given
    delivered,  \* history: the pins whose cookie was sent, until they are spoiled
    wanted,     \* history: what the saved updates amount to, until they are spoiled
    spoiled     \* history: the files that a race or a failure may have spoiled

vars == <<now, installed, file, pins, pinFile, req, edits, faults,
          granted, delivered, wanted, spoiled>>

history == <<granted, delivered, wanted>>

\* A table with one entry set.
With(table, key, value) ==
    [k \in DOMAIN table \cup {key} |-> IF k = key THEN value ELSE table[k]]

Idle == [at |-> "idle", loop |-> FALSE]
Goto(r, state) == req' = [req EXCEPT ![r] = state]

Init ==
    /\ now = 0
    /\ installed = Installed
    /\ file = << >> /\ pins = << >> /\ pinFile = << >>
    /\ req = [r \in Request |-> Idle]
    /\ edits = 0 /\ faults = 0
    /\ granted = << >> /\ delivered = {} /\ wanted = << >> /\ spoiled = {}

\* Fault: handlers on the loop interleave like threads.
NeverBusy == TRUE

\* No handler is on the event loop: those that are there await something.
LoopFree == \A r \in Request : req[r].loop => req[r].at \in {"body", "form"}

\* _find
Found(step) == \E row \in Detect(installed) : row.step = step

Tick ==
    /\ now < MaxTime
    /\ now' = now + 1
    /\ UNCHANGED <<installed, file, pins, pinFile, req, edits, faults, history, spoiled>>

\* pip install and pip uninstall, under the running panel
Pip(dist) ==
    /\ installed' = IF dist \in installed THEN installed \ {dist} ELSE installed \cup {dist}
    /\ UNCHANGED <<now, file, pins, pinFile, req, edits, faults, history, spoiled>>

-----------------------------------------------------------------------------
(* Pins *)

\* pin_submit: time.time() + _PIN_COOKIE_MAX_AGE
Expiry == now + PinMaxAge

Unexpired(t) == [k \in {x \in DOMAIN t : t[x] > now} |-> t[k]]

\* A save of the pins begins: the table it writes is the one it sees now.
\* One that overlaps with another may write an older table than is there.
PinsToSave(r, table, loop, then) ==
    /\ Goto(r, [at |-> "savingPins", copy |-> table, loop |-> loop, then |-> then])
    /\ spoiled' = IF \E q \in Request \ {r} : req[q].at = "savingPins"
                  THEN spoiled \cup {"pins"} ELSE spoiled

\* The first half of POST /pin, to the await of the form.
PinSubmit(r) ==
    /\ req[r] = Idle
    /\ LoopFree
    /\ Goto(r, [at |-> "form", loop |-> TRUE])
    /\ UNCHANGED <<now, installed, file, pins, pinFile, edits, faults, history, spoiled>>

\* Fault: the pin is saved before it is entered in the table.
PinAcceptedEarlySave(r) ==
    LET token == Cardinality(DOMAIN granted) + 1 IN
    /\ req[r].at = "form"
    /\ LoopFree
    /\ token <= MaxPins
    /\ pins' = With(pins, token, Expiry)
    /\ granted' = With(granted, token, Expiry)
    /\ PinsToSave(r, pins, TRUE, token)
    /\ UNCHANGED <<now, installed, file, pinFile, edits, faults, delivered, wanted>>

\* The form has a valid licence key: a new token, in memory and to disk.
\* (With any other key nothing changes: Leave.)
PinAccepted(r) ==
    LET token == Cardinality(DOMAIN granted) + 1 IN
    /\ req[r].at = "form"
    /\ LoopFree
    /\ token <= MaxPins
    /\ pins' = With(pins, token, Expiry)
    /\ granted' = With(granted, token, Expiry)
    /\ PinsToSave(r, pins', TRUE, token)
    /\ UNCHANGED <<now, installed, file, pinFile, edits, faults, delivered, wanted>>

\* What follows the save: the cookie is sent, or the request is refused.
AfterPins(r) ==
    /\ delivered' = IF "pins" \in spoiled' THEN {}
                    ELSE IF req[r].then # 0 THEN delivered \cup {req[r].then} ELSE delivered
    /\ Goto(r, Idle)

\* _save_pins: os.replace
PinsSaved(r) ==
    /\ req[r].at = "savingPins"
    /\ pinFile' = req[r].copy
    /\ UNCHANGED <<now, installed, file, pins, edits, faults, granted, wanted, spoiled>>
    /\ AfterPins(r)

\* _save_pins: an OSError is swallowed.
PinsNotSaved(r) ==
    /\ req[r].at = "savingPins"
    /\ faults < MaxFaults
    /\ faults' = faults + 1
    /\ spoiled' = spoiled \cup {"pins"}
    /\ AfterPins(r)
    /\ UNCHANGED <<now, installed, file, pins, pinFile, edits, granted, wanted>>

\* The table changed size under json.dump: the RuntimeError ends the request.
PinsTorn(r) ==
    /\ req[r].at = "savingPins"
    /\ Cardinality(DOMAIN pins) # Cardinality(DOMAIN req[r].copy)
    /\ spoiled' = spoiled \cup {"pins"}
    /\ Goto(r, Idle)
    /\ UNCHANGED <<now, installed, file, pins, pinFile, edits, faults, history>>

\* _is_pinned: the verdict for a token, with the pin gate on
IsPinned(token) == token \in DOMAIN pins /\ now < pins[token]

\* _is_pinned: an expired pin leaves the table, the table is saved, and the
\* request is refused (or, for the page, shown read-only).
PinExpires(r, token, loop) ==
    /\ req[r] = Idle
    /\ loop => LoopFree
    /\ token \in DOMAIN pins /\ now >= pins[token]
    /\ pins' = [k \in DOMAIN pins \ {token} |-> pins[k]]
    /\ PinsToSave(r, pins', loop, 0)
    /\ UNCHANGED <<now, installed, file, pinFile, edits, faults, history>>

-----------------------------------------------------------------------------
(* Settings *)

\* The first half of PUT: pinned, the step is there, and the body is awaited.
PutSettings(r, token, step) ==
    /\ req[r] = Idle
    /\ LoopFree
    /\ IsPinned(token)
    /\ Found(step)
    /\ Goto(r, [at |-> "body", loop |-> TRUE, step |-> step, entitled |-> now < granted[token]])
    /\ UNCHANGED <<now, installed, file, pins, pinFile, edits, faults, history, spoiled>>

\* DELETE, in a thread: pinned, and the step is there.
ResetSettings(r, token, step) ==
    /\ req[r] = Idle
    /\ IsPinned(token)
    /\ Found(step)
    /\ Goto(r, [at |-> "reset", loop |-> FALSE, step |-> step, entitled |-> now < granted[token]])
    /\ UNCHANGED <<now, installed, file, pins, pinFile, edits, faults, history, spoiled>>

\* SettingsStore._load: what a request read is what it will write back, with
\* its own step changed.  A reset that overlaps with another update spoils.
Load(r, read) ==
    LET q == req[r] IN
    /\ \/ q.at = "body" /\ LoopFree /\ edits < MaxEdits /\ edits' = edits + 1
       \/ q.at = "reset" /\ UNCHANGED edits
    /\ Goto(r, [at |-> "saving", loop |-> q.loop, step |-> q.step, entitled |-> q.entitled,
                value |-> edits', copy |-> read])
    /\ spoiled' = IF \/ read # file
                     \/ \E x \in Request \ {r} : req[x].at = "saving" /\ ~(req[x].loop /\ q.loop)
                  THEN spoiled \cup {"settings"} ELSE spoiled
    /\ UNCHANGED <<now, installed, file, pins, pinFile, history>>

Loaded(r) == 
    /\ req[r].at \in {"body", "reset"} 
    /\ Load(r, file) 
    /\ UNCHANGED faults

\* The file cannot be read: an empty store is taken instead.
LoadFails(r) ==
    /\ req[r].at \in {"body", "reset"}
    /\ faults < MaxFaults
    /\ faults' = faults + 1
    /\ Load(r, << >>)

\* put and reset: the request's own step, in a table
Updated(table, q) ==
    IF q.loop THEN With(table, q.step, q.value)
    ELSE [s \in DOMAIN table \ {q.step} |-> table[s]]

\* What the request asked for: its own step alone, on what was there.
AsAsked(q) ==
    IF "settings" \in spoiled THEN << >>
    ELSE [s \in (DOMAIN wanted \ {q.step}) \cup (IF q.loop THEN {q.step} ELSE {}) |->
            IF s = q.step THEN q.value ELSE wanted[s]]

\* SettingsStore._save: os.replace, and the answer
Saved(r) ==
    /\ req[r].at = "saving"
    /\ file' = Updated(req[r].copy, req[r])
    /\ wanted' = AsAsked(req[r])
    /\ Goto(r, Idle)
    /\ UNCHANGED <<now, installed, pins, pinFile, edits, faults, granted, delivered, spoiled>>

\* The write fails: the file stays, and the request ends with an error.
SaveFails(r) ==
    /\ req[r].at = "saving"
    /\ faults < MaxFaults
    /\ faults' = faults + 1
    /\ Goto(r, Idle)
    /\ UNCHANGED <<now, installed, file, pins, pinFile, edits, history, spoiled>>

\* The body or the form is refused, or never arrives.
Leave(r) ==
    /\ req[r].at \in {"body", "form"}
    /\ Goto(r, Idle)
    /\ UNCHANGED <<now, installed, file, pins, pinFile, edits, faults, history, spoiled>>

\* Fault: the panel starts with the pins of the file at their full age.
RestartRenewing ==
    /\ req' = [r \in Request |-> Idle]
    /\ pins' = [k \in DOMAIN pinFile |-> Expiry]
    /\ UNCHANGED <<now, installed, file, pinFile, edits, faults, history, spoiled>>

\* The panel stops at any point and starts again: _load_pins drops expired pins.
Restart ==
    /\ req' = [r \in Request |-> Idle]
    /\ pins' = Unexpired(pinFile)
    /\ UNCHANGED <<now, installed, file, pinFile, edits, faults, history, spoiled>>

\* The panel starts and the pin file cannot be read: _load_json takes it for an
\* empty one.  Nobody is pinned, and the next save erases what it holds.
RestartUnread ==
    /\ faults < MaxFaults
    /\ faults' = faults + 1
    /\ req' = [r \in Request |-> Idle]
    /\ pins' = << >>
    /\ delivered' = {} /\ spoiled' = spoiled \cup {"pins"}
    /\ UNCHANGED <<now, installed, file, pinFile, edits, granted, wanted>>

Next ==
    \/ Tick \/ Restart \/ RestartUnread
    \/ \E dist \in Installable : Pip(dist)
    \/ \E r \in Request :
        \/ PinSubmit(r) \/ PinAccepted(r) \/ PinsSaved(r) \/ PinsNotSaved(r) \/ PinsTorn(r)
        \/ Loaded(r) \/ LoadFails(r) \/ Saved(r) \/ SaveFails(r) \/ Leave(r)
        \/ \E token \in DOMAIN granted :
            \/ \E loop \in BOOLEAN : PinExpires(r, token, loop)
            \/ \E step \in EditedStep : PutSettings(r, token, step) \/ ResetSettings(r, token, step)

Spec == Init /\ [][Next]_vars

-----------------------------------------------------------------------------
(* Properties *)

\* The settings file holds what the saved updates amount to, every step its
\* last one, through any number of edits, resets, failed writes and restarts.
\* Only a reset that overlaps with another update, or a read that failed, can
\* make it lose an update of another step: edits alone never do, although
\* each rewrites the whole file.
SettingsKept == "settings" \notin spoiled => file = wanted

\* A pin whose cookie was sent stays on disk, with the expiry it was given,
\* until it expires, so a restart does not lock its holder out: unless a save
\* failed, a worker thread pruned an expired pin at the same time, or the file
\* could not be read at a start.
PinsKept ==
    "pins" \notin spoiled =>
        \A token \in delivered :
            granted[token] > now => token \in DOMAIN pinFile /\ pinFile[token] = granted[token]

\* A request that is on its way to change settings was let through with a pin
\* that was accepted once and had not reached the expiry it was given then,
\* across restarts and whatever older tables were written to the disk.
EditsArePinned ==
    \A r \in Request :
        req[r].at \in {"body", "reset", "saving"} => req[r].entitled

\* Whatever pip installs and removes: one step a slot, no slot taken from an
\* installed edition, and one list on the page as long as no bolt-on stands in
\* the place of a catalogue step.  That none does is not said, and not so.
SlotsAgree ==
    LET detected == Detect(installed)
    IN  SlotsDistinct(installed, detected) /\ ListsAgree(detected, AllKnown(installed))
=============================================================================
