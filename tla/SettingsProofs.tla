--------------------------- MODULE SettingsProofs ---------------------------
(***************************************************************************)
(* Proofs about PanelSettings, for any requests, packages and bounds: what *)
(* the pins let through, what the pin file keeps, what the settings file   *)
(* keeps, and which steps the panel lists.                                 *)
(***************************************************************************)
EXTENDS PanelSettings, TLAPS, FiniteSetTheorems, SequenceTheorems

\* One request moves, and the others stay where they are.
LEMMA GotoMoves ==
    ASSUME DOMAIN req = Request, NEW r \in Request, NEW state, Goto(r, state)
    PROVE  /\ DOMAIN req' = Request
           /\ req'[r] = state
           /\ \A q \in Request : q # r => req'[q] = req[q]
BY DEF Goto

\* The next token has not been granted.
LEMMA TokenIsNew ==
    ASSUME NEW n \in Nat, DOMAIN granted = 1 .. n
    PROVE  Cardinality(DOMAIN granted) + 1 = n + 1
<1>1. Cardinality(1 .. n) = n
  BY FS_Interval
<1> QED
  BY <1>1

-----------------------------------------------------------------------------
(* What a pin lets through *)

\* Every entry of a table of pins is as it was granted.
Genuine(table) ==
    \A token \in DOMAIN table : token \in DOMAIN granted /\ table[token] = granted[token]

PinInv ==
    /\ DOMAIN req = Request
    /\ \E n \in Nat : DOMAIN granted = 1 .. n
    /\ Genuine(pins) /\ Genuine(pinFile)
    /\ \A r \in Request : req[r].at = "savingPins" => Genuine(req[r].copy)
    /\ EditsArePinned

LEMMA PinsAtFirst == Init => PinInv
<1> SUFFICES ASSUME Init PROVE PinInv
  OBVIOUS
<1>1. DOMAIN granted = 1 .. 0
  BY DEF Init
<1> QED
  BY <1>1 DEF Init, PinInv, Genuine, EditsArePinned, Idle

\* Steps that leave the pins alone and do not start to save them.
LEMMA PinFrame ==
    ASSUME PinInv, NEW r \in Request, NEW state, Goto(r, state),
           UNCHANGED <<pins, granted>>,
           pinFile' = pinFile \/ (req[r].at = "savingPins" /\ pinFile' = req[r].copy),
           state.at # "savingPins",
           state.at \in {"body", "reset", "saving"} => state.entitled
    PROVE  PinInv'
<1>1. /\ DOMAIN req' = Request
      /\ req'[r] = state
      /\ \A q \in Request : q # r => req'[q] = req[q]
  BY GotoMoves DEF PinInv
<1>2. Genuine(pins)' /\ Genuine(pinFile)'
  BY DEF PinInv, Genuine
<1>3. ASSUME NEW q \in Request, req'[q].at = "savingPins" PROVE Genuine(req[q].copy)'
  <2>1. req'[q] = req[q]
    BY <1>1, <1>3
  <2> QED
    BY <1>3, <2>1 DEF PinInv, Genuine
<1>4. ASSUME NEW q \in Request, req'[q].at \in {"body", "reset", "saving"} PROVE req'[q].entitled
  <2>1. CASE q = r
    BY <1>1, <1>4, <2>1
  <2>2. CASE q # r
    BY <1>1, <1>4, <2>2 DEF PinInv, EditsArePinned
  <2> QED
    BY <2>1, <2>2
<1> QED
  BY <1>1, <1>2, <1>3, <1>4 DEF PinInv, EditsArePinned

\* Steps that start to save a table of pins that is genuine.
LEMMA PinSaveStarts ==
    ASSUME PinInv, NEW r \in Request, NEW then, NEW loop,
           NEW table, table = pins', PinsToSave(r, table, loop, then),
           UNCHANGED pinFile,
           \E n \in Nat : DOMAIN granted' = 1 .. n,
           \A token \in DOMAIN granted : token \in DOMAIN granted' /\ granted'[token] = granted[token],
           Genuine(pins)'
    PROVE  PinInv'
<1> DEFINE state == [at |-> "savingPins", copy |-> table, loop |-> loop, then |-> then]
<1>1. /\ DOMAIN req' = Request
      /\ req'[r] = state
      /\ \A q \in Request : q # r => req'[q] = req[q]
  BY GotoMoves DEF PinInv, PinsToSave
<1>2. req'[r].at = "savingPins" /\ req'[r].copy = table
  BY <1>1
<1> HIDE DEF state
<1>3. Genuine(pinFile)'
  BY DEF PinInv, Genuine
<1>4. ASSUME NEW q \in Request, req'[q].at = "savingPins" PROVE Genuine(req[q].copy)'
  <2>1. CASE q = r
    BY <1>2, <2>1 DEF Genuine
  <2>2. CASE q # r
    <3>1. req'[q] = req[q]
      BY <1>1, <2>2
    <3>2. Genuine(req[q].copy)
      BY <1>4, <3>1 DEF PinInv
    <3> QED
      BY <3>1, <3>2 DEF Genuine
  <2> QED
    BY <2>1, <2>2
<1>5. ASSUME NEW q \in Request, req'[q].at \in {"body", "reset", "saving"} PROVE req'[q].entitled
  <2>1. q # r
    BY <1>2, <1>5
  <2> QED
    BY <1>1, <1>5, <2>1 DEF PinInv, EditsArePinned
<1> QED
  BY <1>1, <1>3, <1>4, <1>5 DEF PinInv, EditsArePinned

LEMMA PinsKeptGenuine == PinInv /\ [Next]_vars => PinInv'
<1> SUFFICES ASSUME PinInv, [Next]_vars PROVE PinInv'
  OBVIOUS
<1>1. CASE UNCHANGED vars
  BY <1>1 DEF vars, PinInv, Genuine, EditsArePinned
<1>2. CASE Tick
  BY <1>2 DEF Tick, history, PinInv, Genuine, EditsArePinned
<1>3. CASE Restart
  BY <1>3 DEF Restart, history, Unexpired, Idle, PinInv, Genuine, EditsArePinned
<1>11. CASE RestartUnread
  BY <1>11 DEF RestartUnread, Idle, PinInv, Genuine, EditsArePinned
<1>4. ASSUME NEW dist \in Installable, Pip(dist) PROVE PinInv'
  BY <1>4 DEF Pip, history, PinInv, Genuine, EditsArePinned
<1>5. ASSUME NEW r \in Request, PinAccepted(r) PROVE PinInv'
  <2> DEFINE token == Cardinality(DOMAIN granted) + 1
  <2>1. PICK n \in Nat : DOMAIN granted = 1 .. n
    BY DEF PinInv
  <2>2. token = n + 1
    BY <2>1, TokenIsNew
  <2>3. /\ pins' = With(pins, token, Expiry)
        /\ granted' = With(granted, token, Expiry)
        /\ PinsToSave(r, pins', TRUE, token)
        /\ UNCHANGED pinFile
    BY <1>5 DEF PinAccepted
  <2> HIDE DEF token
  <2>4. DOMAIN granted' = 1 .. n + 1
    <3>1. DOMAIN granted' = {token} \cup DOMAIN granted
      BY <2>3 DEF With
    <3> QED
      BY <2>1, <2>2, <3>1
  <2>5. \A k \in DOMAIN granted : k \in DOMAIN granted' /\ granted'[k] = granted[k]
    <3>1. token \notin DOMAIN granted
      BY <2>1, <2>2
    <3> QED
      BY <2>3, <3>1 DEF With
  <2>6. Genuine(pins)'
    <3>1. DOMAIN pins' = {token} \cup DOMAIN pins /\ pins'[token] = Expiry
      BY <2>3 DEF With
    <3>2. token \in DOMAIN granted' /\ granted'[token] = Expiry
      BY <2>3 DEF With
    <3>3. \A k \in DOMAIN pins : k # token => pins'[k] = pins[k]
      BY <2>3 DEF With
    <3> QED
      BY <2>5, <3>1, <3>2, <3>3 DEF PinInv, Genuine
  <2>7. n + 1 \in Nat
    OBVIOUS
  <2> QED
    BY <2>3, <2>4, <2>5, <2>6, <2>7, PinSaveStarts
<1>6. ASSUME NEW r \in Request, NEW token, NEW loop, PinExpires(r, token, loop) PROVE PinInv'
  <2>1. /\ pins' = [k \in DOMAIN pins \ {token} |-> pins[k]]
        /\ PinsToSave(r, pins', loop, 0)
        /\ UNCHANGED <<pinFile, granted>>
    BY <1>6 DEF PinExpires, history
  <2>2. Genuine(pins)'
    BY <2>1 DEF PinInv, Genuine
  <2>3. \E n \in Nat : DOMAIN granted' = 1 .. n
    BY <2>1 DEF PinInv
  <2> QED
    BY <2>1, <2>2, <2>3, PinSaveStarts
<1>7. ASSUME NEW r \in Request, PinsSaved(r) \/ PinsNotSaved(r) \/ PinsTorn(r) PROVE PinInv'
  BY <1>7, PinFrame DEF PinsSaved, PinsNotSaved, PinsTorn, AfterPins, Idle, history
<1>8. ASSUME NEW r \in Request, PinSubmit(r) \/ Leave(r) \/ Saved(r) \/ SaveFails(r) PROVE PinInv'
  BY <1>8, PinFrame DEF PinSubmit, Leave, Saved, SaveFails, Idle, history
<1>9. ASSUME NEW r \in Request, Loaded(r) \/ LoadFails(r) PROVE PinInv'
  <2>1. PICK table : Load(r, table)
    BY <1>9 DEF Loaded, LoadFails
  <2>2. req[r].entitled
    BY <1>9 DEF Loaded, LoadFails, PinInv, EditsArePinned
  <2> QED
    BY <2>1, <2>2, PinFrame DEF Load, history
<1>10. ASSUME NEW r \in Request, NEW token, NEW step, PutSettings(r, token, step) \/ ResetSettings(r, token, step)
       PROVE  PinInv'
  <2>1. now < granted[token]
    BY <1>10 DEF PutSettings, ResetSettings, IsPinned, PinInv, Genuine
  <2> QED
    BY <1>10, <2>1, PinFrame DEF PutSettings, ResetSettings, history
<1> QED
  BY <1>1, <1>2, <1>3, <1>4, <1>5, <1>6, <1>7, <1>8, <1>9, <1>10, <1>11 DEF Next

\* Whatever older tables were written late and however often the panel was
\* restarted: a request that changes settings had a pin that was accepted
\* once and had not reached the expiry it was given then.
THEOREM EditsAlwaysPinned == Spec => []EditsArePinned
<1>1. PinInv => EditsArePinned
  BY DEF PinInv
<1> QED
  BY <1>1, PinsAtFirst, PinsKeptGenuine, PTL DEF Spec

-----------------------------------------------------------------------------
(* What the pin file keeps *)

Clock == now \in Nat /\ \A token \in DOMAIN granted : granted[token] \in Nat

SavesPins(r) == req[r].at = "savingPins"

\* No save of the pins was overtaken and none failed: the table that is being
\* saved is the one in memory, and it holds every pin that was delivered.
OrderlyPins ==
    /\ \A q, r \in Request : SavesPins(q) /\ SavesPins(r) => q = r
    /\ \A r \in Request : SavesPins(r) =>
        /\ DOMAIN req[r].copy = DOMAIN pins
        /\ req[r].then # 0 => req[r].then \in DOMAIN pins
    /\ \A token \in delivered :
        granted[token] > now => token \in DOMAIN pins /\ token \in DOMAIN pinFile

PinsKeptInv ==
    /\ PinInv
    /\ Clock
    /\ delivered \subseteq DOMAIN granted
    /\ "pins" \notin spoiled => OrderlyPins

LEMMA PinsKeptAtFirst == Init => PinsKeptInv
<1> SUFFICES ASSUME Init PROVE PinsKeptInv
  OBVIOUS
<1>1. \A r \in Request : ~SavesPins(r)
  BY DEF Init, SavesPins, Idle
<1> QED
  BY <1>1, PinsAtFirst DEF Init, PinsKeptInv, Clock, OrderlyPins

\* Steps that do not touch the pins, their file, or a save of them.
LEMMA PinsUntouched ==
    ASSUME PinsKeptInv, PinInv',
           UNCHANGED <<now, pins, pinFile, granted, delivered>>,
           "pins" \notin spoiled' => "pins" \notin spoiled,
           \A r \in Request : SavesPins(r)' => SavesPins(r) /\ req'[r] = req[r]
    PROVE  PinsKeptInv'
<1>1. OrderlyPins => OrderlyPins'
  BY DEF OrderlyPins, SavesPins
<1> QED
  BY <1>1 DEF PinsKeptInv, Clock

LEMMA OneMoves ==
    ASSUME PinsKeptInv, PinInv',
           UNCHANGED <<now, pins, pinFile, granted, delivered>>,
           "pins" \notin spoiled' => "pins" \notin spoiled,
           NEW r \in Request, NEW state, Goto(r, state), state.at # "savingPins"
    PROVE  PinsKeptInv'
<1>1. /\ req'[r] = state
      /\ \A q \in Request : q # r => req'[q] = req[q]
  BY GotoMoves DEF PinsKeptInv, PinInv
<1>2. ASSUME NEW q \in Request, SavesPins(q)' PROVE SavesPins(q) /\ req'[q] = req[q]
  BY <1>1, <1>2 DEF SavesPins
<1> QED
  BY <1>2, PinsUntouched

\* A save begins: of a table without a pin that would have to be kept.
LEMMA OrderlySave ==
    ASSUME PinsKeptInv, PinInv', Clock', NEW r \in Request, NEW then, NEW loop,
           NEW table, table = pins', PinsToSave(r, table, loop, then),
           UNCHANGED <<now, pinFile, delivered>>,
           \A token \in DOMAIN granted : token \in DOMAIN granted' /\ granted'[token] = granted[token],
           \A token \in DOMAIN pins : granted[token] > now => token \in DOMAIN pins',
           then # 0 => then \in DOMAIN pins'
    PROVE  PinsKeptInv'
<1> DEFINE state == [at |-> "savingPins", copy |-> table, loop |-> loop, then |-> then]
<1>1. /\ req'[r] = state
      /\ \A q \in Request : q # r => req'[q] = req[q]
  BY GotoMoves DEF PinsKeptInv, PinInv, PinsToSave
<1>2. req'[r].copy = table /\ req'[r].then = then
  BY <1>1
<1> HIDE DEF state
<1>3. ASSUME "pins" \notin spoiled' PROVE OrderlyPins'
  <2>1. "pins" \notin spoiled /\ \A q \in Request \ {r} : ~SavesPins(q)
    BY <1>3 DEF PinsToSave, SavesPins
  <2>2. \A q \in Request : SavesPins(q)' => q = r
    BY <1>1, <2>1 DEF SavesPins
  <2>3. \A token \in delivered' : granted'[token] > now' =>
            token \in DOMAIN pins' /\ token \in DOMAIN pinFile'
    BY <2>1 DEF PinsKeptInv, OrderlyPins
  <2> QED
    BY <1>2, <2>2, <2>3 DEF OrderlyPins
<1> QED
  BY <1>3 DEF PinsKeptInv

LEMMA PinsStayKept == PinsKeptInv /\ [Next]_vars => PinsKeptInv'
<1> SUFFICES ASSUME PinsKeptInv, [Next]_vars PROVE PinsKeptInv'
  OBVIOUS
<1>0. PinInv'
  BY PinsKeptGenuine DEF PinsKeptInv
<1>1. CASE UNCHANGED vars
  BY <1>0, <1>1, PinsUntouched DEF vars, SavesPins
<1>2. CASE Tick
  <2>1. now' = now + 1 /\ Clock'
    BY <1>2 DEF Tick, history, PinsKeptInv, Clock
  <2>2. OrderlyPins => OrderlyPins'
    BY <1>2, <2>1 DEF Tick, history, PinsKeptInv, Clock, OrderlyPins, SavesPins
  <2> QED
    BY <1>0, <1>2, <2>1, <2>2 DEF Tick, history, PinsKeptInv
<1>3. CASE Restart
  <2>1. \A r \in Request : ~SavesPins(r)'
    BY <1>3 DEF Restart, SavesPins, Idle
  <2>2. OrderlyPins => OrderlyPins'
    BY <1>3, <2>1 DEF Restart, history, Unexpired, PinsKeptInv, PinInv, Genuine, OrderlyPins
  <2> QED
    BY <1>0, <1>3, <2>2 DEF Restart, history, PinsKeptInv, Clock
<1>12. CASE RestartUnread
  BY <1>0, <1>12 DEF RestartUnread, PinsKeptInv, Clock
<1>4. ASSUME NEW dist \in Installable, Pip(dist) PROVE PinsKeptInv'
  BY <1>0, <1>4, PinsUntouched DEF Pip, history, SavesPins
<1>5. ASSUME NEW r \in Request, PinAccepted(r) PROVE PinsKeptInv'
  <2> DEFINE token == Cardinality(DOMAIN granted) + 1
  <2>1. PICK n \in Nat : DOMAIN granted = 1 .. n
    BY DEF PinsKeptInv, PinInv
  <2>2. token = n + 1
    BY <2>1, TokenIsNew
  <2>3. /\ pins' = With(pins, token, Expiry)
        /\ granted' = With(granted, token, Expiry)
        /\ PinsToSave(r, pins', TRUE, token)
        /\ UNCHANGED <<now, pinFile, delivered>>
    BY <1>5 DEF PinAccepted
  <2> HIDE DEF token
  <2>4. Expiry \in Nat
    BY SettingsAssumption DEF Expiry, PinsKeptInv, Clock
  <2>5. token \notin DOMAIN granted
    BY <2>1, <2>2
  <2>6. Clock'
    BY <2>3, <2>4 DEF With, PinsKeptInv, Clock
  <2>7. \A k \in DOMAIN granted : k \in DOMAIN granted' /\ granted'[k] = granted[k]
    BY <2>3, <2>5 DEF With
  <2>8. DOMAIN pins' = DOMAIN pins \cup {token}
    BY <2>3 DEF With
  <2> QED
    BY <1>0, <2>3, <2>6, <2>7, <2>8, OrderlySave
<1>6. ASSUME NEW r \in Request, NEW token, NEW loop, PinExpires(r, token, loop) PROVE PinsKeptInv'
  <2>1. /\ pins' = [k \in DOMAIN pins \ {token} |-> pins[k]]
        /\ PinsToSave(r, pins', loop, 0)
        /\ UNCHANGED <<now, pinFile, granted, delivered>>
        /\ token \in DOMAIN pins /\ now >= pins[token]
    BY <1>6 DEF PinExpires, history
  <2>2. \A k \in DOMAIN pins : granted[k] > now => k \in DOMAIN pins'
    BY <2>1 DEF PinsKeptInv, PinInv, Genuine, Clock
  <2>3. Clock'
    BY <2>1 DEF PinsKeptInv, Clock
  <2> QED
    BY <1>0, <2>1, <2>2, <2>3, OrderlySave
<1>7. ASSUME NEW r \in Request, PinsSaved(r) PROVE PinsKeptInv'
  <2>1. /\ SavesPins(r) /\ pinFile' = req[r].copy
        /\ UNCHANGED <<now, pins, granted, spoiled>>
        /\ Goto(r, Idle)
    BY <1>7 DEF PinsSaved, AfterPins, SavesPins
  <2>2. /\ req'[r] = Idle
        /\ \A q \in Request : q # r => req'[q] = req[q]
    BY <2>1, GotoMoves DEF PinsKeptInv, PinInv
  <2>3. Clock'
    BY <2>1 DEF PinsKeptInv, Clock
  <2>4. CASE "pins" \in spoiled
    BY <1>0, <1>7, <2>1, <2>3, <2>4 DEF PinsSaved, AfterPins, PinsKeptInv
  <2>5. CASE "pins" \notin spoiled
    <3>1. delivered' = IF req[r].then # 0 THEN delivered \cup {req[r].then} ELSE delivered
      BY <1>7, <2>1, <2>5 DEF PinsSaved, AfterPins
    <3>2. DOMAIN pinFile' = DOMAIN pins /\ (req[r].then # 0 => req[r].then \in DOMAIN pins)
      BY <2>1, <2>5 DEF PinsKeptInv, OrderlyPins
    <3>3. \A q \in Request : ~SavesPins(q)'
      BY <2>1, <2>2, <2>5 DEF PinsKeptInv, OrderlyPins, SavesPins, Idle
    <3>4. OrderlyPins'
      BY <2>1, <2>5, <3>1, <3>2, <3>3 DEF PinsKeptInv, OrderlyPins
    <3>5. delivered' \subseteq DOMAIN granted'
      BY <2>1, <3>1, <3>2 DEF PinsKeptInv, PinInv, Genuine
    <3> QED
      BY <1>0, <2>3, <3>4, <3>5 DEF PinsKeptInv
  <2> QED
    BY <2>4, <2>5
<1>8. ASSUME NEW r \in Request, PinsNotSaved(r) \/ PinsTorn(r) PROVE PinsKeptInv'
  BY <1>0, <1>8 DEF PinsNotSaved, PinsTorn, AfterPins, history, PinsKeptInv, Clock
<1>9. ASSUME NEW r \in Request, PinSubmit(r) \/ Leave(r) \/ Saved(r) \/ SaveFails(r) PROVE PinsKeptInv'
  BY <1>0, <1>9, OneMoves DEF PinSubmit, Leave, Saved, SaveFails, Idle, history
<1>10. ASSUME NEW r \in Request, Loaded(r) \/ LoadFails(r) PROVE PinsKeptInv'
  <2>1. PICK table : Load(r, table)
    BY <1>10 DEF Loaded, LoadFails
  <2>2. "pins" \notin spoiled' => "pins" \notin spoiled
    BY <2>1 DEF Load
  <2> QED
    BY <1>0, <2>1, <2>2, OneMoves DEF Load, history
<1>11. ASSUME NEW r \in Request, NEW token, NEW step, PutSettings(r, token, step) \/ ResetSettings(r, token, step)
       PROVE  PinsKeptInv'
  BY <1>0, <1>11, OneMoves DEF PutSettings, ResetSettings, history
<1> QED
  BY <1>1, <1>2, <1>3, <1>4, <1>5, <1>6, <1>7, <1>8, <1>9, <1>10, <1>11, <1>12 DEF Next

\* A delivered pin stays on disk until it expires, as long as no save failed,
\* none overlapped with another, and the file could be read at every start.
THEOREM PinsAlwaysKept == Spec => []PinsKept
<1>1. PinsKeptInv => PinsKept
  BY DEF PinsKeptInv, PinsKept, OrderlyPins, PinInv, Genuine
<1> QED
  BY <1>1, PinsKeptAtFirst, PinsStayKept, PTL DEF Spec

-----------------------------------------------------------------------------
(* What the settings file keeps *)

Saves(r) == req[r].at = "saving"
OnLoop(r) == req[r].loop /\ req[r].at \notin {"body", "form"}

\* At most one handler is on the event loop, and a reset never is.
OneOnLoop ==
    /\ DOMAIN req = Request
    /\ \A q, r \in Request : OnLoop(q) /\ OnLoop(r) => q = r
    /\ \A r \in Request : req[r].at = "reset" => ~req[r].loop

\* No update was overtaken and no read failed: what will be written back is
\* what the file holds.
OrderlySettings ==
    /\ file = wanted
    /\ \A r \in Request : Saves(r) => req[r].copy = file
    /\ \A q, r \in Request : Saves(q) /\ Saves(r) => q = r

SettingsInv == OneOnLoop /\ ("settings" \notin spoiled => OrderlySettings)

LEMMA SettingsAtFirst == Init => SettingsInv
<1> SUFFICES ASSUME Init PROVE SettingsInv
  OBVIOUS
<1>1. \A r \in Request : req[r] = Idle
  BY DEF Init
<1> QED
  BY <1>1 DEF Init, SettingsInv, OneOnLoop, OrderlySettings, Saves, OnLoop, Idle

\* Steps of one request that do not load, save or write settings.
LEMMA SettingsUntouched ==
    ASSUME SettingsInv, NEW r \in Request, NEW state, Goto(r, state),
           UNCHANGED <<file, wanted>>,
           "settings" \notin spoiled' => "settings" \notin spoiled,
           state.at \notin {"saving"},
           state.at = "reset" => ~state.loop,
           state.loop /\ state.at \notin {"body", "form"} => OnLoop(r) \/ LoopFree
    PROVE  SettingsInv'
<1>1. /\ DOMAIN req' = Request
      /\ req'[r] = state
      /\ \A q \in Request : q # r => req'[q] = req[q]
  BY GotoMoves DEF SettingsInv, OneOnLoop
<1>2. \A q \in Request : q # r => (OnLoop(q)' <=> OnLoop(q))
  BY <1>1 DEF OnLoop
<1>3. OnLoop(r)' => OnLoop(r) \/ \A q \in Request : ~OnLoop(q)
  BY <1>1 DEF OnLoop, LoopFree
<1>4. OneOnLoop'
  <2>1. \A q, s \in Request : OnLoop(q)' /\ OnLoop(s)' => q = s
    BY <1>2, <1>3 DEF SettingsInv, OneOnLoop
  <2>2. \A q \in Request : req'[q].at = "reset" => ~req'[q].loop
    BY <1>1 DEF SettingsInv, OneOnLoop
  <2> QED
    BY <1>1, <2>1, <2>2 DEF OneOnLoop
<1>5. \A q \in Request : Saves(q)' => Saves(q) /\ req'[q] = req[q]
  BY <1>1 DEF Saves
<1>6. OrderlySettings => OrderlySettings'
  BY <1>5 DEF OrderlySettings
<1> QED
  BY <1>4, <1>6 DEF SettingsInv

LEMMA SettingsLoad ==
    ASSUME SettingsInv, NEW r \in Request, NEW table, req[r].at \in {"body", "reset"}, Load(r, table),
           UNCHANGED <<file, wanted>>
    PROVE  SettingsInv'
<1> DEFINE state == [at |-> "saving", loop |-> req[r].loop, step |-> req[r].step,
                     entitled |-> req[r].entitled, value |-> edits', copy |-> table]
<1>1. Goto(r, state)
  BY DEF Load
<1>2. /\ DOMAIN req' = Request
      /\ req'[r] = state
      /\ \A q \in Request : q # r => req'[q] = req[q]
  BY <1>1, GotoMoves DEF SettingsInv, OneOnLoop
<1>3. req'[r].at = "saving" /\ req'[r].copy = table /\ req'[r].loop = req[r].loop
  BY <1>2
<1> HIDE DEF state
<1>4. req[r].loop => LoopFree
  BY DEF SettingsInv, OneOnLoop, Load
<1>5. OneOnLoop'
  <2>1. \A q \in Request : q # r => (OnLoop(q)' <=> OnLoop(q))
    BY <1>2 DEF OnLoop
  <2>2. OnLoop(r)' => \A q \in Request : ~OnLoop(q)
    BY <1>3, <1>4 DEF OnLoop, LoopFree
  <2>3. \A q, s \in Request : OnLoop(q)' /\ OnLoop(s)' => q = s
    BY <2>1, <2>2 DEF SettingsInv, OneOnLoop
  <2>4. \A q \in Request : req'[q].at = "reset" => ~req'[q].loop
    BY <1>2, <1>3 DEF SettingsInv, OneOnLoop
  <2> QED
    BY <1>2, <2>3, <2>4 DEF OneOnLoop
<1>6. ASSUME "settings" \notin spoiled' PROVE OrderlySettings'
  <2>1. /\ "settings" \notin spoiled /\ table = file
        /\ \A x \in Request \ {r} : Saves(x) => req[x].loop /\ req[r].loop
    BY <1>6 DEF Load, Saves
  <2>2. \A x \in Request \ {r} : ~Saves(x)
    BY <1>4, <2>1 DEF Saves, LoopFree
  <2>3. \A q \in Request : Saves(q)' => q = r
    BY <1>2, <2>2 DEF Saves
  <2> QED
    BY <1>3, <2>1, <2>3 DEF SettingsInv, OrderlySettings
<1> QED
  BY <1>5, <1>6 DEF SettingsInv

LEMMA SettingsSave ==
    ASSUME SettingsInv, NEW r \in Request, Saved(r)
    PROVE  SettingsInv'
<1>1. /\ DOMAIN req' = Request
      /\ req'[r] = Idle
      /\ \A q \in Request : q # r => req'[q] = req[q]
  BY GotoMoves DEF SettingsInv, OneOnLoop, Saved
<1>2. OneOnLoop'
  <2>1. ~OnLoop(r)' /\ \A q \in Request : q # r => (OnLoop(q)' <=> OnLoop(q))
    BY <1>1 DEF OnLoop, Idle
  <2>2. \A q \in Request : req'[q].at = "reset" => ~req'[q].loop
    BY <1>1 DEF SettingsInv, OneOnLoop, Idle
  <2> QED
    BY <1>1, <2>1, <2>2 DEF SettingsInv, OneOnLoop
<1>3. ASSUME "settings" \notin spoiled PROVE OrderlySettings'
  <2>1. file = wanted /\ req[r].copy = file /\ Saves(r)
    BY <1>3 DEF SettingsInv, OrderlySettings, Saved, Saves
  <2>2. \A q \in Request : ~Saves(q)'
    BY <1>1, <1>3, <2>1 DEF SettingsInv, OrderlySettings, Saves, Idle
  <2>3. file' = wanted'
    <3>1. file' = Updated(file, req[r]) /\ wanted' = AsAsked(req[r])
      BY <2>1 DEF Saved
    <3>2. CASE req[r].loop
      BY <1>3, <2>1, <3>1, <3>2 DEF Updated, AsAsked, With
    <3>3. CASE ~req[r].loop
      BY <1>3, <2>1, <3>1, <3>3 DEF Updated, AsAsked
    <3> QED
      BY <3>2, <3>3
  <2> QED
    BY <2>2, <2>3 DEF OrderlySettings
<1> QED
  BY <1>2, <1>3 DEF SettingsInv, Saved

LEMMA SettingsStayKept == SettingsInv /\ [Next]_vars => SettingsInv'
<1> SUFFICES ASSUME SettingsInv, [Next]_vars PROVE SettingsInv'
  OBVIOUS
<1> DEFINE Calm == UNCHANGED <<req, file, wanted, spoiled>>
<1>1. Calm => SettingsInv'
  BY DEF SettingsInv, OneOnLoop, OrderlySettings, Saves, OnLoop
<1>2. (UNCHANGED vars) \/ Tick \/ (\E dist \in Installable : Pip(dist)) => Calm
  BY DEF vars, Tick, Pip, history
<1>3. CASE Restart
  <2>1. \A r \in Request : req'[r] = Idle
    BY <1>3 DEF Restart
  <2> QED
    BY <1>3, <2>1 DEF Restart, history, SettingsInv, OneOnLoop, OrderlySettings, Saves, OnLoop, Idle
<1>11. CASE RestartUnread
  <2>1. \A r \in Request : req'[r] = Idle
    BY <1>11 DEF RestartUnread
  <2> QED
    BY <1>11, <2>1 DEF RestartUnread, SettingsInv, OneOnLoop, OrderlySettings, Saves, OnLoop, Idle
<1>4. ASSUME NEW r \in Request, PinSubmit(r) \/ Leave(r) \/ SaveFails(r) PROVE SettingsInv'
  BY <1>4, SettingsUntouched DEF PinSubmit, Leave, SaveFails, Idle, history
<1>5. ASSUME NEW r \in Request, PinsSaved(r) \/ PinsNotSaved(r) \/ PinsTorn(r) PROVE SettingsInv'
  BY <1>5, SettingsUntouched DEF PinsSaved, PinsNotSaved, PinsTorn, AfterPins, Idle, history
<1>6. ASSUME NEW r \in Request, PinAccepted(r) PROVE SettingsInv'
  BY <1>6, SettingsUntouched DEF PinAccepted, PinsToSave
<1>7. ASSUME NEW r \in Request, NEW token, NEW loop, PinExpires(r, token, loop) PROVE SettingsInv'
  BY <1>7, SettingsUntouched DEF PinExpires, PinsToSave, history
<1>8. ASSUME NEW r \in Request, NEW token, NEW step, PutSettings(r, token, step) \/ ResetSettings(r, token, step)
      PROVE  SettingsInv'
  BY <1>8, SettingsUntouched DEF PutSettings, ResetSettings, history
<1>9. ASSUME NEW r \in Request, Loaded(r) \/ LoadFails(r) PROVE SettingsInv'
  <2>1. PICK table : Load(r, table)
    BY <1>9 DEF Loaded, LoadFails
  <2> QED
    BY <1>9, <2>1, SettingsLoad DEF Loaded, LoadFails, Load, history
<1>10. ASSUME NEW r \in Request, Saved(r) PROVE SettingsInv'
  BY <1>10, SettingsSave
<1> HIDE DEF Calm
<1> QED
  BY <1>1, <1>2, <1>3, <1>4, <1>5, <1>6, <1>7, <1>8, <1>9, <1>10, <1>11 DEF Next

\* The settings file holds what the saved updates amount to, as long as no
\* reset overlapped with another update and no read failed.
THEOREM SettingsAlwaysKept == Spec => []SettingsKept
<1>1. SettingsInv => SettingsKept
  BY DEF SettingsInv, OrderlySettings, SettingsKept
<1> QED
  BY <1>1, SettingsAtFirst, SettingsStayKept, PTL DEF Spec

-----------------------------------------------------------------------------
(* The two lists of steps *)

\* A non-empty set of natural numbers has a least element.
LEMMA LeastNat ==
    ASSUME NEW T, T \subseteq Nat, T # {}
    PROVE  \E n \in T : \A m \in T : n <= m
<1>1. PICK n \in T : \A m \in T : ~(<<m, n>> \in OpToRel(<, Nat))
  BY WFMin, NatLessThanWellFounded
<1>2. \A m \in T : ~(m < n)
  BY <1>1 DEF OpToRel
<1> QED
  BY <1>2

\* The step of the i-th entry point.
StepAt(i) == Clean(EntryPoints[i])

\* f is the recursive function of Merged, up to the n-th entry point.
Merges(f, rows, loaded, n) ==
    f = [i \in 0 .. n |->
            IF i = 0 THEN rows
            ELSE IF i \in loaded THEN AddUnlessTaken(f[i - 1], Clean(EntryPoints[i]))
            ELSE f[i - 1]]

LEMMA MergesExtends ==
    ASSUME NEW rows, NEW loaded, NEW n \in Nat \ {0}, NEW f, Merges(f, rows, loaded, n - 1)
    PROVE  \E g : Merges(g, rows, loaded, n)
<1> DEFINE last == IF n \in loaded THEN AddUnlessTaken(f[n - 1], Clean(EntryPoints[n])) ELSE f[n - 1]
           g == [i \in 0 .. n |-> IF i = n THEN last ELSE f[i]]
<1>1. \A i \in 0 .. n - 1 :
        f[i] = IF i = 0 THEN rows
               ELSE IF i \in loaded THEN AddUnlessTaken(f[i - 1], Clean(EntryPoints[i]))
               ELSE f[i - 1]
  BY DEF Merges
<1>2. \A i \in 1 .. n : g[i - 1] = f[i - 1]
  OBVIOUS
<1>3. ASSUME NEW i \in 0 .. n
      PROVE  g[i] = IF i = 0 THEN rows
                    ELSE IF i \in loaded THEN AddUnlessTaken(g[i - 1], Clean(EntryPoints[i]))
                    ELSE g[i - 1]
  <2>1. CASE i = n
    BY <1>2, <2>1
  <2>2. CASE i # n /\ i = 0
    BY <1>1, <2>2
  <2>3. CASE i # n /\ i # 0
    <3>1. i \in 0 .. n - 1 /\ i \in 1 .. n
      BY <2>3
    <3>2. g[i] = f[i] /\ g[i - 1] = f[i - 1]
      BY <1>2, <2>3, <3>1
    <3> QED
      BY <1>1, <2>3, <3>1, <3>2
  <2> QED
    BY <2>1, <2>2, <2>3
<1>4. Merges(g, rows, loaded, n)
  <2>1. g = [i \in 0 .. n |-> g[i]]
    OBVIOUS
  <2> HIDE DEF g
  <2> QED
    BY <1>3, <2>1 DEF Merges
<1> QED
  BY <1>4

LEMMA MergesExists ==
    ASSUME NEW rows, NEW loaded, NEW n \in Nat
    PROVE  \E f : Merges(f, rows, loaded, n)
<1> DEFINE Bad == {m \in Nat : ~ \E f : Merges(f, rows, loaded, m)}
<1> SUFFICES ASSUME Bad # {} PROVE FALSE
  OBVIOUS
<1>1. PICK m \in Bad : \A k \in Bad : m <= k
  <2>1. Bad \subseteq Nat
    OBVIOUS
  <2> QED
    BY <2>1, LeastNat
<1>2. m # 0
  <2>1. Merges([i \in 0 .. 0 |-> rows], rows, loaded, 0)
    BY DEF Merges
  <2> QED
    BY <1>1, <2>1
<1>3. m \in Nat \ {0} /\ m - 1 \in Nat /\ m - 1 \notin Bad
  BY <1>1, <1>2
<1>4. PICK f : Merges(f, rows, loaded, m - 1)
  BY <1>3
<1>5. \E g : Merges(g, rows, loaded, m)
  BY <1>3, <1>4, MergesExtends
<1> QED
  BY <1>1, <1>5

\* f lists the steps taken so far, from rows on, entry point by entry point.
StepByStep(f, rows, loaded, n) ==
    /\ f[0] = rows
    /\ \A i \in 1 .. n :
        f[i] = IF i \in loaded THEN AddUnlessTaken(f[i - 1], StepAt(i)) ELSE f[i - 1]

\* The entry points are those of the packages of this repository, and the
\* bolt-ons behind them.
LEMMA EntryPointsListed ==
    /\ Len(EntryPoints) \in Nat
    /\ DOMAIN EntryPoints = 1 .. Len(EntryPoints)
    /\ Len(OwnSteps) = 14
    /\ \A i \in DOMAIN EntryPoints :
        \/ i \in 1 .. 14 /\ EntryPoints[i] = OwnSteps[i]
        \/ i - 14 \in DOMAIN BoltOn /\ EntryPoints[i] = BoltOn[i - 14]
<1> DEFINE Descriptor == [dist: STRING, step: STRING, ref: STRING, order: Int, packages: Seq(STRING)]
<1>1. BoltOn \in Seq(Descriptor)
  BY DetectionAssumption
<1>2. OwnSteps \in Seq({OwnSteps[i] : i \in 1 .. 14}) /\ Len(OwnSteps) = 14
  BY DEF OwnSteps
<1> DEFINE T == Descriptor \cup {OwnSteps[i] : i \in 1 .. 14}
<1>3. BoltOn \in Seq(T) /\ OwnSteps \in Seq(T)
  <2>1. Descriptor \subseteq T /\ {OwnSteps[i] : i \in 1 .. 14} \subseteq T
    OBVIOUS
  <2> HIDE DEF T, Descriptor
  <2> QED
    BY <1>1, <1>2, <2>1
<1>4. PICK own : own = OwnSteps
  OBVIOUS
<1>5. PICK others : others = BoltOn
  OBVIOUS
<1> HIDE DEF T, Descriptor
<1>6. Len(own) = 14 /\ own \in Seq(T) /\ others \in Seq(T)
  BY <1>2, <1>3, <1>4, <1>5
<1>7. PICK all : all = own \o others
  OBVIOUS
<1>8. /\ all \in Seq(T)
      /\ Len(all) = Len(own) + Len(others)
      /\ \A i \in 1 .. Len(own) + Len(others) :
            all[i] = IF i <= Len(own) THEN own[i] ELSE others[i - Len(own)]
  BY <1>6, <1>7, ConcatProperties
<1>9. DOMAIN others = 1 .. Len(others) /\ Len(others) \in Nat
  BY <1>6, LenProperties
<1>10. DOMAIN all = 1 .. Len(all)
  BY <1>8, LenProperties
<1>11. EntryPoints = all
  BY <1>4, <1>5, <1>7 DEF EntryPoints
<1>12. ASSUME NEW i \in DOMAIN EntryPoints
      PROVE  \/ i \in 1 .. 14 /\ EntryPoints[i] = own[i]
             \/ i - 14 \in DOMAIN others /\ EntryPoints[i] = others[i - 14]
  <2>1. i \in 1 .. 14 + Len(others) /\ EntryPoints[i] = IF i <= 14 THEN own[i] ELSE others[i - 14]
    BY <1>6, <1>11, <1>8, <1>10
  <2>2. CASE i <= 14
    <3>1. i \in 1 .. 14
      BY <1>9, <2>1, <2>2
    <3> QED
      BY <2>1, <2>2, <3>1
  <2>3. CASE ~ i <= 14
    <3>1. i - 14 \in 1 .. Len(others)
      BY <1>9, <2>1, <2>3
    <3> QED
      BY <1>9, <2>1, <2>3, <3>1
  <2> QED
    BY <2>2, <2>3
<1>13. Len(EntryPoints) \in Nat /\ DOMAIN EntryPoints = 1 .. Len(EntryPoints)
  BY <1>6, <1>11, <1>8, <1>9, <1>10
<1> QED
  BY <1>4, <1>5, <1>6, <1>12, <1>13

\* Merged is the last of the steps that are taken one by one.
LEMMA MergedStepByStep ==
    ASSUME NEW rows, NEW there
    PROVE  \E f : /\ StepByStep(f, rows, EntryPointSteps(there), Len(EntryPoints))
                  /\ Merged(rows, there) = f[Len(EntryPoints)]
<1> DEFINE n == Len(EntryPoints)
           f == CHOOSE g : Merges(g, rows, EntryPointSteps(there), n)
<1>1. n \in Nat
  BY EntryPointsListed
<1>2. Merges(f, rows, EntryPointSteps(there), n)
  <2> HIDE DEF n
  <2> QED
    BY <1>1, MergesExists
<1>3. Merged(rows, there) = f[n]
  BY DEF Merged, Merges
<1>4. StepByStep(f, rows, EntryPointSteps(there), n)
  <2> HIDE DEF f, n
  <2> QED
    BY <1>1, <1>2 DEF Merges, StepByStep, StepAt
<1> HIDE DEF f
<1> QED
  BY <1>3, <1>4

\* No two of the steps share a name or a ref.
Distinct(rows) == \A r, s \in rows : Collides(r, s) => r = s

\* What is known of the steps taken after the i-th entry point.
Accounted(f, rows, loaded, i) ==
    /\ Distinct(f[i])
    /\ rows \subseteq f[i]
    /\ \A r \in f[i] : r \in rows \/ \E k \in loaded : r = StepAt(k) /\ ~ Taken(rows, StepAt(k))
    /\ \A k \in loaded : k <= i => Taken(f[i], StepAt(k))

LEMMA TakesOne ==
    ASSUME NEW rows, NEW e, Distinct(rows)
    PROVE  LET more == AddUnlessTaken(rows, e)
           IN  Distinct(more) /\ rows \subseteq more /\ Taken(more, e) /\ more \subseteq rows \cup {e}
               /\ (e \in more => e \in rows \/ ~ Taken(rows, e))
BY DEF Distinct, AddUnlessTaken, Taken, Collides

LEMMA EveryStepAccounted ==
    ASSUME NEW f, NEW rows, NEW loaded, NEW n \in Nat, loaded \subseteq 1 .. n,
           Distinct(rows), StepByStep(f, rows, loaded, n)
    PROVE  \A i \in 0 .. n : Accounted(f, rows, loaded, i)
<1> DEFINE Bad == {i \in 0 .. n : ~ Accounted(f, rows, loaded, i)}
<1> SUFFICES ASSUME Bad # {} PROVE FALSE
  OBVIOUS
<1>1. PICK i \in Bad : \A k \in Bad : i <= k
  <2>1. Bad \subseteq Nat
    OBVIOUS
  <2> QED
    BY <2>1, LeastNat
<1>2. i # 0
  <2>1. f[0] = rows /\ \A k \in loaded : ~ k <= 0
    BY DEF StepByStep
  <2>2. Accounted(f, rows, loaded, 0)
    BY <2>1 DEF Accounted
  <2> QED
    BY <1>1, <2>2
<1>3. i \in 1 .. n /\ i - 1 \in 0 .. n /\ i - 1 \notin Bad
  BY <1>1, <1>2
<1>4. Accounted(f, rows, loaded, i - 1)
  BY <1>3
<1>5. \A k \in loaded : k <= i => k <= i - 1 \/ k = i
  BY <1>3
<1>6. CASE i \notin loaded
  <2>1. f[i] = f[i - 1]
    BY <1>3, <1>6 DEF StepByStep
  <2>2. Accounted(f, rows, loaded, i)
    BY <1>4, <1>5, <1>6, <2>1 DEF Accounted
  <2> QED
    BY <1>1, <2>2
<1>7. CASE i \in loaded
  <2>1. PICK before : before = f[i - 1]
    OBVIOUS
  <2>2. f[i] = AddUnlessTaken(before, StepAt(i))
    BY <1>3, <1>7, <2>1 DEF StepByStep
  <2>3. PICK e : e = StepAt(i)
    OBVIOUS
  <2>4. /\ Distinct(f[i]) /\ before \subseteq f[i] /\ Taken(f[i], e) /\ f[i] \subseteq before \cup {e}
        /\ (e \in f[i] => e \in before \/ ~ Taken(before, e))
    BY <1>4, <2>1, <2>2, <2>3, TakesOne DEF Accounted
  <2>5. rows \subseteq before
    BY <1>4, <2>1 DEF Accounted
  <2>6. ASSUME NEW r \in f[i]
        PROVE  r \in rows \/ \E k \in loaded : r = StepAt(k) /\ ~ Taken(rows, StepAt(k))
    <3>1. CASE r \in before
      BY <1>4, <2>1, <3>1 DEF Accounted
    <3>2. CASE r = e /\ ~ Taken(before, e)
      <4>1. ~ Taken(rows, e)
        BY <2>5, <3>2 DEF Taken
      <4> QED
        BY <1>7, <2>3, <3>2, <4>1
    <3> QED
      BY <2>4, <3>1, <3>2
  <2>7. ASSUME NEW k \in loaded, k <= i
        PROVE  Taken(f[i], StepAt(k))
    <3>1. CASE k = i
      BY <2>3, <2>4, <3>1
    <3>2. CASE k <= i - 1
      <4>1. Taken(before, StepAt(k))
        BY <1>4, <2>1, <3>2 DEF Accounted
      <4> QED
        BY <2>4, <4>1 DEF Taken
    <3> QED
      BY <1>5, <2>7, <3>1, <3>2
  <2>8. Accounted(f, rows, loaded, i)
    BY <2>4, <2>5, <2>6, <2>7 DEF Accounted
  <2> QED
    BY <1>1, <2>8
<1> QED
  BY <1>6, <1>7

\* A step taken stays.
LEMMA StepsStay ==
    ASSUME NEW f, NEW rows, NEW loaded, NEW n \in Nat, StepByStep(f, rows, loaded, n)
    PROVE  \A i \in 0 .. n : f[i] \subseteq f[n]
<1> DEFINE Bad == {m \in Nat : m <= n /\ ~ f[n - m] \subseteq f[n]}
<1> SUFFICES ASSUME Bad # {} PROVE FALSE
  <2>1. Bad = {} => \A i \in 0 .. n : f[i] \subseteq f[n]
    <3> SUFFICES ASSUME Bad = {}, NEW i \in 0 .. n PROVE f[i] \subseteq f[n]
      OBVIOUS
    <3>1. n - i \in Nat /\ n - i <= n /\ n - (n - i) = i
      OBVIOUS
    <3> QED
      BY <3>1
  <2> QED
    BY <2>1
<1>1. PICK m \in Bad : \A k \in Bad : m <= k
  <2>1. Bad \subseteq Nat
    OBVIOUS
  <2> QED
    BY <2>1, LeastNat
<1>2. m # 0
  <2>1. n - 0 = n
    OBVIOUS
  <2> QED
    BY <1>1, <2>1
<1>3. m - 1 \in Nat /\ m - 1 <= n /\ m - 1 \notin Bad
  BY <1>1, <1>2
<1>4. f[n - (m - 1)] \subseteq f[n]
  BY <1>3
<1>5. n - (m - 1) \in 1 .. n /\ (n - (m - 1)) - 1 = n - m
  BY <1>1, <1>2
<1>6. f[n - m] \subseteq f[n - (m - 1)]
  BY <1>5 DEF StepByStep, AddUnlessTaken
<1> QED
  BY <1>1, <1>4, <1>6

-----------------------------------------------------------------------------
(* The catalogue and the packages of this repository *)

\* Catalogue steps have different names and different refs.
LEMMA CatalogueDistinct ==
    \A row, other \in Catalogue : row.step = other.step \/ row.ref = other.ref => row = other
<1>1. Len(DecisionRows) = 6 /\ DecisionRows \in Seq({DecisionRows[i] : i \in 1 .. 6})
  BY DEF DecisionRows
<1>2. Len(ReceiptRows) = 8 /\ ReceiptRows \in Seq({ReceiptRows[i] : i \in 1 .. 8})
  BY DEF ReceiptRows
<1>3. DOMAIN DecisionRows = 1 .. 6 /\ DOMAIN ReceiptRows = 1 .. 8
  BY <1>1, <1>2, LenProperties
<1>4. \A row \in Catalogue : (\E i \in 1 .. 6 : row = DecisionRows[i]) \/ (\E i \in 1 .. 8 : row = ReceiptRows[i])
  BY <1>3 DEF Catalogue, ToSet
<1>5. \A i, j \in 1 .. 6 : i # j => /\ DecisionRows[i].step # DecisionRows[j].step
                                    /\ DecisionRows[i].ref # DecisionRows[j].ref
  BY SMTT(60) DEF DecisionRows, Row
<1>6. \A i, j \in 1 .. 8 : i # j => /\ ReceiptRows[i].step # ReceiptRows[j].step
                                    /\ ReceiptRows[i].ref # ReceiptRows[j].ref
  BY SMTT(60) DEF ReceiptRows, Row
<1>7. \A i \in 1 .. 6, j \in 1 .. 8 : /\ DecisionRows[i].step # ReceiptRows[j].step
                                      /\ DecisionRows[i].ref # ReceiptRows[j].ref
  BY SMTT(60) DEF DecisionRows, ReceiptRows, Row
<1> SUFFICES ASSUME NEW row \in Catalogue, NEW other \in Catalogue, row.step = other.step \/ row.ref = other.ref
             PROVE  row = other
  OBVIOUS
<1>8. CASE \E i \in 1 .. 6 : row = DecisionRows[i]
  <2>1. ~ \E j \in 1 .. 8 : other = ReceiptRows[j]
    BY <1>7, <1>8
  <2> QED
    BY <1>4, <1>5, <1>8, <2>1
<1>9. CASE \E i \in 1 .. 8 : row = ReceiptRows[i]
  <2>1. ~ \E j \in 1 .. 6 : other = DecisionRows[j]
    BY <1>7, <1>9
  <2> QED
    BY <1>4, <1>6, <1>9, <2>1
<1> QED
  BY <1>4, <1>8, <1>9

\* The edition that is found is one of the step's packages, and it is found
\* when one is installed.
LEMMA ProviderFound ==
    ASSUME NEW row, NEW there, NEW i \in DOMAIN row.packages, row.packages[i] \in there,
           DOMAIN row.packages \subseteq Nat, NoPackage \notin ToSet(row.packages)
    PROVE  Provider(row, there) # NoPackage
<1> DEFINE present == {j \in DOMAIN row.packages : row.packages[j] \in there}
<1>1. present \subseteq Nat /\ present # {}
  OBVIOUS
<1>2. \E j \in present : \A k \in present : j <= k
  BY <1>1, LeastNat
<1>3. Provider(row, there) = row.packages[CHOOSE j \in present : \A k \in present : j <= k]
  BY <1>1 DEF Provider
<1>4. PICK j \in present : row.packages[j] = Provider(row, there)
  BY <1>2, <1>3
<1> QED
  BY <1>4 DEF ToSet

\* What the package of d declares is a step of the catalogue, and the package
\* is one of its editions.
Declared(d, row) ==
    /\ row.step = d.step
    /\ DOMAIN row.packages \subseteq Nat
    /\ \E j \in DOMAIN row.packages : row.packages[j] = d.dist

LEMMA OwnStepsDeclared ==
    ASSUME NEW i \in 1 .. 14
    PROVE  \E row \in Catalogue : Declared(OwnSteps[i], row)
<1>1. ASSUME NEW row, NEW d, NEW p, row.step = d.step, row.packages = <<p>>, d.dist = p
      PROVE  Declared(d, row)
  BY <1>1 DEF Declared
<1>2. ASSUME NEW row, NEW d, NEW p, NEW q, row.step = d.step, row.packages = <<p, q>>, d.dist \in {p, q}
      PROVE  Declared(d, row)
  BY <1>2 DEF Declared
<1>3. /\ Declared(OwnSteps[1], DecisionRows[1])
      /\ Declared(OwnSteps[2], DecisionRows[2])
      /\ Declared(OwnSteps[3], DecisionRows[3])
      /\ Declared(OwnSteps[4], DecisionRows[4])
      /\ Declared(OwnSteps[5], DecisionRows[5])
      /\ Declared(OwnSteps[6], DecisionRows[6])
  BY <1>1, <1>2 DEF DecisionRows, Row, OwnSteps, Declares, SubstrateGuardStep, PassportStep,
        MandateStep, PolicyBindingStep, ComplianceGateStep, SpendGuardrailStep
<1>4. /\ Declared(OwnSteps[7], ReceiptRows[1])
      /\ Declared(OwnSteps[8], ReceiptRows[2])
      /\ Declared(OwnSteps[9], ReceiptRows[5])
      /\ Declared(OwnSteps[10], ReceiptRows[3])
      /\ Declared(OwnSteps[11], ReceiptRows[4])
      /\ Declared(OwnSteps[12], ReceiptRows[6])
      /\ Declared(OwnSteps[13], ReceiptRows[7])
      /\ Declared(OwnSteps[14], ReceiptRows[8])
  BY <1>1, <1>2 DEF ReceiptRows, Row, OwnSteps, Declares, ExecutionStep, TrustQueryStep,
        DelegationStep, RevocationStep, JourneyStep, CancellationStep, RefundStep, RetentionStep
<1>5. /\ \A j \in 1 .. 6 : DecisionRows[j] \in Catalogue
      /\ \A j \in 1 .. 8 : ReceiptRows[j] \in Catalogue
  <2>1. DOMAIN DecisionRows = 1 .. 6 /\ DOMAIN ReceiptRows = 1 .. 8
    BY DEF DecisionRows, ReceiptRows
  <2> QED
    BY <2>1 DEF Catalogue, ToSet
<1>6. i \in {1, 2, 3, 4, 5, 6, 7, 8, 9, 10, 11, 12, 13, 14}
  OBVIOUS
<1> QED
  BY <1>3, <1>4, <1>5, <1>6

\* What the catalogue and the loaded entry points offer.
LEMMA LoadedSteps ==
    ASSUME NEW there
    PROVE  /\ EntryPointSteps(there) \subseteq 1 .. Len(EntryPoints)
           /\ \A k \in EntryPointSteps(there) :
                /\ EntryPoints[k].dist \in there /\ WellFormed(EntryPoints[k])
                /\ StepAt(k).vendor /\ IsInstalled(StepAt(k))
<1>1. EntryPointSteps(there) \subseteq 1 .. Len(EntryPoints)
  BY EntryPointsListed DEF EntryPointSteps, Usable
<1> SUFFICES ASSUME NEW k \in EntryPointSteps(there)
             PROVE  /\ EntryPoints[k].dist \in there /\ WellFormed(EntryPoints[k])
                    /\ StepAt(k).vendor /\ IsInstalled(StepAt(k))
  BY <1>1
<1>2. k \in DOMAIN EntryPoints /\ EntryPoints[k].dist \in there /\ WellFormed(EntryPoints[k])
  BY DEF EntryPointSteps, Usable
<1>3. 1 \in DOMAIN EntryPoints[k].packages
  <2>1. CASE k \in 1 .. 14 /\ EntryPoints[k] = OwnSteps[k]
    <3>1. k \in {1, 2, 3, 4, 5, 6, 7, 8, 9, 10, 11, 12, 13, 14}
      BY <2>1
    <3>2. \E d : OwnSteps[k].packages = <<d>>
      BY <3>1, SMTT(30)
      DEF OwnSteps, Declares, SubstrateGuardStep, PassportStep, MandateStep, PolicyBindingStep,
          ComplianceGateStep, SpendGuardrailStep, ExecutionStep, TrustQueryStep, DelegationStep,
          RevocationStep, JourneyStep, CancellationStep, RefundStep, RetentionStep
    <3> QED
      BY <2>1, <3>2
  <2>2. CASE k - 14 \in DOMAIN BoltOn /\ EntryPoints[k] = BoltOn[k - 14]
    <3>1. BoltOn[k - 14].packages \in Seq(STRING)
      <4> DEFINE Descriptor == [dist: STRING, step: STRING, ref: STRING, order: Int, packages: Seq(STRING)]
      <4>1. \A descriptor \in Descriptor : descriptor.packages \in Seq(STRING)
        OBVIOUS
      <4>2. BoltOn \in Seq(Descriptor)
        BY DetectionAssumption
      <4> HIDE DEF Descriptor
      <4>3. PICK others : others = BoltOn
        OBVIOUS
      <4>4. \A j \in DOMAIN others : others[j] \in Descriptor
        BY <4>2, <4>3
      <4> QED
        BY <2>2, <4>1, <4>3, <4>4
    <3>2. BoltOn[k - 14].packages # << >>
      BY <1>2, <2>2 DEF WellFormed
    <3> QED
      BY <2>2, <3>1, <3>2
  <2> QED
    BY <1>2, <2>1, <2>2, EntryPointsListed
<1>4. NoPackage # EntryPoints[k].packages[1]
  BY <1>2, <1>3 DEF WellFormed, ToSet
<1>5. StepAt(k).vendor /\ StepAt(k).provider = EntryPoints[k].packages[1]
  BY DEF StepAt, Clean
<1> QED
  BY <1>2, <1>4, <1>5 DEF IsInstalled

LEMMA CatalogueStepsDistinct ==
    ASSUME NEW there
    PROVE  Distinct(CatalogueSteps(there)) /\ \A r \in CatalogueSteps(there) : ~ r.vendor
<1>1. \A r \in CatalogueSteps(there) : ~ r.vendor
  BY DEF CatalogueSteps, CatalogueStep
<1>2. ASSUME NEW r \in CatalogueSteps(there), NEW s \in CatalogueSteps(there), Collides(r, s)
      PROVE  r = s
  <2>1. PICK row \in Catalogue : r = CatalogueStep(row, there)
    BY DEF CatalogueSteps
  <2>2. PICK other \in Catalogue : s = CatalogueStep(other, there)
    BY DEF CatalogueSteps
  <2>3. row.step = other.step \/ row.ref = other.ref
    BY <1>2, <2>1, <2>2 DEF Collides, CatalogueStep
  <2>4. row = other
    BY <2>3, CatalogueDistinct
  <2> QED
    BY <2>1, <2>2, <2>4
<1> QED
  BY <1>1, <1>2 DEF Distinct

\* A package of this repository that is there stands in the catalogue already.
LEMMA OwnStepTaken ==
    ASSUME NEW there, NEW k \in EntryPointSteps(there), k \in 1 .. 14, EntryPoints[k] = OwnSteps[k]
    PROVE  Taken({r \in CatalogueSteps(there) : IsInstalled(r)}, StepAt(k))
<1>1. EntryPoints[k].dist \in there
  BY LoadedSteps
<1>2. PICK row \in Catalogue : Declared(OwnSteps[k], row)
  BY OwnStepsDeclared
<1>3. PICK j \in DOMAIN row.packages : row.packages[j] \in there
  BY <1>1, <1>2 DEF Declared
<1>4. Provider(row, there) # NoPackage
  <2>1. NoPackage \notin ToSet(row.packages)
    BY PackageAssumption
  <2>2. DOMAIN row.packages \subseteq Nat
    BY <1>2 DEF Declared
  <2> QED
    BY <1>3, <2>1, <2>2, ProviderFound
<1>5. CatalogueStep(row, there) \in {r \in CatalogueSteps(there) : IsInstalled(r)}
  BY <1>4 DEF CatalogueSteps, CatalogueStep, IsInstalled
<1>6. Collides(CatalogueStep(row, there), StepAt(k))
  BY <1>2 DEF Collides, CatalogueStep, Declared, StepAt, Clean
<1> QED
  BY <1>5, <1>6 DEF Taken

AllAccounted(f, rows, loaded, n) == \A i \in 0 .. n : Accounted(f, rows, loaded, i)

\* No loaded step among the n-th steps shadows one of the steps in all.
Unshadowed(d, n, all, loaded) ==
    \A i \in loaded : IsInstalled(StepAt(i)) /\ (Taken(all, StepAt(i)) => StepAt(i) \notin d[n])

OnlyInstalled(rows) == {r \in rows : IsInstalled(r)}

Agree(d, k, i) == d[i] = OnlyInstalled(k[i])

\* The two lists differ only by what shadows cause.
LEMMA NoShadowNoDifference ==
    ASSUME NEW all, NEW loaded, NEW n \in Nat, NEW d, NEW k, loaded \subseteq 1 .. n,
           StepByStep(d, OnlyInstalled(all), loaded, n), StepByStep(k, all, loaded, n),
           AllAccounted(k, all, loaded, n), Unshadowed(d, n, all, loaded)
    PROVE  Agree(d, k, n)
<1> DEFINE Bad == {i \in 0 .. n : ~ Agree(d, k, i)}
<1> SUFFICES ASSUME Bad # {} PROVE FALSE
  <2>1. n \in 0 .. n
    OBVIOUS
  <2> QED
    BY <2>1
<1>1. PICK i \in Bad : \A m \in Bad : i <= m
  <2>1. Bad \subseteq Nat
    OBVIOUS
  <2> QED
    BY <2>1, LeastNat
<1>2. i # 0
  <2>1. Agree(d, k, 0)
    BY DEF StepByStep, OnlyInstalled, Agree
  <2> QED
    BY <1>1, <2>1
<1>3. i \in 1 .. n /\ i - 1 \in 0 .. n /\ i \in 0 .. n /\ i - 1 \notin Bad
  BY <1>1, <1>2
<1>4. Agree(d, k, i - 1) /\ ~ Agree(d, k, i)
  BY <1>1, <1>3
<1>5. i \in loaded
  BY <1>3, <1>4 DEF StepByStep, Agree
<1>6. PICK e : e = StepAt(i)
  OBVIOUS
<1>7. d[i] = AddUnlessTaken(d[i - 1], e) /\ k[i] = AddUnlessTaken(k[i - 1], e)
  BY <1>3, <1>5, <1>6 DEF StepByStep
<1>8. IsInstalled(e) /\ (Taken(all, e) => e \notin d[i])
  <2>1. d[i] \subseteq d[n]
    BY <1>3, StepsStay
  <2> QED
    BY <1>5, <1>6, <2>1 DEF Unshadowed
<1>9. Taken(k[i - 1], e) => Taken(d[i - 1], e)
  <2> SUFFICES ASSUME Taken(k[i - 1], e), ~ Taken(d[i - 1], e) PROVE FALSE
    OBVIOUS
  <2>1. PICK r \in k[i - 1] : Collides(r, e)
    BY DEF Taken
  <2>2. ~ IsInstalled(r)
    BY <1>4, <2>1 DEF Taken, OnlyInstalled, Agree
  <2>3. Accounted(k, all, loaded, i - 1)
    BY <1>3 DEF AllAccounted
  <2>4. r \in all
    BY <2>1, <2>2, <2>3 DEF Accounted, Unshadowed
  <2>5. e \in d[i]
    BY <1>7 DEF AddUnlessTaken
  <2> QED
    BY <1>8, <2>1, <2>4, <2>5 DEF Taken
<1>10. Taken(d[i - 1], e) => Taken(k[i - 1], e)
  BY <1>4 DEF Taken, OnlyInstalled, Agree
<1>11. Agree(d, k, i)
  BY <1>4, <1>7, <1>8, <1>9, <1>10 DEF AddUnlessTaken, OnlyInstalled, Agree
<1> QED
  BY <1>4, <1>11

LEMMA SlotsHold ==
    ASSUME NEW there
    PROVE  SlotsDistinct(there, Detect(there)) /\ ListsAgree(Detect(there), AllKnown(there))
<1> DEFINE n == Len(EntryPoints)
           loaded == EntryPointSteps(there)
           all == CatalogueSteps(there)
           some == {r \in all : IsInstalled(r)}
<1>1. n \in Nat /\ loaded \subseteq 1 .. n
  BY EntryPointsListed, LoadedSteps
<1>2. PICK d : StepByStep(d, some, loaded, n) /\ Detect(there) = d[n]
  BY MergedStepByStep DEF Detect
<1>3. PICK k : StepByStep(k, all, loaded, n) /\ AllKnown(there) = k[n]
  BY MergedStepByStep DEF AllKnown
<1>4. Distinct(all) /\ Distinct(some) /\ \A r \in all : ~ r.vendor
  BY CatalogueStepsDistinct DEF Distinct
<1>5. \A i \in loaded : StepAt(i).vendor /\ IsInstalled(StepAt(i))
  BY LoadedSteps
<1>6. ASSUME NEW r
      PROVE  Taken(Catalogue, r) <=> Taken(all, r)
  <2>1. \A row : Collides(row, r) <=> Collides(CatalogueStep(row, there), r)
    BY DEF Collides, CatalogueStep
  <2>2. ASSUME Taken(Catalogue, r)
        PROVE  Taken(all, r)
    <3>1. PICK row \in Catalogue : Collides(row, r)
      BY <2>2 DEF Taken
    <3>2. CatalogueStep(row, there) \in all
      BY DEF CatalogueSteps
    <3> QED
      BY <2>1, <3>1, <3>2 DEF Taken
  <2>3. ASSUME Taken(all, r)
        PROVE  Taken(Catalogue, r)
    <3>1. PICK s \in all : Collides(s, r)
      BY <2>3 DEF Taken
    <3>2. PICK row \in Catalogue : s = CatalogueStep(row, there)
      BY DEF CatalogueSteps
    <3> QED
      BY <2>1, <3>1, <3>2 DEF Taken
  <2> QED
    BY <2>2, <2>3
<1>7. ASSUME NEW i \in loaded, ~ Taken(some, StepAt(i))
      PROVE  \E j \in DOMAIN BoltOn : StepAt(i) = Clean(BoltOn[j])
  <2>1. i \in DOMAIN EntryPoints
    BY <1>1, EntryPointsListed
  <2>2. ~ (i \in 1 .. 14 /\ EntryPoints[i] = OwnSteps[i])
    BY <1>7, OwnStepTaken
  <2> QED
    BY <2>1, <2>2, EntryPointsListed DEF StepAt
<1> HIDE DEF n, loaded, all, some
<1>8. Accounted(d, some, loaded, n) /\ \A i \in 0 .. n : Accounted(k, all, loaded, i)
  <2>1. n \in 0 .. n
    BY <1>1
  <2>2. \A i \in 0 .. n : Accounted(d, some, loaded, i)
    BY <1>1, <1>2, <1>4, EveryStepAccounted
  <2>3. \A i \in 0 .. n : Accounted(k, all, loaded, i)
    BY <1>1, <1>3, <1>4, EveryStepAccounted
  <2> QED
    BY <2>1, <2>2, <2>3
<1>9. PICK detected : detected = d[n]
  OBVIOUS
<1>10. PICK known : known = k[n]
  OBVIOUS
<1>11. Distinct(detected) /\ some \subseteq detected
  BY <1>8, <1>9 DEF Accounted
<1>12. \A r \in detected : r \in some \/ \E i \in loaded : r = StepAt(i) /\ ~ Taken(some, StepAt(i))
  BY <1>8, <1>9 DEF Accounted
<1>13. \A r \in some : r \in all /\ IsInstalled(r)
  BY DEF some
<1>14. SlotsDistinct(there, detected)
  <2>1. \A r \in all : IsInstalled(r) => r \in detected
    BY <1>11 DEF some
  <2>2. \A r \in detected : r.vendor => \E j \in DOMAIN BoltOn : r = Clean(BoltOn[j])
    BY <1>4, <1>7, <1>12, <1>13
  <2> QED
    BY <1>11, <2>1, <2>2 DEF SlotsDistinct, Distinct, all
<1> DEFINE available == {r \in known : IsInstalled(r)}
<1>15. Shadows(detected) = {} => detected = available
  <2> SUFFICES ASSUME Shadows(detected) = {} PROVE detected = available
    OBVIOUS
  <2>1. Unshadowed(d, n, all, loaded) /\ AllAccounted(k, all, loaded, n)
    BY <1>5, <1>6, <1>8, <1>9 DEF Shadows, Unshadowed, AllAccounted
  <2>2. StepByStep(d, OnlyInstalled(all), loaded, n)
    BY <1>2 DEF some, OnlyInstalled
  <2>3. Agree(d, k, n)
    BY <1>1, <1>3, <2>1, <2>2, NoShadowNoDifference
  <2> QED
    BY <1>9, <1>10, <2>3 DEF OnlyInstalled, Agree
<1>16. ListsAgree(detected, known)
  BY <1>15 DEF ListsAgree
<1> QED
  BY <1>2, <1>3, <1>9, <1>10, <1>14, <1>16

\* Every slot has one step, an installed catalogue step keeps its slot, and the
\* two lists of the panel agree unless a bolt-on shadows a catalogue step,
\* whatever is installed and whatever the bolt-ons declare.
THEOREM SlotsAlwaysAgree == Spec => []SlotsAgree
<1>1. SlotsAgree
  BY SlotsHold DEF SlotsAgree
<1> QED
  BY <1>1, PTL
=============================================================================
