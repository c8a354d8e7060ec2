----------------------------- MODULE SensingProofs -----------------------------
(***************************************************************************)
(* What the detector's events and the tower's CSV say, proved for every    *)
(* pair of debounce times, any number of lost reads and any spacing of the *)
(* frames, for any tower, table of codes and length of the window.         *)
(***************************************************************************)
EXTENDS PresenceFSM, SignalLog, FiniteSetTheorems, TLAPS

-----------------------------------------------------------------------------
(* The presence state machine.                                             *)

(* The event in hand is the one of the state it led to.                    *)
EventOfState == toStore # None => (toStore = "ENTER" <=> state = "PRESENT")

(* The candidate is what the observations since the last contrary one say, *)
(* and its age is their span.                                              *)
CandidateIsStreak ==
    /\ candidate = IF streak.of \in States \ {state} THEN streak.of ELSE None
    /\ candidate # None => since = streak.spans

PresenceInv ==
    /\ PresenceTypeOK
    /\ EventOfState
    /\ LastEventTellsState
    /\ CandidateIsStreak
    /\ ChangesAreMade

-----------------------------------------------------------------------------
(* Times add up to a capped time.                                          *)
LEMMA LaterType ==
    /\ Longest \in Nat
    /\ \A t \in 0 .. Longest, dt \in 1 .. MaxStep : Later(t, dt) \in 0 .. Longest
<1>1. Longest \in Nat
  BY PresenceAssumption DEF Longest
<1>2. ASSUME NEW t \in 0 .. Longest, NEW dt \in 1 .. MaxStep
      PROVE Later(t, dt) \in 0 .. Longest
  <2>1. t \in Nat /\ dt \in Nat
    BY <1>1, PresenceAssumption
  <2> QED
    BY <1>1, <2>1 DEF Later
<1> QED
  BY <1>1, <1>2

LEMMA PresenceInvInit == PresenceInit => PresenceInv
<1> SUFFICES ASSUME PresenceInit PROVE PresenceInv
  OBVIOUS
<1>1. 0 \in 0 .. Longest /\ 0 \in 0 .. LostReads
  BY LaterType, PresenceAssumption
<1>2. PresenceTypeOK
  BY <1>1 DEF PresenceInit, PresenceTypeOK, NoStreak, States, EventTypes, None
<1>3. EventOfState /\ LastEventTellsState
  BY DEF PresenceInit, EventOfState, LastEventTellsState, None
<1>4. CandidateIsStreak /\ ChangesAreMade
  BY DEF PresenceInit, CandidateIsStreak, ChangesAreMade, NoStreak, States, None
<1> QED
  BY <1>2, <1>3, <1>4 DEF PresenceInv

(* What an observation makes of the streak.                                *)
LEMMA StreakOfObservation ==
    ASSUME PresenceTypeOK, NEW s \in States, NEW dt \in 1 .. MaxStep, Observe(s, dt)
    PROVE /\ state' # state => streak' = NoStreak
          /\ state' = state =>
                /\ streak'.of = s
                /\ streak'.spans = IF streak.of = s THEN Later(streak.spans, dt) ELSE 0
          /\ streak' \in [of : States \cup {None}, spans : 0 .. Longest]
<1>1. PICK o \in States \cup {None}, n \in 0 .. Longest : streak = [of |-> o, spans |-> n]
  BY DEF PresenceTypeOK
<1>2. Later(n, dt) \in 0 .. Longest /\ 0 \in 0 .. Longest
  BY LaterType
<1>3. CASE state' # state
  BY <1>2, <1>3 DEF Observe, NoStreak
<1>4. CASE state' = state /\ streak.of = s
  <2>1. streak' = [of |-> o, spans |-> Later(n, dt)]
    BY <1>1, <1>4 DEF Observe
  <2> QED
    BY <1>1, <1>2, <1>4, <2>1
<1>5. CASE state' = state /\ streak.of # s
  BY <1>2, <1>5 DEF Observe
<1> QED
  BY <1>3, <1>4, <1>5

LEMMA ObserveStep ==
    ASSUME PresenceInv, NEW s \in States, NEW dt \in 1 .. MaxStep, Observe(s, dt)
    PROVE PresenceInv'
<1> USE DEF PresenceInv, PresenceTypeOK, EventOfState, LastEventTellsState,
           CandidateIsStreak, ChangesAreMade
<1>1. streak' \in [of : States \cup {None}, spans : 0 .. Longest]
  BY StreakOfObservation
<1>2. 0 \in 0 .. Longest /\ Later(since, dt) \in 0 .. Longest
  BY LaterType
<1>3. CASE s = state
  BY <1>1, <1>2, <1>3, StreakOfObservation, PresenceAssumption DEF Observe, States, None
<1>4. CASE s # state /\ candidate # s
  <2>1. streak'.of = s /\ streak'.spans = 0
    BY <1>4, StreakOfObservation DEF Observe, States, None
  <2> QED
    BY <1>1, <1>2, <1>4, <2>1, PresenceAssumption DEF Observe, States, None
<1>5. CASE s # state /\ candidate = s /\ Debounced(Later(since, dt), s)
  <2>1. state' = s /\ streak' = NoStreak
    BY <1>5, StreakOfObservation DEF Observe, Confirm
  <2>2. toStore' \in EventTypes /\ (toStore' = "ENTER" <=> s = "PRESENT")
    BY <1>5 DEF Observe, Confirm, EventTypes, States
  <2> QED
    BY <1>1, <1>2, <1>5, <2>1, <2>2, PresenceAssumption
    DEF Observe, Confirm, NoStreak, States, EventTypes, None
<1>6. CASE s # state /\ candidate = s /\ ~Debounced(Later(since, dt), s)
  <2>1. streak.of = s /\ since = streak.spans
    BY <1>6 DEF States, None
  <2>2. streak'.of = s /\ streak'.spans = Later(since, dt) /\ since' = Later(since, dt)
    BY <1>6, <2>1, StreakOfObservation DEF Observe
  <2>3. Later(since, dt) < Threshold(s)
    BY <1>2, <1>6, PresenceAssumption DEF Debounced, Threshold
  <2> QED
    BY <1>1, <1>2, <1>6, <2>1, <2>2, <2>3, PresenceAssumption DEF Observe, States, None
<1> QED
  BY <1>3, <1>4, <1>5, <1>6

LEMMA ReadFailsStep ==
    ASSUME PresenceInv, NEW dt \in 1 .. MaxStep, ReadFails(dt)
    PROVE PresenceInv'
<1> USE DEF PresenceInv, PresenceTypeOK, EventOfState, LastEventTellsState,
           CandidateIsStreak, ChangesAreMade
<1>1. failures' \in 0 .. LostReads /\ failures' # 0
  BY PresenceAssumption DEF ReadFails
<1>2. 0 \in 0 .. Longest
  BY LaterType
<1>3. CASE failures' = LostReads /\ state = "PRESENT"
  BY <1>1, <1>2, <1>3 DEF ReadFails, Confirm, NoStreak, States, EventTypes, None
<1>4. CASE ~(failures' = LostReads /\ state = "PRESENT")
  <2>1. PICK o \in States \cup {None}, n \in 0 .. Longest : streak = [of |-> o, spans |-> n]
    OBVIOUS
  <2>2. Later(n, dt) \in 0 .. Longest /\ Later(since, dt) \in 0 .. Longest
    BY LaterType
  <2>3. streak' = IF o = None THEN streak ELSE [of |-> o, spans |-> Later(n, dt)]
    BY <1>4, <2>1 DEF ReadFails
  <2>4. streak' \in [of : States \cup {None}, spans : 0 .. Longest] /\ streak'.of = o
    BY <2>1, <2>2, <2>3
  <2>5. candidate # None => o = candidate /\ since = n
    BY <2>1 DEF None
  <2> QED
    BY <1>1, <1>4, <2>1, <2>2, <2>3, <2>4, <2>5 DEF ReadFails, States, None
<1> QED
  BY <1>3, <1>4

LEMMA PresenceInvariant == PresenceSpec => []PresenceInv
<1>1. ASSUME PresenceInv, [PresenceNext \/ DetectorRestarts]_presenceVars PROVE PresenceInv'
  <2> USE DEF PresenceInv, PresenceTypeOK, EventOfState, LastEventTellsState,
             CandidateIsStreak, ChangesAreMade
  <2>1. CASE StoreEvent
    BY <1>1, <2>1 DEF StoreEvent, EventTypes, None
  <2>2. CASE DetectorRestarts
    BY <1>1, <2>2, LaterType, PresenceAssumption
    DEF DetectorRestarts, NoStreak, States, EventTypes, None
  <2>3. CASE UNCHANGED presenceVars
    BY <1>1, <2>3 DEF presenceVars
  <2> QED
    BY <1>1, <2>1, <2>2, <2>3, ObserveStep, ReadFailsStep DEF PresenceNext
<1> QED
  BY PresenceInvInit, <1>1, PTL DEF PresenceSpec

(* While one process lives, ENTER and EXIT alternate and the last stored   *)
(* event says whether somebody is there (observe, force_exit).             *)
THEOREM EventsTellState == PresenceSpec => []LastEventTellsState
<1>1. PresenceInv => LastEventTellsState
  BY DEF PresenceInv
<1> QED
  BY PresenceInvariant, <1>1, PTL

(* No change is missed: what is observed for the debounce time, without a  *)
(* contrary observation, has become the state (observe).                   *)
THEOREM ChangesAlwaysMade == PresenceSpec => []ChangesAreMade
<1>1. PresenceInv => ChangesAreMade
  BY DEF PresenceInv
<1> QED
  BY PresenceInvariant, <1>1, PTL

(* Every debounced event is earned by observations of one kind that span   *)
(* the debounce time (observe).                                            *)
THEOREM ChangesAlwaysEarned == PresenceSpec => ChangesAreEarned
<1>1. ASSUME PresenceInv, [PresenceNext \/ DetectorRestarts]_presenceVars,
             toStore' \in EventTypes \ {toStore}, failures' = 0
      PROVE \E dt \in 1 .. MaxStep :
                /\ streak.of = state'
                /\ Later(streak.spans, dt) >= Threshold(state')
  <2>1. PICK s \in States, dt \in 1 .. MaxStep : Observe(s, dt)
    <3>1. ~StoreEvent /\ ~DetectorRestarts
      BY <1>1 DEF StoreEvent, DetectorRestarts, EventTypes, None
    <3>2. \A dt \in 1 .. MaxStep : ~ReadFails(dt)
      BY <1>1, PresenceAssumption DEF ReadFails, PresenceInv, PresenceTypeOK
    <3> QED
      BY <1>1, <3>1, <3>2 DEF PresenceNext, presenceVars
  <2>2. s # state /\ candidate = s /\ Debounced(Later(since, dt), s) /\ state' = s
    BY <1>1, <2>1 DEF Observe, Confirm
  <2>3. streak.of = s /\ since = streak.spans
    BY <1>1, <2>2 DEF PresenceInv, CandidateIsStreak, States, None
  <2> QED
    BY <2>1, <2>2, <2>3 DEF Debounced
<1>2. PresenceInv /\ [PresenceNext \/ DetectorRestarts]_presenceVars =>
        [toStore' \in EventTypes \ {toStore} /\ failures' = 0
           => \E dt \in 1 .. MaxStep :
                /\ streak.of = state'
                /\ Later(streak.spans, dt) >= Threshold(state')]_presenceVars
  BY <1>1
<1> QED
  BY PresenceInvariant, <1>2, PTL DEF PresenceSpec, ChangesAreEarned

-----------------------------------------------------------------------------
(* The tower's lights.                                                     *)

(* The code of the last row: while the tower has a name it is the light's  *)
(* code by the table SendLogger read, and the row itself unless its append *)
(* failed.                                                                 *)
LoggedCode ==
    lastCode # NoCode =>
        /\ ~rowLost => row = lastCode
        /\ cachedNamed => lastCode = cachedTable[light]

(* The last entries of a history, as many as the frames in a row that saw  *)
(* the light in its cell, are sightings; it may be shorter than these.     *)
SeenLast(h, frames) ==
    \A i \in 1 .. Len(h) : i + frames > Len(h) => h[i]

StreakIsInHistory ==
    steady.cell \in Cells => SeenLast(history[steady.cell], steady.frames)

SteadyOfCell == steady.cell = NoCell => steady.frames = 0

SignalInv ==
    /\ SignalTypeOK
    /\ LoggedCode
    /\ StreakIsInHistory
    /\ SteadyOfCell
    /\ SteadyLightIsOn

-----------------------------------------------------------------------------
(* The deque stays within its length, and a sighting appended to a history *)
(* whose last entries are sightings is one more.                           *)
LEMMA AppendedType ==
    ASSUME NEW h \in Frames, NEW b \in BOOLEAN
    PROVE Appended(h, b) \in Frames
<1>1. h \in Seq(BOOLEAN) /\ Len(h) \in Nat /\ Len(h) <= Window
  BY DEF Frames
<1>2. CASE Len(h) < Window
  <2>1. Append(h, b) \in Seq(BOOLEAN) /\ Len(Append(h, b)) = Len(h) + 1
    BY <1>1
  <2> QED
    BY <1>1, <1>2, <2>1, SignalAssumption DEF Appended, Frames
<1>3. CASE ~(Len(h) < Window)
  <2>1. Len(h) = Window /\ h # <<>>
    BY <1>1, <1>3, SignalAssumption
  <2>2. Tail(h) \in Seq(BOOLEAN) /\ Len(Tail(h)) = Window - 1
    BY <1>1, <2>1
  <2>3. Append(Tail(h), b) \in Seq(BOOLEAN) /\ Len(Append(Tail(h), b)) = Window
    BY <2>2, SignalAssumption
  <2> QED
    BY <1>3, <2>3, SignalAssumption DEF Appended, Frames
<1> QED
  BY <1>2, <1>3

LEMMA SightingAppended ==
    ASSUME NEW h \in Seq(BOOLEAN), NEW n \in Nat, SeenLast(h, n)
    PROVE SeenLast(Append(h, TRUE), n + 1)
<1>1. Len(h) \in Nat /\ Len(Append(h, TRUE)) = Len(h) + 1
  OBVIOUS
<1>2. ASSUME NEW i \in 1 .. Len(h) + 1, i + (n + 1) > Len(h) + 1
      PROVE Append(h, TRUE)[i]
  <2>1. CASE i = Len(h) + 1
    BY <1>1, <2>1
  <2>2. CASE i \in 1 .. Len(h)
    <3>1. h[i]
      BY <1>1, <1>2, <2>2 DEF SeenLast
    <3>2. Append(h, TRUE)[i] = h[i]
      BY <1>1, <2>2
    <3> QED
      BY <3>1, <3>2
  <2> QED
    BY <1>1, <2>1, <2>2
<1> QED
  BY <1>1, <1>2 DEF SeenLast

LEMMA AppendedSeen ==
    ASSUME NEW h \in Frames, NEW n \in Nat, SeenLast(h, n)
    PROVE SeenLast(Appended(h, TRUE), n + 1)
<1>1. h \in Seq(BOOLEAN) /\ Len(h) \in Nat /\ Len(h) <= Window
  BY DEF Frames
<1>2. CASE Len(h) < Window
  BY <1>1, <1>2, SightingAppended DEF Appended
<1>3. CASE ~(Len(h) < Window)
  <2>1. Len(h) = Window /\ h # <<>>
    BY <1>1, <1>3, SignalAssumption
  <2>2. Tail(h) \in Seq(BOOLEAN) /\ Len(Tail(h)) = Window - 1
    BY <1>1, <2>1
  <2>3. \A i \in 1 .. Window - 1 : Tail(h)[i] = h[i + 1]
    BY <1>1, <2>1, SignalAssumption
  <2>4. SeenLast(Tail(h), n)
    <3>1. ASSUME NEW i \in 1 .. Window - 1, i + n > Window - 1 PROVE h[i + 1]
      BY <2>1, <3>1, SignalAssumption DEF SeenLast
    <3> QED
      BY <2>2, <2>3, <3>1 DEF SeenLast
  <2> QED
    BY <1>3, <2>2, <2>4, SightingAppended DEF Appended
<1> QED
  BY <1>2, <1>3

(* A history of nothing but sightings does not blink.                      *)
LEMMA SightingsDoNotBlink ==
    ASSUME NEW h \in Frames, SeenLast(h, Window)
    PROVE ~Blinks(h)
<1> SUFFICES ASSUME Blinks(h) PROVE FALSE
  OBVIOUS
<1>1. \A i \in 1 .. Window : h[i]
  BY SignalAssumption DEF Blinks, SeenLast
<1>2. {i \in 1 .. Window : ~h[i]} = {}
  BY <1>1
<1>3. Cardinality({i \in 1 .. Window : ~h[i]}) = 0
  BY <1>2, FS_EmptySet
<1> QED
  BY <1>3, SignalAssumption DEF Blinks

LEMMA SignalInvInit == SignalInit => SignalInv
<1> SUFFICES ASSUME SignalInit PROVE SignalInv
  OBVIOUS
<1>1. <<>> \in Frames
  BY SignalAssumption DEF Frames
<1>2. SignalTypeOK
  <2>1. Regap + 1 \in 0 .. Regap + 1 /\ Debounce + 1 \in 0 .. Debounce + 1 /\ 0 \in 0 .. Window
    BY SignalAssumption
  <2>2. history \in [Cells -> Frames] /\ unseenIn \in [Cells -> 0 .. Regap + 1]
    BY <1>1, <2>1 DEF SignalInit
  <2>3. steady \in [cell : Cells \cup {NoCell}, frames : 0 .. Window]
    BY <2>1 DEF SignalInit
  <2>4. unseen \in 0 .. Debounce + 1 /\ light \in Lights
    BY <2>1 DEF SignalInit, Lights
  <2>5. NoCode \in Codes
    BY DEF Codes
  <2> QED
    BY <2>2, <2>3, <2>4, <2>5, Zenon DEF SignalInit, SignalTypeOK
<1>3. LoggedCode /\ StreakIsInHistory /\ SteadyOfCell /\ SteadyLightIsOn
  BY SignalAssumption
  DEF SignalInit, LoggedCode, StreakIsInHistory, SteadyOfCell, SteadyLightIsOn
<1> QED
  BY <1>2, <1>3 DEF SignalInv

(* What a frame makes of the histories, and of the sightings in a row.     *)
LEMMA FrameHistories ==
    ASSUME SignalInv, NEW c \in Cells \cup {NoCell},
           NEW reload \in BOOLEAN, NEW fails \in BOOLEAN, NEW midnight \in BOOLEAN,
           Frame(c, reload, fails, midnight)
    PROVE /\ history' \in [Cells -> Frames]
          /\ StreakIsInHistory'
          /\ SteadyOfCell'
          /\ steady' \in [cell : Cells \cup {NoCell}, frames : 0 .. Window]
<1>0. <<>> \in Frames /\ SeenLast(<<>>, 0)
  BY SignalAssumption DEF Frames, SeenLast
<1>1. \A d \in Cells : history[d] \in Frames
  BY DEF SignalInv, SignalTypeOK
<1>2. \A d \in Cells : HistoryAfter(c)[d] \in Frames
  BY <1>0, <1>1, AppendedType DEF HistoryAfter
<1>3. history' \in [Cells -> Frames]
  BY <1>2 DEF Frame, HistoryAfter
<1>4. PICK cell \in Cells \cup {NoCell}, n \in 0 .. Window :
          steady = [cell |-> cell, frames |-> n]
  BY DEF SignalInv, SignalTypeOK
<1>5. CASE c = NoCell
  <2>1. steady' = [cell |-> NoCell, frames |-> 0]
    BY <1>5 DEF Frame
  <2> QED
    BY <1>3, <2>1, SignalAssumption DEF StreakIsInHistory, SteadyOfCell
<1>6. CASE c # NoCell
  <2> DEFINE m == IF c = cell THEN Capped(n, Window) ELSE 1
  <2>1. steady' = [cell |-> c, frames |-> m]
    BY <1>4, <1>6 DEF Frame
  <2>2. m \in 0 .. Window
    BY SignalAssumption DEF Capped
  <2>3. PICK h \in Frames : /\ HistoryAfter(c)[c] = Appended(h, TRUE)
                            /\ h = <<>> \/ h = history[c]
    BY <1>0, <1>1, <1>6 DEF HistoryAfter
  <2>4. SeenLast(h, IF c = cell THEN n ELSE 0)
    <3>1. CASE h = <<>>
      BY <3>1 DEF SeenLast
    <3>2. CASE h = history[c] /\ c = cell
      BY <1>4, <1>6, <3>2 DEF SignalInv, StreakIsInHistory
    <3>3. CASE h = history[c] /\ c # cell
      <4>1. Len(h) \in Nat
        BY DEF Frames
      <4> QED
        BY <3>3, <4>1 DEF SeenLast
    <3> QED
      BY <2>3, <3>1, <3>2, <3>3
  <2>5. SeenLast(Appended(h, TRUE), (IF c = cell THEN n ELSE 0) + 1)
    <3>1. (IF c = cell THEN n ELSE 0) \in Nat
      OBVIOUS
    <3> QED
      BY <2>4, <3>1, AppendedSeen
  <2>6. SeenLast(HistoryAfter(c)[c], m)
    <3>1. HistoryAfter(c)[c] \in Frames
      BY <1>2, <1>6
    <3>2. Len(HistoryAfter(c)[c]) \in Nat /\ Len(HistoryAfter(c)[c]) <= Window
      BY <3>1 DEF Frames
    <3>3. SeenLast(HistoryAfter(c)[c], (IF c = cell THEN n ELSE 0) + 1)
      BY <2>3, <2>5
    <3> QED
      BY <3>2, <3>3, SignalAssumption DEF SeenLast, Capped
  <2>7. StreakIsInHistory'
    BY <2>1, <2>6 DEF StreakIsInHistory, Frame
  <2>8. SteadyOfCell'
    BY <1>6, <2>1 DEF SteadyOfCell
  <2> HIDE DEF m
  <2>9. steady' \in [cell : Cells \cup {NoCell}, frames : 0 .. Window]
    BY <2>1, <2>2
  <2> QED
    BY <1>3, <2>7, <2>8, <2>9
<1> QED
  BY <1>5, <1>6

LEMMA FrameRows ==
    ASSUME SignalInv, NEW c \in Cells \cup {NoCell},
           NEW reload \in BOOLEAN, NEW fails \in BOOLEAN, NEW midnight \in BOOLEAN,
           Frame(c, reload, fails, midnight)
    PROVE /\ light' \in Lights
          /\ cachedTable' \in CodeTables /\ cachedNamed' \in BOOLEAN
          /\ lastCode' \in Codes /\ row' \in Codes /\ rowLost' \in BOOLEAN
          /\ LoggedCode'
<1>1. light' \in Lights
  BY DEF SignalInv, SignalTypeOK, Frame, LightAfter, Lights
<1>2. cachedTable' \in CodeTables /\ cachedNamed' \in BOOLEAN
  BY DEF SignalInv, SignalTypeOK, Frame
<1>3. cachedTable'[light'] \in Codes /\ NoCode \in Codes
  BY <1>1, <1>2 DEF Codes
<1>4. lastCode' \in Codes /\ row' \in Codes /\ rowLost' \in BOOLEAN
  BY <1>3 DEF SignalInv, SignalTypeOK, Frame, UpdateRows
<1>5. LoggedCode'
  <2> DEFINE last == IF midnight THEN NoCode ELSE lastCode
  <2>1. CASE cachedNamed' /\ last # cachedTable'[light']
    BY <2>1 DEF Frame, UpdateRows, LoggedCode
  <2>2. CASE ~(cachedNamed' /\ last # cachedTable'[light'])
    BY <2>2 DEF Frame, UpdateRows, LoggedCode, SignalInv
  <2> QED
    BY <2>1, <2>2
<1> QED
  BY <1>1, <1>2, <1>4, <1>5

LEMMA FrameStep ==
    ASSUME SignalInv, NEW c \in Cells \cup {NoCell},
           NEW reload \in BOOLEAN, NEW fails \in BOOLEAN, NEW midnight \in BOOLEAN,
           Frame(c, reload, fails, midnight)
    PROVE SignalInv'
<1>1. /\ history' \in [Cells -> Frames]
      /\ StreakIsInHistory' /\ SteadyOfCell'
      /\ steady' \in [cell : Cells \cup {NoCell}, frames : 0 .. Window]
  BY FrameHistories
<1>2. /\ light' \in Lights
      /\ cachedTable' \in CodeTables /\ cachedNamed' \in BOOLEAN
      /\ lastCode' \in Codes /\ row' \in Codes /\ rowLost' \in BOOLEAN
      /\ LoggedCode'
  BY FrameRows
<1>3. unseenIn' \in [Cells -> 0 .. Regap + 1] /\ unseen' \in 0 .. Debounce + 1
  BY SignalAssumption DEF Frame, Capped, SignalInv, SignalTypeOK
<1>4. SignalTypeOK'
  BY <1>1, <1>2, <1>3 DEF SignalTypeOK, SignalInv, Frame
<1>5. SteadyLightIsOn'
  <2> SUFFICES ASSUME steady'.frames = Window PROVE light' = "on"
    BY DEF SteadyLightIsOn
  <2>1. steady'.cell = c /\ c \in Cells
    BY <1>1, SignalAssumption DEF Frame, SteadyOfCell
  <2>2. SeenLast(history'[c], Window) /\ history'[c] \in Frames
    BY <1>1, <2>1 DEF StreakIsInHistory
  <2>3. ~Blinks(HistoryAfter(c)[c])
    BY <2>2, SightingsDoNotBlink DEF Frame
  <2> QED
    BY <2>1, <2>3, SignalAssumption DEF Frame, LightAfter
<1> QED
  BY <1>1, <1>2, <1>4, <1>5 DEF SignalInv

LEMMA SignalInvStep == SignalInv /\ [SignalNext \/ SignalRestarted]_signalVars => SignalInv'
<1> SUFFICES ASSUME SignalInv, [SignalNext \/ SignalRestarted]_signalVars PROVE SignalInv'
  OBVIOUS
<1>1. ASSUME NEW c \in Cells, LightSeen(c) PROVE SignalInv'
  BY <1>1, FrameStep DEF LightSeen
<1>2. CASE LightUnseen
  BY <1>2, FrameStep DEF LightUnseen
<1>3. ASSUME NEW c \in Cells \cup {NoCell}, FirstOfDay(c) PROVE SignalInv'
  BY <1>3, FrameStep DEF FirstOfDay
<1>4. ASSUME NEW c \in Cells \cup {NoCell}, AppendFails(c) PROVE SignalInv'
  BY <1>4, FrameStep DEF AppendFails
<1>5. CASE EditCodes
  <2>1. SignalTypeOK'
    BY <1>5 DEF EditCodes, SignalInv, SignalTypeOK
  <2> QED
    BY <1>5, <2>1 DEF EditCodes, SignalInv, LoggedCode, StreakIsInHistory, SteadyOfCell,
                      SteadyLightIsOn
<1>6. CASE SignalRestarted
  <2>1. <<>> \in Frames
    BY SignalAssumption DEF Frames
  <2>2. SignalTypeOK'
    BY <1>6, <2>1, SignalAssumption DEF SignalRestarted, SignalInv, SignalTypeOK, Lights, Codes
  <2>3. LoggedCode' /\ StreakIsInHistory' /\ SteadyOfCell' /\ SteadyLightIsOn'
    BY <1>6, SignalAssumption
    DEF SignalRestarted, LoggedCode, StreakIsInHistory, SteadyOfCell, SteadyLightIsOn
  <2> QED
    BY <2>2, <2>3 DEF SignalInv
<1>7. CASE UNCHANGED signalVars
  BY <1>7 DEF signalVars, SignalInv, SignalTypeOK, LoggedCode, StreakIsInHistory,
              SteadyOfCell, SteadyLightIsOn
<1> QED
  BY <1>1, <1>2, <1>3, <1>4, <1>5, <1>6, <1>7 DEF SignalNext

LEMMA SignalInvariant == SignalSpec => []SignalInv
<1> QED
  BY SignalInvInit, SignalInvStep, PTL DEF SignalSpec

-----------------------------------------------------------------------------
(* The types of the light's history and of SendLogger's memory hold.       *)
THEOREM SignalTypes == SignalSpec => []SignalTypeOK
<1>1. SignalInv => SignalTypeOK
  BY DEF SignalInv
<1> QED
  BY <1>1, SignalInvariant, PTL

(* For every window, gap and debounce, a light that stood still in one     *)
(* cell for a whole window of frames is on, whatever was seen before.      *)
THEOREM SteadyLightOn == SignalSpec => []SteadyLightIsOn
<1>1. SignalInv => SteadyLightIsOn
  BY DEF SignalInv
<1> QED
  BY <1>1, SignalInvariant, PTL

(* For every set of code tables the operator may choose from, the last row *)
(* of the day tells the light of a named tower unless its append failed -  *)
(* across edits of codes and names, midnight and restarts.                 *)
THEOREM RowTellsLight == SignalSpec => []LastRowTellsLight
<1>1. SignalInv => LastRowTellsLight
  BY DEF SignalInv, LoggedCode, LastRowTellsLight
<1> QED
  BY <1>1, SignalInvariant, PTL

================================================================================
