------------------------------ MODULE SignalLog ------------------------------
(***************************************************************************)
(* From detections to rows of send_logs (child/Picamera.py): one light of  *)
(* one signal tower.  Each frame the detector sees the light or not; a     *)
(* history of frames, kept per cell of a grid over the image, tells steady *)
(* from blinking, a debounce tells off, and SendLogger appends a row when  *)
(* the tower's status code changes or a new day begins.                    *)
(*                                                                         *)
(* A frame is the unit of time.  The Web server edits the code patterns    *)
(* and the towers' names; SendLogger reads them at most every 5 seconds.   *)
(***************************************************************************)
EXTENDS Naturals, Sequences, FiniteSets

CONSTANTS
    Cells,        (* cells of the grid the light's centre may fall into     *)
    NoCell,       (* the light is not seen                                  *)
    Window,       (* frames of history (45)                                 *)
    Regap,        (* frames unseen after which the history starts anew      *)
    Debounce,     (* frames unseen after which the light is off             *)
    CodeTables,   (* the status codes an operator may define                *)
    NoCode        (* no row yet                                             *)

ASSUME SignalAssumption ==
    /\ NoCell \notin Cells
    /\ Window \in Nat \ {0} /\ Regap \in Nat /\ Debounce \in Nat

Lights == {"off", "on", "blink"}

VARIABLES
    history,      (* st_color_history, per cell                             *)
    unseenIn,     (* frames since the light was last seen in a cell         *)
    unseen,       (* frames since it was last seen at all                   *)
    light,        (* st_change_prev_state                                   *)
    table, named, (* what the Web server's files say                        *)
    cachedTable, cachedNamed,     (* what SendLogger read of them           *)
    lastCode,     (* SendLogger.prev_codes                                  *)
    row,          (* the last row of the tower in the day's file            *)
    rowLost,      (* history: the append of the last row failed             *)
    steady        (* history: frames in a row that saw it in one cell       *)

signalVars == <<history, unseenIn, unseen, light, table, named, cachedTable,
                cachedNamed, lastCode, row, rowLost, steady>>

Frames == {h \in Seq(BOOLEAN) : Len(h) <= Window}

Codes == {t[l] : t \in CodeTables, l \in Lights} \cup {NoCode}

SignalTypeOK ==
    /\ history \in [Cells -> Frames]
    /\ unseenIn \in [Cells -> 0 .. Regap + 1]
    /\ unseen \in 0 .. Debounce + 1
    /\ light \in Lights
    /\ table \in CodeTables /\ cachedTable \in CodeTables
    /\ named \in BOOLEAN /\ cachedNamed \in BOOLEAN
    /\ lastCode \in Codes /\ row \in Codes
    /\ rowLost \in BOOLEAN
    /\ steady \in [cell : Cells \cup {NoCell}, frames : 0 .. Window]

SignalInit ==
    /\ history = [c \in Cells |-> <<>>]
    /\ unseenIn = [c \in Cells |-> Regap + 1]
    /\ unseen = Debounce + 1
    /\ light = "off"
    /\ table \in CodeTables /\ named \in BOOLEAN
    /\ cachedTable = table /\ cachedNamed = named
    /\ lastCode = NoCode /\ row = NoCode
    /\ rowLost = FALSE
    /\ steady = [cell |-> NoCell, frames |-> 0]

Capped(n, max) == IF n < max THEN n + 1 ELSE max

(* As "Appended", to a deque without maxlen.                               *)
AppendedUncapped(h, b) == Append(h, b)

(* deque(maxlen).append *)
Appended(h, b) ==
    IF Len(h) < Window THEN Append(h, b) ELSE Append(Tail(h), b)

(* Blinking: a full history with more than a fifth of misses.              *)
Blinks(h) ==
    /\ Len(h) = Window
    /\ 5 * Cardinality({n \in 1 .. Window : ~h[n]}) > Window

(* The histories after a frame that saw the light in cell c.  A cell seen  *)
(* again after more than the gap starts anew; one not seen in this frame   *)
(* gets a miss, if it has a history at all.                                *)
HistoryAfter(c) ==
    [d \in Cells |->
        IF d = c
        THEN Appended(IF unseenIn[d] >= Regap THEN <<>> ELSE history[d], TRUE)
        ELSE IF history[d] = <<>> THEN <<>> ELSE Appended(history[d], FALSE)]

(* As "LightAfter", where blinking in any cell counts.                     *)
LightAfterAnyCell(c) ==
    IF c # NoCell
    THEN IF \E d \in Cells : Blinks(HistoryAfter(c)[d]) THEN "blink" ELSE "on"
    ELSE IF unseen >= Debounce THEN "off" ELSE light

(* The state is read off the cell's history before this frame's misses are *)
(* added; unseen, the light keeps its state until the debounce is over.    *)
LightAfter(c) ==
    IF c # NoCell
    THEN IF Blinks(HistoryAfter(c)[c]) THEN "blink" ELSE "on"
    ELSE IF unseen >= Debounce THEN "off" ELSE light

(* As "UpdateRows", not noticing the new day.                              *)
UpdateRowsSameDay(fails, midnight) ==
    LET code == cachedTable'[light']
        logs == cachedNamed' /\ lastCode # code
    IN  /\ lastCode' = IF logs THEN code ELSE lastCode
        /\ row' = IF logs /\ ~fails THEN code ELSE IF midnight THEN NoCode ELSE row
        /\ rowLost' = IF logs THEN fails ELSE rowLost /\ ~midnight

(* SendLogger.update: the tables are read again (_reload_cfg), midnight    *)
(* begins a new file, and a tower that has a name gets a row if its code   *)
(* is not the last one logged; a failed append is swallowed.               *)
UpdateRows(fails, midnight) ==
    LET last == IF midnight THEN NoCode ELSE lastCode
        code == cachedTable'[light']
    IN  IF cachedNamed' /\ last # code
        THEN /\ lastCode' = code
             /\ row' = IF ~fails THEN code ELSE IF midnight THEN NoCode ELSE row
             /\ rowLost' = fails
        ELSE /\ lastCode' = last
             /\ row' = IF midnight THEN NoCode ELSE row
             /\ rowLost' = (rowLost /\ ~midnight)

Frame(c, reload, fails, midnight) ==
    /\ history' = HistoryAfter(c)
    /\ unseenIn' = [d \in Cells |-> IF d = c THEN 0 ELSE Capped(unseenIn[d], Regap + 1)]
    /\ unseen' = IF c # NoCell THEN 0 ELSE Capped(unseen, Debounce + 1)
    /\ light' = LightAfter(c)
    /\ cachedTable' = IF reload THEN table ELSE cachedTable
    /\ cachedNamed' = IF reload THEN named ELSE cachedNamed
    /\ UpdateRows(fails, midnight)
    /\ steady' = [cell |-> c, frames |-> IF c # NoCell /\ c = steady.cell
                                         THEN Capped(steady.frames, Window)
                                         ELSE IF c = NoCell THEN 0 ELSE 1]
    /\ UNCHANGED <<table, named>>

LightSeen(c) == \E reload \in BOOLEAN : Frame(c, reload, FALSE, FALSE)

LightUnseen == \E reload \in BOOLEAN : Frame(NoCell, reload, FALSE, FALSE)

FirstOfDay(c) == Frame(c, TRUE, FALSE, TRUE)

AppendFails(c) == \E midnight \in BOOLEAN : Frame(c, FALSE, TRUE, midnight)

EditCodes ==
    /\ \/ table' \in CodeTables \ {table} /\ UNCHANGED named
       \/ named' = ~named /\ UNCHANGED table
    /\ UNCHANGED <<history, unseenIn, unseen, light, cachedTable, cachedNamed,
                   lastCode, row, rowLost, steady>>

(* A new process knows neither the light nor what it logged.               *)
SignalRestarted ==
    /\ history' = [c \in Cells |-> <<>>]
    /\ unseenIn' = [c \in Cells |-> Regap + 1]
    /\ unseen' = Debounce + 1
    /\ light' = "off"
    /\ cachedTable' = table /\ cachedNamed' = named
    /\ lastCode' = NoCode
    /\ steady' = [cell |-> NoCell, frames |-> 0]
    /\ UNCHANGED <<table, named, row, rowLost>>

SignalNext ==
    \/ \E c \in Cells : LightSeen(c)
    \/ LightUnseen
    \/ \E c \in Cells \cup {NoCell} : FirstOfDay(c) \/ AppendFails(c)
    \/ EditCodes

SignalSpec == SignalInit /\ [][SignalNext \/ SignalRestarted]_signalVars

-----------------------------------------------------------------------------
(* A light that stood still and was seen in every frame of a whole window  *)
(* is on, whatever was seen before: no earlier gap, blinking or stay in    *)
(* another cell lingers in its history.                                    *)
SteadyLightIsOn == steady.frames = Window => light = "on"

(* The last row of the day's file tells the light of a named tower as it   *)
(* is by the codes as they are - across edits of codes and names, midnight *)
(* and restarts - unless the append of that row failed.                    *)
LastRowTellsLight ==
    lastCode # NoCode /\ cachedNamed /\ ~rowLost => row = cachedTable[light]
=============================================================================
