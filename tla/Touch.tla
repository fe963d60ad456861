--------------------------------- MODULE Touch ---------------------------------
(***************************************************************************)
(* The touch screen: src/src/cst8xx.rs reads the controller's reports over *)
(* I2C in two transactions, src/src/touch.rs maps them to the panel, and   *)
(* the controller's pin interrupts when there is a new report.  The        *)
(* controller is external, and so is the application, which disables the   *)
(* pin before it reads and enables it afterwards (touch.rs:120, 125).      *)
(***************************************************************************)
EXTENDS Integers, Sequences

CONSTANTS
  RangeX, RangeY,  \* set_range: the panel
  MAX_TOUCHES,
  MaxFingers       \* fingers on it, perhaps more than MAX_TOUCHES

U16 == 65536

ASSUME TouchAssumption ==
  RangeX \in 1 .. U16 - 1 /\ RangeY \in 1 .. U16 - 1 /\ MAX_TOUCHES \in Nat /\ MaxFingers \in Nat

VARIABLES
  flags,    \* set_transform
  report,   \* what the controller has: the fingers' raw points
  pinPending, pinOn, \* the pin's status bit, and its enable bit
  touchAt,  \* the handler: "out", "count", "data" or "enable"
  count,    \* TOUCH_NUM as it was read
  seen,     \* the report whose points were read last
  failed,   \* the last read ended in an error
  moved,    \* the report has changed since the count was read
  points    \* what read_points has returned

touchVars == <<flags, report, pinPending, pinOn, touchAt, count, seen, failed, moved, points>>

Raw == [x : 0 .. RangeX - 1, y : 0 .. RangeY - 1]
Reports == UNION {[1 .. n -> Raw] : n \in 0 .. MaxFingers}

TouchInit ==
  /\ flags \in [y_reverse : BOOLEAN, x_reverse : BOOLEAN, xy_exchange : BOOLEAN]
  /\ report = <<>> /\ pinPending = FALSE /\ pinOn = TRUE /\ touchAt = "out"
  /\ count = 0 /\ seen = <<>> /\ failed = FALSE /\ moved = FALSE /\ points = <<>>

-----------------------------------------------------------------------------
Sub16(a, b) == (a - b + U16) % U16
Mirror(reverse, range, v) == IF reverse THEN Sub16(range, v) ELSE v

MutCoordTransform(p) ==                             \* mirrored about the axis it came from
  IF flags.xy_exchange
  THEN [x |-> Mirror(flags.x_reverse, RangeX, p.y), y |-> Mirror(flags.y_reverse, RangeY, p.x)]
  ELSE [x |-> Mirror(flags.x_reverse, RangeX, p.x), y |-> Mirror(flags.y_reverse, RangeY, p.y)]

CoordTransform(p) ==
  IF flags.xy_exchange
  THEN [x |-> Mirror(flags.x_reverse, RangeY, p.y), y |-> Mirror(flags.y_reverse, RangeX, p.x)]
  ELSE [x |-> Mirror(flags.x_reverse, RangeX, p.x), y |-> Mirror(flags.y_reverse, RangeY, p.y)]

\* Fingers come, move and go; the pin falls.
Report ==
  /\ \E r \in Reports \ {report} : report' = r
  /\ pinPending' = TRUE /\ moved' = TRUE
  /\ UNCHANGED <<flags, pinOn, touchAt, count, seen, failed, points>>

\* The interrupt is taken: int_disable acknowledges it and disables the pin.
IntDisable ==
  /\ touchAt = "out" /\ pinPending /\ pinOn /\ touchAt' = "count"
  /\ pinPending' = FALSE /\ pinOn' = FALSE
  /\ UNCHANGED <<flags, report, count, seen, failed, moved, points>>

\* touch_count: none, or so many as there is room for.
Shown(n) == IF n < MAX_TOUCHES THEN n ELSE MAX_TOUCHES

MutReadCount ==                                     \* more than the array has room for
  /\ touchAt = "count" /\ count' = Len(report) /\ moved' = FALSE
  /\ IF report = <<>> THEN touchAt' = "enable" /\ seen' = report /\ points' = <<>> /\ failed' = FALSE
     ELSE touchAt' = "data" /\ UNCHANGED <<seen, points, failed>>
  /\ UNCHANGED <<flags, report, pinPending, pinOn>>

ReadCount ==
  /\ touchAt = "count" /\ count' = Shown(Len(report)) /\ moved' = FALSE
  /\ IF report = <<>> THEN touchAt' = "enable" /\ seen' = report /\ points' = <<>> /\ failed' = FALSE
     ELSE touchAt' = "data" /\ UNCHANGED <<seen, points, failed>>
  /\ UNCHANGED <<flags, report, pinPending, pinOn>>

MutReadData ==                                      \* every point from the first one's bytes
  /\ touchAt = "data" /\ touchAt' = "enable"
  /\ \E stale \in Raw :
       points' = [i \in 1 .. count |->
                    CoordTransform(IF report # <<>> THEN report[1] ELSE stale)]
  /\ seen' = report /\ failed' = FALSE
  /\ UNCHANGED <<flags, report, pinPending, pinOn, count, moved>>

\* The data registers hold every finger there is now, and for the rest what they
\* held last: some point.
ReadData ==
  /\ touchAt = "data" /\ touchAt' = "enable"
  /\ \E stale \in Raw :
       points' = [i \in 1 .. count |->
                    CoordTransform(IF i <= Len(report) THEN report[i] ELSE stale)]
  /\ seen' = report /\ failed' = FALSE
  /\ UNCHANGED <<flags, report, pinPending, pinOn, count, moved>>

\* Either transaction fails, and read_points with it.
ReadFails ==
  /\ touchAt \in {"count", "data"} /\ touchAt' = "enable" /\ failed' = TRUE
  /\ UNCHANGED <<flags, report, pinPending, pinOn, count, seen, moved, points>>

MutIntEnable ==                                     \* acknowledged here, and not before
  /\ touchAt = "enable" /\ touchAt' = "out" /\ pinOn' = TRUE /\ pinPending' = FALSE
  /\ UNCHANGED <<flags, report, count, seen, failed, moved, points>>

\* int_enable.
IntEnable ==
  /\ touchAt = "enable" /\ touchAt' = "out" /\ pinOn' = TRUE
  /\ UNCHANGED <<flags, report, pinPending, count, seen, failed, moved, points>>

TouchStep == Report \/ IntDisable \/ ReadCount \/ ReadData \/ ReadFails \/ IntEnable

-----------------------------------------------------------------------------
TouchTypeOK ==
  /\ report \in Reports /\ seen \in Reports /\ count \in 0 .. MAX_TOUCHES
  /\ touchAt \in {"out", "count", "data", "enable"}

\* A report that comes while the last one is being read, or between its reading
\* and the enabling of the pin, is not forgotten: it is pending when the handler
\* is out, unless the application has got an error and reads again.
NoTouchMissed == (touchAt = "out" /\ ~failed) => pinPending \/ seen = report

\* Points are given for the fingers on the panel and no others, as long as the
\* report does not change between the two transactions.
PointsAreFingers ==
  (touchAt = "enable" /\ ~failed /\ ~moved) =>
    points = [i \in 1 .. Shown(Len(report)) |-> CoordTransform(report[i])]

\* The panel as the driver's caller sees it, its axes exchanged or not.
ShownWidth == IF flags.xy_exchange THEN RangeY ELSE RangeX
ShownHeight == IF flags.xy_exchange THEN RangeX ELSE RangeY

\* A finger on the panel is never mapped below zero, which a u16 would turn into a
\* coordinate far away, nor further out than one past the panel, in any of the eight
\* orientations.  One past it is where the code maps the first row of a mirrored axis
\* (touch.rs:77, 88), against the "panel dimensions in pixels" of touch.rs:69.
WithinOneOfPanel ==
  \A i \in DOMAIN points :
    points[i].x \in 0 .. ShownWidth /\ points[i].y \in 0 .. ShownHeight

\* From the pin's edge to the points (touch.rs:70-128, cst8xx.rs:145-198): none missed,
\* none invented, none further out than one past the panel.
TouchKept == NoTouchMissed /\ PointsAreFingers /\ WithinOneOfPanel
=============================================================================
