------------------------------ MODULE QuotaRow ------------------------------
(***************************************************************************)
(* The row of a window on the dashboard (crates/teiryo/src/ui/             *)
(* dashboard.rs): the line of figures derived from it under its gauge.  A  *)
(* field is what it says, whether it carries the `~` of an uncertain       *)
(* start, whether it warns, what it is measured from, and its width in     *)
(* full and without its interval.                                          *)
(***************************************************************************)
EXTENDS Metrics

\* The widths, in cells, in full and without the interval; a field that shows
\* no interval, as one told from the average, has no short form.
Widths ==
  [pace |-> <<12>>, now |-> <<24, 11>>, cap |-> <<26, 13>>, at_cap |-> <<6>>,
   afford |-> <<12>>, at_reset |-> <<25, 14>>]

AverageWidths == [pace |-> <<12>>, cap |-> <<18>>, at_cap |-> <<6>>, at_reset |-> <<19>>]

Forms(field) ==
  IF field.from = "average" /\ field.name \in DOMAIN AverageWidths
  THEN AverageWidths[field.name] ELSE Widths[field.name]

Field(name, mark, warns, from) ==
  [name |-> name, mark |-> mark, warns |-> warns, from |-> from]

Only(condition, field) == IF condition THEN <<field>> ELSE <<>>

\* The cap from the recent rate: with a flat centre, only the fast end has one.
CapFromRate(w, projection, now) ==
  LET runway == projection.runway
      field(name) == Field(name, FALSE, Binding(projection, w, now), "rate")
  IN  Only(runway.mid = None /\ runway.low # None, field("cap"))
        \o Only(runway.mid # None,
                field(IF runway.mid <= 0 THEN "at_cap" ELSE "cap"))

CapFromAverage(w, mark, now) ==
  LET runway == Runway(w, now)
  IN  Only(runway # None,
           Field(IF runway <= 0 THEN "at_cap" ELSE "cap", mark /\ runway > 0,
                 EtaToCap(w, now) # None, "average"))

\* The fields of the derived line, most useful first.  The cap and the reset
\* are told from the recent rate, and from the average only without one.
DerivedFields(w, rate, now) ==
  LET mark       == StartIsUncertain(w)
      average    == Pace(w, now) # NoRatio
      projection == IF rate = NoRate THEN NoProjection ELSE Project(w, rate, now)
      projected  == projection # NoProjection
  IN  IF w = NoWindow THEN <<>> ELSE
      Only(average, Field("pace", mark, FALSE, "average"))
        \o Only(rate # NoRate, Field("now", FALSE, FALSE, "rate"))
        \o (IF projected THEN CapFromRate(w, projection, now)
            ELSE CapFromAverage(w, mark, now))
        \o Only(AffordablePace(w, now) # NoRatio,
                Field("afford", FALSE, FALSE, "window"))
        \o Only(projected \/ average,
                Field("at_reset", mark /\ ~projected, FALSE,
                      IF projected THEN "rate" ELSE "average"))

\* A multiple of the rate that spends the window over its own span.
Multiple(w, ratio) == [n |-> ratio.n * SpanOf(w), d |-> FULL * ratio.d]

\* What the field prints.
Figure(field, w, rate, now) ==
  CASE field.name = "pace"   -> Multiple(w, Pace(w, now))
    [] field.name = "now"    -> Multiple(w, Mid(rate))
    [] field.name = "afford" -> Multiple(w, AffordablePace(w, now))
    [] field.name = "at_reset" ->
         IF field.from = "rate" THEN AtReset(w, Mid(rate), now)
         ELSE Multiple(w, Pace(w, now))
    [] OTHER ->
         [n |-> IF field.from = "rate" THEN RunwayAt(w, Mid(rate)) ELSE Runway(w, now),
          d |-> 1]

-----------------------------------------------------------------------------
(* Fitting the fields into the width of the pane.                          *)

INDENT    == 4
SEPARATOR == 3

\* The next field: in full, else without its interval, if nothing before it was
\* left out.
AddField(line, field, width) ==
  LET separator == IF line.used > INDENT THEN SEPARATOR ELSE 0
      forms     == Forms(field)
      fits      == {i \in DOMAIN forms : line.used + forms[i] + separator <= width}
  IN  IF line.full \/ fits = {} THEN [line EXCEPT !.full = TRUE]
      ELSE [line EXCEPT !.used  = @ + forms[Min(fits)] + separator,
                        !.shown = Append(@, [name  |-> field.name,
                                             cells |-> forms[Min(fits)]])]

\* The widths of the fields shown, up to the first that fits neither way.
Fitted(fields, width) ==
  LET line[n \in 0 .. Len(fields)] ==
        IF n = 0 THEN [shown |-> <<>>, used |-> INDENT, full |-> FALSE]
        ELSE AddField(line[n - 1], fields[n], width)
  IN  line[Len(fields)].shown

-----------------------------------------------------------------------------
(* The list.                                                               *)

MIN_BAR == 8

\* Label, bar, usage, countdown and, if it has no line of its own, the pace:
\* the bar gets the columns the others leave.
GaugeLine(width, with_pace) ==
  LET fixed     == 2 + 24 + 7 + 11
      show_pace == with_pace /\ width >= fixed + 15 + MIN_BAR
      column    == IF show_pace THEN 15 ELSE 0
      bar       == Clamp(width - fixed - column, MIN_BAR, 48)
  IN  [pace |-> show_pace, cells |-> fixed + bar + column]

WindowLines(fields, width, two_line) ==
  [gauge   |-> GaugeLine(width, ~two_line),
   derived |-> IF two_line THEN Fitted(fields, width) ELSE <<>>]

\* The lines of a list of windows under their accounts' headers.
RenderQuotas(headers, windows, width, height) ==
  LET two_line == headers + 2 * Len(windows) <= height
  IN  [i \in DOMAIN windows |-> WindowLines(windows[i], width, two_line)]

=============================================================================
