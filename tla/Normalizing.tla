---------------------------- MODULE Normalizing -----------------------------
(***************************************************************************)
(* The normalize stage (ragbench/content.py): the parsed sections are      *)
(* cleaned and joined into one text, and each section that still has text  *)
(* gets the range it occupies, which chunks later cite as page, paragraph  *)
(* or table cell.                                                          *)
(*                                                                         *)
(* A character is visible, blank or control, which is all these functions  *)
(* look at; a section's location metadata is its position in the source.   *)
(* A range start..end is a Python slice: characters start + 1 to end.      *)
(***************************************************************************)
EXTENDS Naturals, Sequences, FiniteSets

CONSTANT Sources  \* what the parser may return: sequences of sections

Chars == {"visible", "blank", "control"}

ASSUME SourcesAssumption == Sources \subseteq Seq(Seq(Chars))

VARIABLES source,     \* the argument
          joining,    \* where it stands: "join", "done" or "failed"
          section,    \* the loop variable
          offset, parts, locations

normalizing == <<source, joining, section, offset, parts, locations>>

(* normalize_text: control characters go, a run of blanks becomes one, and *)
(* none is left at either end.                                             *)
BlankKept(acc, c) ==   \* mutant: a blank at the end stays
  IF c = "control" \/ (c = "blank" /\ (acc.gap \/ acc.clean = <<>>)) THEN acc
  ELSE [clean |-> Append(acc.clean, c), gap |-> c = "blank"]
Clean(acc, c) ==
  CASE c = "control" -> acc
    [] c = "blank"   -> [acc EXCEPT !.gap = acc.clean # <<>>]
    [] c = "visible" -> [clean |-> acc.clean \o (IF acc.gap THEN <<"blank", c>> ELSE <<c>>),
                         gap |-> FALSE]

NormalizeText(raw) ==
  LET after[i \in 0..Len(raw)] ==
        IF i = 0 THEN [clean |-> <<>>, gap |-> FALSE] ELSE Clean(after[i - 1], raw[i])
  IN after[Len(raw)].clean

(* "\n".join(parts): one blank between the parts.                          *)
Joined(ps) ==
  LET upTo[k \in 0..Len(ps)] ==
        IF k = 0 THEN <<>>
        ELSE IF k = 1 THEN ps[1] ELSE upTo[k - 1] \o <<"blank">> \o ps[k]
  IN upTo[Len(ps)]
----------------------------------------------------------------------------
NormalizeInit == /\ source \in Sources
                 /\ joining = "join" /\ section = 1 /\ offset = 0
                 /\ parts = <<>> /\ locations = <<>>

(* One turn of the loop.  The separator is counted before the section.     *)
SeparatorMissed == offset   \* mutant
SectionStart == IF parts = <<>> THEN offset ELSE offset + 1

JoinSection ==
  LET t == NormalizeText(source[section]) IN
  /\ joining = "join" /\ section <= Len(source)
  /\ IF t = <<>>
     THEN UNCHANGED <<offset, parts, locations>>
     ELSE /\ locations' = Append(locations, [section |-> section, start |-> SectionStart,
                                             end |-> SectionStart + Len(t)])
          /\ parts' = Append(parts, t)
          /\ offset' = SectionStart + Len(t)
  /\ section' = section + 1
  /\ UNCHANGED <<source, joining>>

EmptyAccepted == "done"   \* mutant
Outcome == IF parts = <<>> THEN "failed" ELSE "done"

Return == /\ joining = "join" /\ section > Len(source)
          /\ joining' = Outcome
          /\ UNCHANGED <<source, section, offset, parts, locations>>

NormalizeNext == JoinSection \/ Return
----------------------------------------------------------------------------
Text == Joined(parts)
Located(l) == SubSeq(Text, l.start + 1, l.end)
Visibles(s) == {i \in DOMAIN s : s[i] = "visible"}

(* Every recorded range, counted turn by turn, is where the final join     *)
(* puts that section: the location a citation shows is the text's own.     *)
LocationsMatchText ==
  /\ offset = Len(Text)
  /\ \A k \in DOMAIN locations :
       Located(locations[k]) = NormalizeText(source[locations[k].section])

(* No visible character is lost, no blank is left where a slice of one     *)
(* section could begin or end, and two blanks never meet.                  *)
NothingLost ==
  joining # "join" =>
    /\ Cardinality(Visibles(Text)) =
         Cardinality(UNION {{n} \X Visibles(source[n]) : n \in DOMAIN source})
    /\ \A k \in DOMAIN Text :
         Text[k] = "blank" => /\ k > 1 /\ k < Len(Text)
                              /\ Text[k - 1] = "visible" /\ Text[k + 1] = "visible"

TextKept == LocationsMatchText /\ NothingLost
=============================================================================
