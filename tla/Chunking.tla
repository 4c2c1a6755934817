------------------------------ MODULE Chunking ------------------------------
(***************************************************************************)
(* The chunk stage (ragbench/content.py): overlapping windows of the       *)
(* normalized text, the evidence units that are embedded, retrieved and    *)
(* cited.  One step is one turn of the loop.                               *)
(*                                                                         *)
(* A slice start..end is Python's: characters start + 1 to end.  A         *)
(* chunk's id is derived from the revision and its index, so it is the     *)
(* chunk's position in the result.                                         *)
(***************************************************************************)
EXTENDS Integers, Sequences

CONSTANTS Inputs,  \* what normalize may hand over: a text and its locations
          Limit    \* bound: largest chunk size and overlap configured

TextChars == {"visible", "blank"}
Slice == [start : Nat, end : Nat]
Input == [text : Seq(TextChars), locations : Seq(Slice)]

ASSUME InputsAssumption == Inputs \subseteq Input /\ Limit \in Nat

VARIABLES input, size, overlap,  \* the arguments
          pc,                    \* "check", "cut", "done" or "failed"
          start, chunks

args == <<input, size, overlap>>
vars == <<args, pc, start, chunks>>

Length == Len(input.text)
Visible(i) == i \in 1..Length /\ input.text[i] = "visible"

(* Character i lies in the slice.                                          *)
Within(i, slice) == slice.start < i /\ i <= slice.end
----------------------------------------------------------------------------
Init == /\ input \in Inputs /\ size \in 0..Limit /\ overlap \in 0..Limit
        /\ pc = "check" /\ start = 0 /\ chunks = <<>>

CheckConfig ==
  /\ pc = "check"
  /\ pc' = IF size < 1 \/ overlap >= size THEN "failed" ELSE "cut"
  /\ UNCHANGED <<args, start, chunks>>

LocationsTouching(slice) ==   \* mutant
  {l \in DOMAIN input.locations : /\ input.locations[l].start <= slice.end
                                  /\ input.locations[l].end >= slice.start}
LocationsIn(slice) ==
  {l \in DOMAIN input.locations : /\ input.locations[l].start < slice.end
                                  /\ input.locations[l].end > slice.start}

WindowEnd == IF start + size < Length THEN start + size ELSE Length
Window == [start |-> start, end |-> WindowEnd]

(* content.strip() leaves something.                                       *)
StartsVisible == Visible(start + 1)   \* mutant
HasText == \E i \in 1..Length : Visible(i) /\ Within(i, Window)

StepBySize == size   \* mutant
Advance == size - overlap

LastWindow == WindowEnd = Length

CutWindow ==
  /\ pc = "cut" /\ start < Length
  /\ chunks' = IF HasText
               THEN Append(chunks, [start |-> start, end |-> WindowEnd,
                                    locations |-> LocationsIn(Window)])
               ELSE chunks
  /\ IF LastWindow
     THEN pc' = (IF chunks' = <<>> THEN "failed" ELSE "done") /\ UNCHANGED start
     ELSE start' = start + Advance /\ UNCHANGED pc
  /\ UNCHANGED args

Next == CheckConfig \/ CutWindow
Spec == Init /\ [][Next]_vars
----------------------------------------------------------------------------
TypeOK ==
  /\ input \in Input /\ size \in 0..Limit /\ overlap \in 0..Limit
  /\ pc \in {"check", "cut", "done", "failed"}
  /\ start \in Nat
  /\ chunks \in Seq([start : Nat, end : Nat, locations : SUBSET Nat])

(* Every visible character of the text is in a chunk, whatever windows     *)
(* were skipped as blank: nothing of a document is beyond retrieval.       *)
Covered(i) == \E k \in DOMAIN chunks : Within(i, chunks[k])
EverythingCovered == pc = "done" => \A i \in 1..Length : Visible(i) => Covered(i)

(* A chunk is no larger than configured and never lies within another one: *)
(* both its ends move on, so there is no overlap-only tail.                *)
WindowsAdvance ==
  /\ \A k \in DOMAIN chunks : /\ chunks[k].start < chunks[k].end
                              /\ chunks[k].end <= chunks[k].start + size
                              /\ chunks[k].end <= Length
  /\ \A j, k \in DOMAIN chunks :
       j < k => chunks[j].start < chunks[k].start /\ chunks[j].end < chunks[k].end

WindowsSound == EverythingCovered /\ WindowsAdvance

(* Neighbouring chunks share the configured overlap, no more and no less.  *)
(* Windows of more than one character are never skipped as blank, because  *)
(* normalize leaves no two blanks together.                                *)
OverlapKept ==
  size > 1 => \A k \in DOMAIN chunks : k + 1 \in DOMAIN chunks =>
                chunks[k].end - chunks[k + 1].start = overlap

(* A chunk cites exactly the sections it has a character of.               *)
CitesItsSections ==
  \A k \in DOMAIN chunks : \A l \in DOMAIN input.locations :
    l \in chunks[k].locations <=>
      \E i \in 1..Length : Within(i, chunks[k]) /\ Within(i, input.locations[l])

SlicesFaithful == OverlapKept /\ CitesItsSections
=============================================================================
