------------------------------- MODULE TextEdits -------------------------------
(***************************************************************************)
(* What edit, multi_edit and apply_patch make of a text (tools/fs.rs and   *)
(* tools/apply_patch.rs).  A text is the sequence of its lines, a line the *)
(* mark it begins with and the rest of it; the strings an edit looks for   *)
(* and puts in are runs of whole lines.                                    *)
(***************************************************************************)
EXTENDS Naturals, Sequences, FiniteSets

\* A plain line, a header of a patch ("@@", "---", "+++", "diff"), a line it takes away
\* and one it adds.
Marks == {" ", "@", "-", "+"}
Line == [mark : Marks, body : STRING]
Edit == [old : Seq(Line), new : Seq(Line)]

Plain(body) == [mark |-> " ", body |-> body]
Blank == Plain("")

\* The places where a run of lines stands in a text, overlapping ones too.
Places(text, run) ==
  {p \in 1 .. Len(text) + 1 - Len(run) : SubSeq(text, p, p + Len(run) - 1) = run}

\* str::matches: from the left, and none that overlaps the one before.
Matches(text, run) ==
  LET found[p \in 0 .. Len(text) + 1] ==
        IF p = 0 THEN {}
        ELSE IF p \in Places(text, run) /\ \A q \in found[p - 1] : q + Len(run) <= p
             THEN found[p - 1] \cup {p}
             ELSE found[p - 1]
  IN  found[Len(text) + 1]

\* The text with what is put in at each of some matches, and of its lines those that
\* none of these covers.
ReplaceAt(text, matches, edit) ==
  LET kept(p) == p <= Len(text) /\ \A q \in matches : p < q \/ p >= q + Len(edit.old)
      out[p \in 0 .. Len(text) + 1] ==
        IF p = 0 THEN <<>>
        ELSE out[p - 1] \o (IF p \in matches THEN edit.new ELSE <<>>)
                        \o (IF kept(p) THEN <<text[p]>> ELSE <<>>)
  IN  out[Len(text) + 1]

\* str::replace.
ReplaceEvery(text, edit) == ReplaceAt(text, Matches(text, edit.old), edit)

PutAt(text, p, edit) ==
  SubSeq(text, 1, p - 1) \o edit.new \o SubSeq(text, p + Len(edit.old), Len(text))

\* str::replacen(old, new, 1).
FirstPlace(text, run) == CHOOSE p \in Places(text, run) : \A q \in Places(text, run) : p <= q
ReplaceFirst(text, edit) == PutAt(text, FirstPlace(text, edit.old), edit)

\* What a tool computes: a text to write, or an error.
Fails == [error |-> TRUE, text |-> <<>>]
Gives(text) == [error |-> FALSE, text |-> text]

\* edit that takes the first place, however many there are.
EditFirst(text, edit, all) ==
  IF Matches(text, edit.old) = {} THEN Fails
  ELSE Gives(IF all THEN ReplaceEvery(text, edit) ELSE ReplaceFirst(text, edit))

\* edit that takes the first place where it is to take all.
EditOnce(text, edit, all) ==
  LET count == Cardinality(Matches(text, edit.old))
  IN  IF count = 0 \/ (count > 1 /\ ~all) THEN Fails ELSE Gives(ReplaceFirst(text, edit))

\* edit: the old string must be there, and once unless all are to be replaced.
EditText(text, edit, all) ==
  LET count == Cardinality(Matches(text, edit.old))
  IN  IF count = 0 \/ (count > 1 /\ ~all) THEN Fails
      ELSE Gives(IF all THEN ReplaceEvery(text, edit) ELSE ReplaceFirst(text, edit))

\* A series that leaves out what it does not find.
EditSeriesLenient(text, edits) ==
  LET left[i \in 0 .. Len(edits)] ==
        IF i = 0 THEN text
        ELSE IF edits[i].old = <<>> \/ Places(left[i - 1], edits[i].old) = {} THEN left[i - 1]
             ELSE ReplaceFirst(left[i - 1], edits[i])
  IN  Gives(left[Len(edits)])

\* multi_edit and the edits of apply_patch: each replaces the first place in what
\* the one before left; an empty old string is passed over, one that is not found
\* ends the call.
NextEdit(out, edit) ==
  IF out.error \/ edit.old = <<>> THEN out
  ELSE IF Places(out.text, edit.old) = {} THEN Fails
  ELSE Gives(ReplaceFirst(out.text, edit))

EditSeries(text, edits) ==
  LET out[i \in 0 .. Len(edits)] ==
        IF i = 0 THEN Gives(text) ELSE NextEdit(out[i - 1], edits[i])
  IN  out[Len(edits)]

\* apply_unified_diff: it reads the marked lines of the file, not the patch.  Headers
\* and blank lines go; a line with a minus takes away the first line like it of what
\* was copied so far; one with a plus adds itself.  No change is an error.
NextLine(out, line) ==
  LET plain == Plain(line.body)
      copied == Append(out.text, plain)
  IN  IF line.mark = "@" \/ line = Blank THEN out
      ELSE IF line.mark = " " THEN [out EXCEPT !.text = copied]
      ELSE IF line.mark = "+" THEN Gives(copied)
      ELSE IF Places(out.text, <<plain>>) = {} THEN out
      ELSE Gives(ReplaceFirst(out.text, [old |-> <<plain>>, new |-> <<>>]))

ApplyDiff(text) ==
  LET out[i \in 0 .. Len(text)] == IF i = 0 THEN Fails ELSE NextLine(out[i - 1], text[i])
  IN  IF out[Len(text)].error THEN Fails ELSE out[Len(text)]

\* A write at the start of a file over what stands there: what is longer stays.
Overlay(text, under) == text \o SubSeq(under, Len(text) + 1, Len(under))
===============================================================================
