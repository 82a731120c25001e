----------------------------- MODULE IniParser ------------------------------
(***************************************************************************)
(* IniParser::execute(): lines of `key = value` in a buffer that is parsed *)
(* in place.  Keys and values are handed to a callback, onLine, which may  *)
(* go on to split the value in place.                                      *)
(***************************************************************************)
EXTENDS SplitMutableString

VARIABLES
  buf,         \* the file's bytes and the terminator
  line,        \* the iterator over lines: a range, and no
  key, value,  \* what onLine was given last: ranges
  at           \* "idle", "line", "onLine", "end", "badLine", "unknownKey"

parserVars == <<buf, line, key, value, at>>

Spaces == {" ", "\t", "\r", "\n"}
Nothing == [begin |-> 1, end |-> 1]
Lines(b) == [to |-> Len(b), delims |-> {"\n"}, merge |-> FALSE]

\* trimInplace().
Trimmed(b, r) ==
  LET solid == {i \in r.begin .. r.end - 1 : b[i] \notin Spaces}
  IN  IF solid = {} THEN [begin |-> r.end, end |-> r.end]
      ELSE [begin |-> Least(solid), end |-> Greatest(solid) + 1]

IsEmpty(r) == r.begin = r.end
Equals(r) == FirstOf(buf, {"="}, r.begin, r.end)
KeyIn(r) ==
  IF Equals(r) = r.end THEN Nothing ELSE Trimmed(buf, [begin |-> r.begin, end |-> Equals(r)])
ValueIn(r) == Trimmed(buf, [begin |-> Equals(r) + 1, end |-> r.end])

InitParser ==
  /\ buf = <<NUL>> /\ line = [begin |-> 1, end |-> 1, no |-> 0]
  /\ key = Nothing /\ value = Nothing /\ at = "idle"

\* The iterator goes to the part of buffer b that begins at position from.
GotoLine(b, from, no) ==
  LET part == Part(b, Lines(b), from)
  IN  /\ line' = [begin |-> part.begin, end |-> part.end, no |-> no]
      /\ buf' = Cut(b, Lines(b), part)

StartParsing(contents) ==
  /\ GotoLine(Append(contents, NUL), 1, 1)
  /\ at' = "line" /\ UNCHANGED <<key, value>>

NextLine == GotoLine(buf, line.end + 1, line.no + 1) /\ at' = "line" /\ UNCHANGED <<key, value>>

AtEnd == IsEnd(Lines(buf), line)
Text == Trimmed(buf, line)
IsComment == IsEmpty(Text) \/ buf[Text.begin] = "#"

\* Mutant: lines without a key or value do not count.
SkipLine_Uncounted ==
  /\ at = "line" /\ ~AtEnd /\ IsComment
  /\ GotoLine(buf, line.end + 1, line.no) /\ at' = "line" /\ UNCHANGED <<key, value>>

SkipLine == at = "line" /\ ~AtEnd /\ IsComment /\ NextLine

BadLine ==
  /\ at = "line" /\ ~AtEnd /\ ~IsComment /\ IsEmpty(KeyIn(Text))
  /\ at' = "badLine" /\ UNCHANGED <<buf, line, key, value>>

ParseLine ==
  /\ at = "line" /\ ~AtEnd /\ ~IsComment /\ ~IsEmpty(KeyIn(Text))
  /\ key' = KeyIn(Text) /\ value' = ValueIn(Text)
  /\ buf' = [buf EXCEPT ![KeyIn(Text).end] = NUL, ![ValueIn(Text).end] = NUL]
  /\ at' = "onLine" /\ UNCHANGED line

EndOfFile == at = "line" /\ AtEnd /\ at' = "end" /\ UNCHANGED <<buf, line, key, value>>

\* onLine returned false.
UnknownKey == at = "onLine" /\ at' = "unknownKey" /\ UNCHANGED <<buf, line, key, value>>
=============================================================================
