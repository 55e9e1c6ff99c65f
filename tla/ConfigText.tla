----------------------------- MODULE ConfigText -----------------------------
(***************************************************************************)
(* The text of a configuration file, and the two passes of config_parse()  *)
(* (src/src/config_file.c) over it: the one that reads the values, and the  *)
(* one of config_write() that copies every line but those it changes.       *)
(*                                                                         *)
(* A line is <<"section", s>>, <<"var", n, v>>, <<"comment">>,              *)
(* <<"include">> (the section and the variable that include another file)   *)
(* or <<"broken">>, which does not parse.  A file begins with a section.     *)
(***************************************************************************)
EXTENDS Sequences, SequencesExt

CONSTANTS Section, Name, Value, NoValue

Key == Section \X Name
NoVars == [k \in Key |-> <<>>]

-----------------------------------------------------------------------------
(* config_read(): every value of every variable, in order.  What the line    *)
(* <<"include">> brings in is parsed in its place.                           *)

Start == [ok |-> TRUE, section |-> NoValue, values |-> NoVars]

ReadLine(st, line) ==
    CASE ~st.ok -> st
      [] line[1] = "section" -> [st EXCEPT !.section = line[2]]
      [] line[1] = "include" -> [st EXCEPT !.section = NoValue]
      [] line[1] = "var" /\ st.section # NoValue ->
            [st EXCEPT !.values[<<st.section, line[2]>>] = Append(@, line[3])]
      [] line[1] = "broken" -> [st EXCEPT !.ok = FALSE]
      [] OTHER -> st

(* The text with the included text in place of each <<"include">>           *)
Expand(text, included) ==
    FlattenSeq([i \in DOMAIN text |->
        IF text[i][1] = "include" THEN <<text[i]>> \o included \o <<text[i]>>
        ELSE <<text[i]>>])

ConfigRead(text) == FoldLeft(ReadLine, Start, text)
Parses(text) == ConfigRead(text).ok
Values(text) == ConfigRead(text).values

-----------------------------------------------------------------------------
(* config_write(): w is what the call is to do.  w.preg is the set of values *)
(* that the regular expression matches when w.multi, w.value is NoValue to   *)
(* delete.                                                                  *)

(* A bug: the value is written again into every section of that name.        *)
MutWriteValue(st, w) == [st EXCEPT !.out = Append(@, <<"var", w.key[2], st.value>>)]

WriteValue(st, w) ==
    [st EXCEPT !.out = Append(@, <<"var", w.key[2], st.value>>),
               !.value = IF w.multi THEN @ ELSE NoValue]

FlushComments(st) == [st EXCEPT !.out = @ \o st.comments, !.comments = <<>>]
Copy(st, line) == [st EXCEPT !.out = Append(@, line)]

OnSection(st, w, line) ==
    LET section == IF line[1] = "include" THEN NoValue ELSE line[2]
        end == IF st.in_section /\ ~w.multi /\ st.value # NoValue
               THEN WriteValue(st, w) ELSE st
    IN  Copy(FlushComments([end EXCEPT !.in_section = section = w.key[1],
                                       !.section = section]), line)

Matched(st, w, line) ==
    st.in_section /\ line[2] = w.key[2] /\ (w.multi => line[3] \in w.preg)

OnVariable(st, w, line) ==
    LET s == FlushComments(st)
    IN  IF ~Matched(st, w, line) THEN Copy(s, line)
        ELSE IF st.value = NoValue THEN [s EXCEPT !.preg_replaced = TRUE]
        ELSE WriteValue([s EXCEPT !.preg_replaced = TRUE], w)

OnEof(st, w) ==
    LET s == FlushComments(st)
        head == IF st.section = w.key[1] THEN s ELSE Copy(s, <<"section", w.key[1]>>)
    IN  IF (~w.multi \/ ~st.preg_replaced) /\ st.value # NoValue
        THEN WriteValue(head, w) ELSE s

(* config_parse(): a line that does not parse ends the loop, and what on_eof  *)
(* returns takes the place of the error.                                    *)
ConfigWrite(text, w) ==
    LET Line(st, line) ==
            CASE ~st.ok -> st
              [] line[1] \in {"section", "include"} -> OnSection(st, w, line)
              [] line[1] = "var" -> OnVariable(st, w, line)
              [] line[1] = "comment" -> [st EXCEPT !.comments = Append(@, line)]
              [] OTHER -> [st EXCEPT !.ok = FALSE]
        begin == [ok |-> TRUE, out |-> <<>>, comments |-> <<>>, section |-> NoValue,
                  in_section |-> FALSE, preg_replaced |-> FALSE, value |-> w.value]
    IN  OnEof(FoldLeft(Line, begin, text), w).out

-----------------------------------------------------------------------------
(* Properties                                                              *)

(* What a set, a delete and their multivar forms make of the values of the   *)
(* one variable that they are called for.                                    *)
Wanted(old, w) ==
    IF ~w.multi THEN IF w.value = NoValue THEN <<>> ELSE <<w.value>>
    ELSE IF w.value = NoValue THEN SelectSeq(old, LAMBDA v : v \notin w.preg)
    ELSE IF \E j \in DOMAIN old : old[j] \in w.preg
    THEN [j \in DOMAIN old |-> IF old[j] \in w.preg THEN w.value ELSE old[j]]
    ELSE Append(old, w.value)

(* Whatever the order of sections, repeated ones included, the file that is   *)
(* written holds exactly the wanted values of the variable, every other       *)
(* variable keeps its values in their order, and no comment is lost.         *)
WriteIsExact(text, w) ==
    LET new == ConfigWrite(text, w)
        Comments(t) == Len(SelectSeq(t, LAMBDA l : l = <<"comment">>))
    IN  Parses(text) =>
        /\ Values(new) = [Values(text) EXCEPT ![w.key] = Wanted(@, w)]
        /\ Comments(new) = Comments(text)
=============================================================================
