----------------------------- MODULE OmnictlJson -----------------------------
(***************************************************************************)
(* parseOmnictlJson: omnictl prints its resources one after the other, and *)
(* the parser splits them by counting braces, character by character.      *)
(* Whatever is no brace, quote or backslash is the character "x".  The     *)
(* other form of output, one array, goes to JSON.parse as it is.           *)
(*                                                                         *)
(* printed is the sequence of resources, text what of them has arrived:    *)
(* the reference is that the objects are the resources that arrived whole. *)
(***************************************************************************)
EXTENDS Integers, Sequences, SequencesExt

CONSTANTS
    Objects,        \* resources as they are printed
    Separator,      \* what is printed between them
    MaxObjects      \* bound: resources printed

Chars == {"{", "}", "quote", "backslash", "x"}

\* How JSON is read, a character at a time: braces nest outside of strings, and within one
\* a backslash makes an ordinary character of the next.
Before == [depth |-> 0, inString |-> FALSE, escaped |-> FALSE]
Read(s, c) ==
    IF s.inString
    THEN [s EXCEPT !.escaped = ~@ /\ c = "backslash", !.inString = s.escaped \/ c # "quote"]
    ELSE [s EXCEPT !.inString = c = "quote",
                   !.depth = @ + (CASE c = "{" -> 1 [] c = "}" -> -1 [] OTHER -> 0)]
Reading(o) ==
    LET after[n \in 0 .. Len(o)] == IF n = 0 THEN Before ELSE Read(after[n - 1], o[n])
    IN  after

\* A resource is one JSON object: open from its first character, closed by its last.
Resource(o) ==
    /\ o \in Seq(Chars) /\ o # << >> /\ o[1] = "{"
    /\ \A n \in 1 .. Len(o) - 1 : Reading(o)[n].depth > 0
    /\ Reading(o)[Len(o)] = Before

Assumptions ==
    /\ MaxObjects \in Nat
    /\ \A o \in Objects : Resource(o)
    /\ Separator \in Seq({"x"})

VARIABLES
    printed, text,
    i, depth, start, inString, escaped,     \* as in the code; i counts from 1
    objects,        \* what has been split off
    status          \* "parsing", "done" or "thrown"

scanner == <<i, depth, start, inString, escaped>>
vars == <<printed, text, scanner, objects, status>>

Output(os) == FlattenSeq([k \in 1 .. Len(os) |-> os[k] \o Separator])

Init ==
    /\ printed \in UNION {[1 .. n -> Objects] : n \in 0 .. MaxObjects}
    /\ \E cut \in 0 .. Len(Output(printed)) : text = SubSeq(Output(printed), 1, cut)
    /\ i = 1 /\ depth = 0 /\ start = 0 /\ inString = FALSE /\ escaped = FALSE
    /\ objects = << >> /\ status = "parsing"

ch == text[i]
Throws == status' = "thrown" /\ UNCHANGED <<printed, text, scanner, objects>>
Scans == status = "parsing" /\ i <= Len(text)

Escapes ==
    IF escaped THEN escaped' = FALSE /\ UNCHANGED inString
    ELSE escaped' = (ch = "backslash") /\ inString' = (ch # "quote")
InString ==
    /\ Scans /\ inString
    /\ Escapes
    /\ i' = i + 1
    /\ UNCHANGED <<printed, text, depth, start, objects, status>>

Plain ==
    /\ Scans /\ ~inString /\ ch \notin {"{", "}"}
    /\ inString' = (ch = "quote")
    /\ i' = i + 1
    /\ UNCHANGED <<printed, text, depth, start, escaped, objects, status>>

Opens ==
    /\ Scans /\ ~inString /\ ch = "{"
    /\ start' = IF depth = 0 THEN i ELSE start
    /\ depth' = depth + 1 /\ i' = i + 1
    /\ UNCHANGED <<printed, text, inString, escaped, objects, status>>

SplitsOff == objects' = Append(objects, SubSeq(text, start, i)) /\ start' = 0
\* A brace that closes nothing is an error.
Closes ==
    /\ Scans /\ ~inString /\ ch = "}"
    /\ IF depth - 1 < 0 THEN Throws
       ELSE /\ depth' = depth - 1
            /\ IF depth - 1 = 0 /\ start > 0 THEN SplitsOff ELSE UNCHANGED <<objects, start>>
            /\ i' = i + 1
            /\ UNCHANGED <<printed, text, inString, escaped, status>>

Balanced == depth = 0
Finish ==
    /\ status = "parsing" /\ i > Len(text)
    /\ IF Balanced THEN status' = "done" /\ UNCHANGED <<printed, text, scanner, objects>>
       ELSE Throws

Next == InString \/ Plain \/ Opens \/ Closes \/ Finish
Spec == Init /\ [][Next]_vars

-----------------------------------------------------------------------------
\* The resources that arrived whole, and how many characters they take.
Whole(k) == Output(SubSeq(printed, 1, k))
Arrived == {k \in 0 .. Len(printed) : k = 0 \/ Len(Whole(k)) - Len(Separator) <= Len(text)}

\* The scanner's state: start is set just while an object is open, and an escape is pending
\* only within a string.
TypeOK ==
    /\ i \in 1 .. Len(text) + 1 /\ depth \in Nat /\ start \in 0 .. i - 1
    /\ escaped => inString
    /\ start > 0 <=> depth > 0
    /\ status \in {"parsing", "done", "thrown"}

\* The objects are the resources, each whole and in their order, whatever braces and
\* quotes their strings hold; output that ends within a resource is an error.
ParsedWhole ==
    status # "parsing" =>
       LET whole == CHOOSE k \in Arrived : \A j \in Arrived : j <= k
       IN  IF Len(text) <= Len(Whole(whole))
           THEN status = "done" /\ objects = SubSeq(printed, 1, whole)
           ELSE status = "thrown"
=============================================================================
