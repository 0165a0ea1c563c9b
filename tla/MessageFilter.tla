--------------------------- MODULE MessageFilter ---------------------------
(***************************************************************************)
(* One message of a glslang log on its way through libshaderc_util's       *)
(* filter (message.cc): PrintFilteredErrors, ParseGlslangOutput and the    *)
(* search for a location between colons.  The filter has only characters;  *)
(* `meant' is what glslang had in mind when it wrote them (InfoSink.h).    *)
(*                                                                         *)
(* A text is a sequence of characters: a colon, "space", digits, and any   *)
(* others.  Two of its elements are longer: "C" stands for "compilation    *)
(* errors.", "V" for the rest of a listed string.  The prefixes, which are *)
(* literals, are kept apart from the text, and named without their blank.  *)
(***************************************************************************)
EXTENDS MessageTypes, SequencesExt

CONSTANTS FileNames,   \* the tags a client gives its source, input_file_name
          NameChars,   \* what names of files are made of
          MaxName,     \* bound: length of a name
          BodyChars,   \* what the text of a message is made of
          MaxBody,     \* bound: length of the text after a location
          MaxGlobal,   \* bound: length of a text without a location
          Digits,      \* "0123456789"
          MaxLine      \* bound: digits of a line number

ASSUME FileNameAssumption == FileNames \subseteq SeqOf(NameChars, MaxName)
ASSUME CharAssumption ==
  /\ Digits \cap {":", "space"} = {}
  /\ "V" \notin BodyChars  \* a text that is listed is in Listed
ASSUME BoundAssumption ==
  MaxName \in Nat /\ MaxBody \in Nat /\ MaxGlobal \in Nat /\ MaxLine \in Nat

VARIABLES
  pc,           \* where the filter is
  meant,        \* the message as glslang means it (history)
  file_name, warnings_as_errors, suppress_warnings,  \* the arguments
  source_name, line_number, rest,   \* results of ParseGlslangOutput
  first_colon,  \* first_colon_pos, 0 for npos
  type,         \* the MessageType, once it is known
  totals,       \* what was added to total_warnings and total_errors
  printed       \* what went to error_stream

arguments == <<meant, file_name, warnings_as_errors, suppress_warnings>>
parsed == <<source_name, line_number, rest>>
vars == <<pc, arguments, parsed, first_colon, type, totals, printed>>

(* The name of the injected preamble, as glslang and as the client has it. *)
InjectedName == <<"-", "1">>
CommandLine == <<"<command line>">>

Blank(t) == \A i \in DOMAIN t : t[i] = "space"

(* Where a text has something to see.                                      *)
Ink(t) == {i \in DOMAIN t : t[i] # "space"}

(* strip_whitespace.                                                       *)
StripWhitespace(t) ==
  IF Blank(t) THEN <<>> ELSE SubSeq(t, Min(Ink(t)), Max(Ink(t)))

-----------------------------------------------------------------------------
(* What glslang writes.                                                    *)

(* TInfoSinkBase::message with a location: name, line, and a text that     *)
(* does not start with a blank.                                            *)
Located ==
  [prefix : {"ERROR:", "WARNING:"}, rest : {"located"},
   name : SeqOf(NameChars, MaxName), line : SeqOf(Digits, MaxLine) \ {<<>>},
   body : {b \in SeqOf(BodyChars, MaxBody) : b # <<>> /\ b[1] # "space"}]

(* The number of errors that ends a failed parse.                          *)
IsTotal(t) == \E n \in 1 .. Len(t) - 2 :
  (\A i \in 1 .. n : t[i] \in Digits) /\ t[n + 1] = "space" /\ t[n + 2] = "C"

(* Without a location: anything, or a total; "Warning," is never alone.   *)
Unlocated ==
  {m \in [prefix : {"ERROR:", "WARNING:", "Warning,", "other"}, rest : {"global", "summary"},
          name : {<<>>}, line : {<<>>}, body : SeqOf(BodyChars, MaxGlobal) \ {<<>>}] :
     IF m.prefix = "Warning," THEN m.rest = "global" /\ ~Blank(m.body)
     ELSE (m.rest = "summary") <=> IsTotal(StripWhitespace(m.body))}

(* ignored_error_strings: unfinished versions, link headings, nothing.     *)
IgnoredErrorStrings == {<<"Warning,", <<"V">>>>, <<"other", <<"V">>>>, <<"other", <<>>>>}
Listed == {[prefix |-> s[1], rest |-> "ignorable", name |-> <<>>, line |-> <<>>, body |-> s[2]] :
             s \in IgnoredErrorStrings}

Text(m) == IF m.rest = "located" THEN m.name \o <<":">> \o m.line \o <<":", "space">> \o m.body
                                 ELSE m.body

-----------------------------------------------------------------------------
(* string_piece.                                                           *)

(* find_first_of(':', pos), with 0 for npos.                               *)
FindColon(t, pos) ==
  LET colons == {i \in pos .. Len(t) : t[i] = ":"}
  IN  IF colons = {} THEN 0 ELSE Min(colons)

-----------------------------------------------------------------------------
Init ==
  /\ pc = "list"
  /\ meant \in Located \cup Unlocated \cup Listed
  /\ file_name \in FileNames
  /\ warnings_as_errors \in BOOLEAN /\ suppress_warnings \in BOOLEAN
  /\ source_name = <<>> /\ line_number = <<>> /\ rest = <<>>
  /\ first_colon = 0
  /\ type = "none"
  /\ totals = [warnings |-> 0, errors |-> 0]
  /\ printed = [name |-> <<>>, line |-> <<>>, what |-> "nothing", rest |-> <<>>]

Goto(l) == pc' = l
Is(t) == type' = t /\ Goto("print")
(* The error or the warning of a pair of types.                            *)
Either(error, warning) ==
  Is(IF meant.prefix = "ERROR:" \/ warnings_as_errors THEN error ELSE warning)

(* The strings that PrintFilteredErrors skips.                             *)
SkipListed ==
  /\ pc = "list"
  /\ Goto(IF <<meant.prefix, Text(meant)>> \in IgnoredErrorStrings THEN "done" ELSE "type")
  /\ UNCHANGED <<arguments, parsed, first_colon, type, totals, printed>>

(* DeduceMessageType and the switch on its result; rest is both the local  *)
(* rest_of_message and the result, which nobody reads if the type is       *)
(* Ignored or Unknown.                                                     *)
DeduceMessageType ==
  /\ pc = "type"
  /\ rest' = Text(meant)
  /\ CASE meant.prefix = "other" -> Is("Unknown")
       [] meant.prefix \in {"WARNING:", "Warning,"} /\ suppress_warnings -> Is("Ignored")
       [] meant.prefix = "Warning," /\ ~suppress_warnings ->
            Either("GlobalError", "GlobalWarning")
       [] OTHER -> Goto("strip") /\ UNCHANGED type
  /\ UNCHANGED <<arguments, source_name, line_number, first_colon, totals, printed>>

(* Mutant of Strip: the text is searched as it comes.                      *)
StripNothing ==
  /\ pc = "strip"
  /\ IF Blank(rest) THEN Is("Unknown") /\ UNCHANGED first_colon
     ELSE IF Len(rest) <= 4 THEN Goto("global") /\ UNCHANGED <<first_colon, type>>
     ELSE /\ first_colon' = FindColon(rest, 1)
          /\ Goto("scan")
          /\ UNCHANGED type
  /\ UNCHANGED <<arguments, parsed, totals, printed>>

(* A blank text is Unknown; one that is too short has no location; else    *)
(* the search starts at the first colon.                                   *)
Strip ==
  /\ pc = "strip"
  /\ rest' = StripWhitespace(rest)
  /\ IF rest' = <<>> THEN Is("Unknown") /\ UNCHANGED first_colon
     ELSE IF Len(rest') <= 4 THEN Goto("global") /\ UNCHANGED <<first_colon, type>>
     ELSE /\ first_colon' = FindColon(rest', 1)
          /\ Goto("scan")
          /\ UNCHANGED type
  /\ UNCHANGED <<arguments, source_name, line_number, totals, printed>>

(* DeduceLocationSpec, one pair of colons.                                 *)
first_colon_cutoff == Len(rest) - 3
next_colon_cutoff == Len(rest) - 1
NextColon == FindColon(rest, first_colon + 1)
InReach(first, next) ==
  /\ first # 0 /\ first <= first_colon_cutoff
  /\ next # 0 /\ next <= next_colon_cutoff

(* A pair with digits between its colons, and a blank after them.          *)
IsLocation(first, next) ==
  /\ first + 1 # next
  /\ rest[next + 1] = "space"
  /\ \A i \in first + 1 .. next - 1 : rest[i] \in Digits

(* Mutant of FoundLocation: the line number ends one character late.       *)
FoundLocationWide ==
  /\ pc = "scan" /\ InReach(first_colon, NextColon) /\ IsLocation(first_colon, NextColon)
  /\ source_name' = SubSeq(rest, 1, first_colon - 1)
  /\ line_number' = SubSeq(rest, first_colon + 1, NextColon)
  /\ rest' = SubSeq(rest, NextColon + 2, Len(rest))
  /\ Either("Error", "Warning")
  /\ UNCHANGED <<arguments, first_colon, totals, printed>>

FoundLocation ==
  /\ pc = "scan" /\ InReach(first_colon, NextColon) /\ IsLocation(first_colon, NextColon)
  /\ source_name' = SubSeq(rest, 1, first_colon - 1)
  /\ line_number' = SubSeq(rest, first_colon + 1, NextColon - 1)
  /\ rest' = SubSeq(rest, NextColon + 2, Len(rest))
  /\ Either("Error", "Warning")
  /\ UNCHANGED <<arguments, first_colon, totals, printed>>

(* Mutant of TryNextPair: the next pair starts behind the second colon.    *)
TryNextPairBehind ==
  /\ pc = "scan" /\ InReach(first_colon, NextColon) /\ ~IsLocation(first_colon, NextColon)
  /\ first_colon' = FindColon(rest, NextColon + 1)
  /\ UNCHANGED <<pc, arguments, parsed, type, totals, printed>>

(* Two pairs may share a colon.                                            *)
TryNextPair ==
  /\ pc = "scan" /\ InReach(first_colon, NextColon) /\ ~IsLocation(first_colon, NextColon)
  /\ first_colon' = NextColon
  /\ UNCHANGED <<pc, arguments, parsed, type, totals, printed>>

NoLocation ==
  /\ pc = "scan" /\ ~InReach(first_colon, NextColon)
  /\ Goto("global")
  /\ UNCHANGED <<arguments, parsed, first_colon, type, totals, printed>>

(* Mutant of IsSummaryMessage: what comes before the blank is not looked at. *)
IsSummaryMessageLoose(t) ==
  \E space \in DOMAIN t :
    /\ t[space] = "space" /\ \A i \in 1 .. space - 1 : t[i] # "space"
    /\ space < Len(t) /\ t[space + 1] = "C"

(* Digits, the first blank, "compilation errors."                          *)
IsSummaryMessage(t) ==
  \E space \in DOMAIN t :
    /\ t[space] = "space" /\ \A i \in 1 .. space - 1 : t[i] \in Digits
    /\ space < Len(t) /\ t[space + 1] = "C"

Global ==
  /\ pc = "global"
  /\ IF IsSummaryMessage(rest) THEN Either("ErrorSummary", "WarningSummary")
                               ELSE Either("GlobalError", "GlobalWarning")
  /\ UNCHANGED <<arguments, parsed, first_colon, totals, printed>>

(* PrintFilteredErrors: the name to show.                                  *)
ShownName ==
  IF source_name = <<>> THEN file_name
  ELSE IF source_name = InjectedName THEN CommandLine ELSE source_name

Line(line, what, r) == printed' = [name |-> ShownName, line |-> line, what |-> what, rest |-> r]
Count(t) == IF type \in t THEN 1 ELSE 0

PrintMessage ==
  /\ pc = "print"
  /\ totals' = [errors |-> Count({"Error", "GlobalError"}),
                warnings |-> Count({"Warning", "GlobalWarning"})]
  /\ CASE type \in {"Error", "GlobalError"} ->
            Line(line_number, "error", StripWhitespace(rest))
       [] type \in {"Warning", "GlobalWarning"} ->
            Line(line_number, "warning", StripWhitespace(rest))
       [] type = "Unknown" -> Line(<<>>, "message", Text(meant))
       [] OTHER -> UNCHANGED printed
  /\ Goto("done")
  /\ UNCHANGED <<arguments, parsed, first_colon, type>>

Next == \/ SkipListed \/ DeduceMessageType \/ Strip
        \/ FoundLocation \/ TryNextPair \/ NoLocation
        \/ Global \/ PrintMessage
Spec == Init /\ [][Next]_vars

-----------------------------------------------------------------------------
(* Properties.                                                             *)

Characters == NameChars \cup BodyChars \cup Digits \cup {":", "space", "V"}
Texts == Seq(Characters)
TypeOK ==
  /\ pc \in {"list", "type", "strip", "scan", "global", "print", "done"}
  /\ meant \in [prefix : {"ERROR:", "WARNING:", "Warning,", "other"},
                rest : {"located", "global", "summary", "ignorable"},
                name : Texts, line : Seq(Digits), body : Texts]
  /\ file_name \in FileNames
  /\ warnings_as_errors \in BOOLEAN /\ suppress_warnings \in BOOLEAN
  /\ source_name \in Texts /\ line_number \in Seq(Digits) /\ rest \in Texts
  /\ first_colon \in 0 .. Len(Text(meant))
  /\ type \in {"none", "Warning", "Error", "ErrorSummary", "WarningSummary",
               "GlobalWarning", "GlobalError", "Unknown", "Ignored"}
  /\ totals \in [warnings : 0 .. 1, errors : 0 .. 1]
  /\ printed \in [name : Texts \cup {CommandLine}, line : Seq(Digits), rest : Texts,
                  what : {"nothing", "error", "warning", "message"}]

(* A text that holds colon, digits, colon, blank looks like a location.    *)
HoldsLocation(t) ==
  \E i, j \in DOMAIN t :
    /\ t[i] = ":" /\ t[j] = ":" /\ i + 1 < j
    /\ \A k \in i + 1 .. j - 1 : t[k] \in Digits
    /\ j < Len(t) /\ t[j + 1] = "space"
(* Messages whose names and texts do not mislead the search.               *)
Plain == ~HoldsLocation(meant.name) /\ (meant.rest = "located" \/ ~HoldsLocation(meant.body))

(* Names of files may hold colons, digits and blanks: a located message is *)
(* still shown with the name, the line and the text that glslang gave it,  *)
(* "<command line>" for the preamble, the client's tag for no name         *)
(* (DeduceLocationSpec takes the first pair of colons that fits).          *)
LocationIsTheOneMeant ==
  pc = "done" /\ printed.what # "nothing" /\ meant.rest = "located" /\ Plain
              /\ (meant.name # <<>> => meant.name[1] # "space") =>
    /\ printed.name = (CASE meant.name = <<>> -> file_name
                         [] meant.name = InjectedName -> CommandLine
                         [] OTHER -> meant.name)
    /\ printed.line = meant.line
    /\ printed.rest = StripWhitespace(meant.body)

(* The type found in the characters is the one of the message meant, and   *)
(* so is what is counted: errors once, warnings as the options say, totals *)
(* and listed strings never (ParseGlslangOutput; CompilePipeline counts    *)
(* with these definitions).                                                *)
ClassifiedAsMeant ==
  pc = "done" /\ Plain /\ ~Blank(Text(meant)) =>
    /\ meant.rest # "ignorable" =>
         type = MessageType(meant, warnings_as_errors, suppress_warnings)
    /\ totals.errors = NewErrors(<<meant>>, warnings_as_errors, suppress_warnings)
    /\ totals.warnings = NewWarnings(<<meant>>, warnings_as_errors, suppress_warnings)

(* Whatever the text, a message is shown with something to read, and with  *)
(* a line number exactly if its type is that of a located one (the         *)
(* assertions of PrintFilteredErrors on line_number and rest, which rely   *)
(* on the strip before the search).                                        *)
NothingIsLost ==
  pc = "done" /\ printed.what \in {"error", "warning"} =>
    /\ ~Blank(printed.rest)
    /\ (type \in {"Error", "Warning"}) <=> (printed.line # <<>>)
=============================================================================
