---------------------------- MODULE SettingsText ----------------------------
(***************************************************************************)
(* The text of the settings file (settings.rs): the escaping of one value, *)
(* the merge of a save into a file that has lines of other programs, and   *)
(* what a load makes of it.  HostFiles models how the file is replaced.    *)
(*                                                                         *)
(* A text is a sequence of characters: "z" stands for all that need no     *)
(* escape, "ctl" for U+0001, "newline" for the characters with a short     *)
(* escape, and "a" for the hexadecimal digits.  A line has a kind; of the  *)
(* settings there are one credential, one setting and the quality wish.    *)
(***************************************************************************)
EXTENDS Integers, Sequences, SequencesExt

Characters == {"z", "a", "newline", "ctl", "\"", "\\", "@"}
Error == <<"error">>

-----------------------------------------------------------------------------
(* encode_ini() and decode_ini() *)

HexDigits == [ctl |-> <<"1">>, a |-> <<"6", "1">>]
HexValue  == "1" :> 1 @@ "6" :> 6 @@ "a" :> 10

\* Mutant: a digit after an escaped character is written as it is.
EncodeCharacter_Bare(s, c) ==
    CASE c \in {"\"", "\\"} -> [text |-> s.text \o <<"\\", c>>, hex |-> FALSE]
      [] c = "newline"      -> [text |-> s.text \o <<"\\", "n">>, hex |-> FALSE]
      [] c = "ctl"          -> [text |-> s.text \o <<"\\", "x">> \o HexDigits[c], hex |-> TRUE]
      [] OTHER              -> [text |-> Append(s.text, c), hex |-> FALSE]
(* "hex" is escape_next_hex: \x takes every digit that follows it.         *)
EncodeCharacter(s, c) ==
    CASE c \in {"\"", "\\"} -> [text |-> s.text \o <<"\\", c>>, hex |-> FALSE]
      [] c = "newline"      -> [text |-> s.text \o <<"\\", "n">>, hex |-> FALSE]
      [] c = "ctl" \/ (s.hex /\ c = "a") ->
             [text |-> s.text \o <<"\\", "x">> \o HexDigits[c], hex |-> TRUE]
      [] OTHER              -> [text |-> Append(s.text, c), hex |-> FALSE]

StartsWithAt(value) == value # <<>> /\ Head(value) = "@"

EncodeIni(value) ==
    LET marked == IF StartsWithAt(value) THEN <<"@">> \o value ELSE value
    IN  <<"\"">> \o FoldLeft(EncodeCharacter, [text |-> <<>>, hex |-> FALSE], marked).text
                 \o <<"\"">>

(* The character of a finished \x, if its digits name one.                 *)
Flushed(s) ==
    IF s.mode # "hex" THEN s
    ELSE LET code == FoldLeft(LAMBDA n, d : 16 * n + HexValue[d], 0, s.digits)
             known == {c \in DOMAIN HexDigits : s.digits = HexDigits[c]}
         IN  [s EXCEPT !.mode = IF s.digits = <<>> THEN "failed" ELSE "plain",
                       !.digits = <<>>,
                       !.out = Append(@, IF known = {} THEN <<"U+", code>>
                                         ELSE CHOOSE c \in known : TRUE)]

DecodeCharacter(s, c) ==
    IF s.mode = "failed" THEN s
    ELSE IF s.mode = "hex" /\ c \in DOMAIN HexValue
    THEN [s EXCEPT !.digits = Append(@, c)]
    ELSE IF s.mode = "escape"
    THEN CASE c = "n"            -> [s EXCEPT !.mode = "plain", !.out = Append(@, "newline")]
           [] c \in {"\"", "\\"} -> [s EXCEPT !.mode = "plain", !.out = Append(@, c)]
           [] c = "x"            -> [s EXCEPT !.mode = "hex"]
           [] OTHER              -> [s EXCEPT !.mode = "failed"]
    ELSE LET t == Flushed(s) IN
         IF t.mode = "failed" THEN t
         ELSE CASE c = "\"" -> [t EXCEPT !.quoted = ~@]
                [] c = "\\" -> [t EXCEPT !.mode = "escape"]
                [] OTHER    -> [t EXCEPT !.out = Append(@, c)]

DecodeIni(text) ==
    LET start == [out |-> <<>>, mode |-> "plain", digits |-> <<>>, quoted |-> FALSE]
        end   == Flushed(FoldLeft(DecodeCharacter, start, text))
    IN  IF end.mode # "plain" \/ end.quoted THEN Error
        ELSE IF ~StartsWithAt(end.out) THEN end.out
        ELSE IF Len(end.out) > 1 /\ end.out[2] = "@" THEN Tail(end.out)
        ELSE Error

(* A value that is saved is read back as it was, whatever is in it: the    *)
(* digits after an escape, quotes, a leading @.                            *)
ReadsBack(value) == DecodeIni(EncodeIni(value)) = value

-----------------------------------------------------------------------------
(* The lines of a file, and from_values(). *)

Keys == {"lanKey", "rotation", "wish"}
Damaged == [damaged |-> TRUE]
Default == [lanKey |-> "none", rotation |-> "0", wish |-> "auto"]
Own(key, value) == [kind |-> "own", key |-> key, value |-> value]
Plain(kind) == [kind |-> kind]
Sections == {Plain("general"), Plain("section")}

(* The section a line is in: what a [ line before it last said.            *)
SectionAt(file, i) ==
    LET above == {j \in 1 .. i : file[j] \in Sections}
    IN  IF above = {} THEN "top"
        ELSE file[CHOOSE j \in above : \A k \in above : k <= j].kind
Known(file, i) == file[i].kind = "own" /\ SectionAt(file, i) = "general"

(* parse_ini(): of two lines for one key the later one counts.             *)
Parsed(file) ==
    LET lines(key) == {i \in DOMAIN file : Known(file, i) /\ file[i].key = key}
    IN  [key \in {k \in Keys : lines(k) # {}} |->
            file[CHOOSE i \in lines(key) : \A j \in lines(key) : j <= i].value]

(* clamp_quality_to_edition(): 4K is above the cap of this edition.        *)
Clamped(settings) ==
    [settings EXCEPT !.wish = IF @ \in {"4k", "bad"} THEN "auto" ELSE @]
FromValues(values) ==
    IF "rotation" \in DOMAIN values /\ values["rotation"] = "bad" THEN Damaged
    ELSE Clamped(values @@ Default)

\* Mutant: a line for a known key is taken out of every section.
OthersLines_AnySection(file) ==
    LET kept == SelectSeq([i \in DOMAIN file |-> i], LAMBDA i : file[i].kind # "own")
    IN  [n \in DOMAIN kept |-> file[kept[n]]]
(* save() drops the lines it is about to write, and no others.             *)
OthersLines(file) ==
    LET kept == SelectSeq([i \in DOMAIN file |-> i], LAMBDA i : ~Known(file, i))
    IN  [n \in DOMAIN kept |-> file[kept[n]]]

Saved(file, settings) ==
    LET lines == OthersLines(file)
        own   == [n \in 1 .. 3 |-> LET key == <<"lanKey", "rotation", "wish">>[n]
                                   IN  Own(key, settings[key])]
        heads == {i \in DOMAIN lines : lines[i] = Plain("general")}
        head  == CHOOSE i \in heads : \A j \in heads : i <= j
    IN  IF heads = {} THEN Append(lines, Plain("general")) \o own
        ELSE SubSeq(lines, 1, head) \o own \o SubSeq(lines, head + 1, Len(lines))

(* Damaged settings are not replaced.                                      *)
MaySave(file) == FromValues(Parsed(file)) # Damaged

(* read(): a system-wide file fills in what the own one leaves open, never *)
(* the credential.                                                         *)
Read(file, fallback) ==
    LET common == Parsed(fallback)
    IN  FromValues(Parsed(file) @@ [k \in DOMAIN common \ {"lanKey"} |-> common[k]])

-----------------------------------------------------------------------------
(* Inputs and what is asked of them. *)

SomeLines == Sections \union {Plain("comment"), Own("lanKey", "key"), Own("rotation", "90"),
                              Own("rotation", "bad"), Own("wish", "4k")}
SomeFallbacks == {<<>>, <<Plain("general"), Own("lanKey", "other"), Own("rotation", "180")>>}
SomeSettings == [lanKey : {"none", "key"}, rotation : {"0", "270"}, wish : {"auto", "hd"}]

(* Every line of another program, with the section it is in.               *)
Others(file) ==
    LET lines == SelectSeq([i \in DOMAIN file |-> i],
                           LAMBDA i : ~Known(file, i) /\ file[i] \notin Sections)
    IN  [n \in DOMAIN lines |-> <<SectionAt(file, lines[n]), file[lines[n]].kind>>]

(* A save over any readable file loses no line of another program, moves   *)
(* none into another section, and is what the next load finds; a load that *)
(* clamped the wish and saved it clamps nothing more.                      *)
SavedIsLoaded(file, fallback, settings) ==
    MaySave(file) =>
        LET saved  == Saved(file, settings)
            loaded == Read(file, fallback)
        IN  /\ Others(saved) = Others(file)
            /\ Read(saved, fallback) = settings
            /\ Saved(saved, settings) = saved
            /\ loaded # Damaged =>
                   /\ Read(Saved(file, loaded), fallback) = loaded
                   /\ loaded["lanKey"] # "other"
=============================================================================
