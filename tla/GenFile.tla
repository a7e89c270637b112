------------------------------- MODULE GenFile -------------------------------
(***************************************************************************)
(* The name of the log file that the GenFile destination opens: the loop   *)
(* of ELGenFileOutput's constructor over the '%' of the file pattern, one  *)
(* action for each kind of directive.  pos is a size_t, and a position     *)
(* beyond the end, such as npos, ends the loop.                            *)
(*                                                                         *)
(* A pattern is put together from tokens.  What a directive prints is a    *)
(* text of a few letters, and may have a '%' among them: strftime prints   *)
(* one for a timestamp_pattern with "%%" in it, and a program may have one *)
(* in its name.                                                            *)
(***************************************************************************)
EXTENDS Integers, Sequences, SequencesExt

CONSTANTS
    Tokens,         \* the tokens that patterns are made of
    MaxTokens,      \* bound: tokens in a pattern
    Leads,          \* letters in front of the tokens
    Hosts,          \* the names of the host
    Programs,       \* the names of the program
    Times           \* what strftime prints

Size == 2^16        \* stands for 2^64

Spelling ==
    [token \in {"%N", "%?N", "%H", "%?H", "%p", "%t", "%T", "%%", "%U", "%?U", ".", "-", "work"} |->
        CASE token = "%N" -> <<"%", "N">>       [] token = "%?N" -> <<"%", "?", "N">>
          [] token = "%H" -> <<"%", "H">>       [] token = "%?H" -> <<"%", "?", "H">>
          [] token = "%p" -> <<"%", "p">>       [] token = "%t" -> <<"%", "t">>
          [] token = "%T" -> <<"%", "T">>       [] token = "%%" -> <<"%", "%">>
          [] token = "%U" -> <<"%", "U">>       [] token = "%?U" -> <<"%", "?", "U">>
          [] token = "work" -> <<"w", "r", "k">>  [] OTHER -> <<token>>]

HostName == [host \in {"work", "work.fnal", "db.fnal"} |->
    CASE host = "work" -> <<"w", "r", "k">>
      [] host = "work.fnal" -> <<"w", "r", "k", ".", "f">>
      [] host = "db.fnal" -> <<"d", "b", ".", "f">>]

ASSUME TokensAssumption == Tokens \subseteq DOMAIN Spelling /\ Hosts \subseteq DOMAIN HostName
ASSUME BoundsAssumption == MaxTokens \in Nat /\ Leads \subseteq Nat

VARIABLES
    tokens, lead,   \* the pattern as it was given, and what is in front of it
    filePattern, pos,
    printed_as      \* exeString, hostString, the pid, timeBuff and timeBuffISO

nameVars == <<tokens, lead, filePattern, pos, printed_as>>

sep == <<"+">>

\* The first '.' ends the host's name, if there are three letters before it.
Shortened(name) ==
    LET dots == {i \in 1 .. Len(name) : name[i] = "."} IN
    IF \E i \in dots : i - 1 > 2 /\ \A j \in dots : i <= j
    THEN SubSeq(name, 1, (CHOOSE i \in dots : \A j \in dots : i <= j) - 1)
    ELSE name

Spelled(ts) == FlattenSeq([i \in 1 .. Len(ts) |-> Spelling[ts[i]]])

\* configureMessageFacility puts the program's name in front.
Pattern(ts) == [i \in 1 .. lead |-> "x"] \o Spelled(ts)

Occurs(name, text) ==
    \E i \in 0 .. Len(text) - Len(name) : SubSeq(text, i + 1, i + Len(name)) = name

\* Of what it can print, the constructor looks up what its pattern asks for.
LookedUp(letter, text) ==
    IF Occurs(<<"%", letter>>, filePattern) \/ Occurs(<<"%", "?", letter>>, filePattern)
    THEN text ELSE <<>>

NameInit ==
    /\ \E n \in 0 .. MaxTokens : tokens \in [1 .. n -> Tokens]
    /\ lead \in Leads
    /\ filePattern = Pattern(tokens)
    /\ pos = 0
    /\ \E exe \in Programs, host \in Hosts, time \in Times :
          printed_as = [N |-> LookedUp("N", exe), H |-> LookedUp("H", Shortened(HostName[host])),
                        p |-> <<"1">>, t |-> LookedUp("t", time), T |-> LookedUp("T", <<"3">>)]

-----------------------------------------------------------------------------
(* std::string: positions count from 0 *)

At(i) == IF i < Len(filePattern) THEN filePattern[i + 1] ELSE "NUL"
Percents == {i \in 0 .. Len(filePattern) - 1 : i >= pos /\ At(i) = "%"}
More == Percents # {}
\* pos after "pos = filePattern.find('%', pos) + 1".
Found == (CHOOSE i \in Percents : \A j \in Percents : i <= j) + 1
LastDot == SelectLastInSeq(filePattern, LAMBDA c : c = ".") - 1

Replaced(from, n, by) ==
    SubSeq(filePattern, 1, from) \o by \o SubSeq(filePattern, from + n + 1, Len(filePattern))

-----------------------------------------------------------------------------
(* The cases of the switch *)

\* "pos -= n"
Back(p, n) == (p - n) % Size

\* '%': the percent sign that is left is found again.
Percent ==
    /\ More /\ At(Found) = "%"
    /\ filePattern' = Replaced(Found - 1, 2, <<"%">>)
    /\ pos' = Back(Found, 1)
    /\ UNCHANGED <<tokens, lead, printed_as>>

Letters == {"N", "H", "p", "t", "T"}

\* One of the letters: the text that is printed is searched again.
Fill ==
    /\ More /\ At(Found) \in Letters
    /\ filePattern' = Replaced(Found - 1, 2, printed_as[At(Found)])
    /\ pos' = Back(Found, 2)
    /\ UNCHANGED <<tokens, lead, printed_as>>

\* A mutant of AtEnd: the suffix is forgotten.
AtEndOnly(p) == p + 1 = Len(filePattern) - 1
\* The directive is the last token, before the last '.'.
AtEnd(p) == p + 1 = Len(filePattern) - 1 \/ p + 2 = LastDot

\* '?' with 'N' or 'H': the name is searched for in the whole pattern.
FillOnce ==
    LET name == printed_as[At(Found + 1)]
        by == IF Occurs(name, filePattern) THEN <<>>
              ELSE IF AtEnd(Found) THEN name ELSE name \o sep IN
    /\ More /\ At(Found) = "?" /\ At(Found + 1) \in {"N", "H"}
    /\ filePattern' = Replaced(Found - 1, 3, by)
    /\ pos' = Back(Found, 3)
    /\ UNCHANGED <<tokens, lead, printed_as>>

\* A mutant of Past: "pos += 3" is missing.
PastNot(p) == IF At(p) = "?" THEN Back(p, 3) ELSE p
\* "pos += 3" and "pos -= 3"
Past(p) == p

\* Anything else stays.
Keep ==
    /\ More
    /\ At(Found) \notin Letters \cup {"%"}
    /\ ~(At(Found) = "?" /\ At(Found + 1) \in {"N", "H"})
    /\ pos' = Past(Found)
    /\ UNCHANGED <<tokens, lead, filePattern, printed_as>>

Done == ~More

NameNext == Percent \/ Fill \/ FillOnce \/ Keep

-----------------------------------------------------------------------------
(* The documented name: the tokens, left to right *)

Optional == {"%?N", "%?H"}
NameOf(token) == printed_as[IF token = "%?N" THEN "N" ELSE "H"]
From(i) == Spelled(SubSeq(tokens, i, Len(tokens)))

\* What the token at i adds to what has been parsed.
Meaning(parsed, i) ==
    LET token == tokens[i]
        rest  == From(i + 1) IN
    CASE token = "%%" -> <<"%">>
      [] token \in {"%N", "%H", "%p", "%t", "%T"} -> printed_as[Spelling[token][2]]
      [] token \in Optional ->
            IF Occurs(NameOf(token), parsed) THEN <<>>
            ELSE IF rest = <<>> \/ (rest[1] = "." /\ ~Contains(Tail(rest), ".")) THEN NameOf(token)
            ELSE NameOf(token) \o sep
      [] OTHER -> Spelling[token]

Parsed(n) ==
    LET parsed[i \in 0 .. n] ==
            IF i = 0 THEN Pattern(<<>>)
            ELSE parsed[i - 1] \o Meaning(parsed[i - 1], i) IN
    parsed[n]

Documented == Parsed(Len(tokens))

-----------------------------------------------------------------------------
(* Where the loop does otherwise *)

\* No text that is printed has a '%' of its own.
PlainTexts == \A letter \in Letters : ~Contains(printed_as[letter], "%")

\* A directive is so near to the front that pos wraps, which ends the loop
\* before the others.
InFront ==
    \E i \in DOMAIN tokens :
        LET before == Len(Pattern(SubSeq(tokens, 1, i - 1))) IN
        /\ \/ tokens[i] \in {"%N", "%H", "%p", "%t", "%T"} /\ before < 1
           \/ tokens[i] \in Optional /\ before < 2
        /\ Contains(From(i + 1), "%")

\* The name of an optional directive is not in what has been parsed, but in
\* what is still to come.
NamedAhead ==
    \E i \in DOMAIN tokens :
        /\ tokens[i] \in Optional
        /\ ~Occurs(NameOf(tokens[i]), Parsed(i - 1))
        /\ Occurs(NameOf(tokens[i]), Parsed(i - 1) \o From(i))
=============================================================================
