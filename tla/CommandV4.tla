----------------------------- MODULE CommandV4 ------------------------------
(***************************************************************************)
(* The v4 command grammar of the slink library (src/v4/cmd): what          *)
(* Command::from_str makes of a command line, as the server's codec hands  *)
(* it over (terminator stripped, never empty).  A text is a sequence of    *)
(* one-character strings.  The result is the outcome class that decides    *)
(* what tcp_read and the main loop do with the line:                       *)
(*   "AUTH" "BYE" "DATA" "END" "ENDFETCH" "HELLO" "INFOID" "SELECT"        *)
(*   "SLPROTO" "STATION" "USERAGENT"    a parsed command                   *)
(*   "INFOOTHER"  INFO with an item other than ID                          *)
(*   "FOO"        an unknown command name (Command::Unknown)              *)
(*   "BADARGS"    a ProtocolErrorV4 without the info flag                  *)
(*   "INFOERR"    a ProtocolErrorV4 of INFO (info flag set)                *)
(*   "PANIC"      the parse panics (an index or unwrap out of range)       *)
(***************************************************************************)
EXTENDS Naturals, Sequences, SequencesExt

\* Command names and keywords, in lower case.
AUTH == <<"a", "u", "t", "h">>
BYE == <<"b", "y", "e">>
DATA == <<"d", "a", "t", "a">>
END == <<"e", "n", "d">>
ENDFETCH == <<"e", "n", "d", "f", "e", "t", "c", "h">>
HELLO == <<"h", "e", "l", "l", "o">>
INFO == <<"i", "n", "f", "o">>
SELECT == <<"s", "e", "l", "e", "c", "t">>
SLPROTO == <<"s", "l", "p", "r", "o", "t", "o">>
STATION == <<"s", "t", "a", "t", "i", "o", "n">>
USERAGENT == <<"u", "s", "e", "r", "a", "g", "e", "n", "t">>
ID == <<"i", "d">>
FORMATS == <<"f", "o", "r", "m", "a", "t", "s">>
STATIONS == <<"s", "t", "a", "t", "i", "o", "n", "s">>
STREAMS == <<"s", "t", "r", "e", "a", "m", "s">>
CONNECTIONS == <<"c", "o", "n", "n", "e", "c", "t", "i", "o", "n", "s">>
CAPABILITIES == <<"c", "a", "p", "a", "b", "i", "l", "i", "t", "i", "e", "s">>
USERPASS == <<"u", "s", "e", "r", "p", "a", "s", "s">>
TOKEN == <<"t", "o", "k", "e", "n">>

UPPER == <<"A","B","C","D","E","F","G","H","I","J","K","L","M","N","O","P","Q","R","S","T","U","V","W","X","Y","Z">>
LOWER == <<"a","b","c","d","e","f","g","h","i","j","k","l","m","n","o","p","q","r","s","t","u","v","w","x","y","z">>
DIGITS == <<"0","1","2","3","4","5","6","7","8","9">>

\* str::to_lowercase on ASCII text.
Lower(w) ==
    [i \in DOMAIN w |-> IF \E j \in 1..26 : UPPER[j] = w[i]
                        THEN LOWER[CHOOSE j \in 1..26 : UPPER[j] = w[i]]
                        ELSE w[i]]

\* str::split(c): the fields of t between occurrences of c (one field when
\* c does not occur, empty fields kept).
Split(t, c) ==
    FoldLeft(LAMBDA fs, ch : IF ch = c THEN Append(fs, <<>>)
                             ELSE [fs EXCEPT ![Len(fs)] = Append(@, ch)],
             <<<<>>>>, t)

\* A parse outcome: "ok" with the pattern, "err" (IncorrectArguments), or
\* "panic" (unwrap on None).
Outcome(t) == [t |-> t, exclude |-> FALSE, stream |-> <<>>, fs |-> <<>>, filter |-> <<>>]

\* Mutant: the exclusion is not refused when a filter is given.
ParsePatternNoFilterCheck(w) ==
    LET c == Split(w, ":")
        flt == IF Len(c) = 2 THEN c[2] ELSE <<>>
        d == Split(c[1], ".")
        exclude == d[1] # <<>> /\ d[1][1] = "!"
    IN IF Len(c) = 2 /\ c[2] = <<>> THEN Outcome("err")
       ELSE IF Len(d) = 2 /\ d[2] = <<>> THEN Outcome("err")
       ELSE IF d[1] = <<>> THEN Outcome("panic")
       ELSE IF exclude /\ Len(d[1]) < 2 THEN Outcome("err")
       ELSE [t |-> "ok", exclude |-> exclude,
             stream |-> IF exclude THEN Tail(d[1]) ELSE d[1],
             fs |-> IF Len(d) = 2 THEN d[2] ELSE <<>>, filter |-> flt]

\* SelectPattern::from_str of one word: a filter only when there is exactly
\* one ':', a format only when there is exactly one '.', in that order of
\* checks; an empty stream part panics on chars().next().unwrap().
ParsePattern(w) ==
    LET c == Split(w, ":")
        flt == IF Len(c) = 2 THEN c[2] ELSE <<>>
        d == Split(c[1], ".")
        exclude == d[1] # <<>> /\ d[1][1] = "!"
    IN IF Len(c) = 2 /\ c[2] = <<>> THEN Outcome("err")
       ELSE IF Len(d) = 2 /\ d[2] = <<>> THEN Outcome("err")
       ELSE IF d[1] = <<>> THEN Outcome("panic")
       ELSE IF exclude /\ flt # <<>> THEN Outcome("err")
       ELSE IF exclude /\ Len(d[1]) < 2 THEN Outcome("err")
       ELSE [t |-> "ok", exclude |-> exclude,
             stream |-> IF exclude THEN Tail(d[1]) ELSE d[1],
             fs |-> IF Len(d) = 2 THEN d[2] ELSE <<>>, filter |-> flt]

\* Select::from_str: the words between single spaces, parsed in order; the
\* collect stops at the first word that fails, so its outcome is the
\* command's.
ParseSelect(arg) ==
    LET rs == [i \in DOMAIN Split(arg, " ") |-> ParsePattern(Split(arg, " ")[i])]
        bad == {i \in DOMAIN rs : rs[i].t # "ok"}
    IN IF bad = {} THEN [t |-> "ok", pats |-> rs]
       ELSE [t |-> rs[Min(bad)].t, pats |-> <<>>]

\* SelectPattern's Display: [!]stream[.format][:filter].
Display(p) ==
    (IF p.exclude THEN <<"!">> ELSE <<>>) \o p.stream
    \o (IF p.fs # <<>> THEN <<".">> \o p.fs ELSE <<>>)
    \o (IF p.filter # <<>> THEN <<":">> \o p.filter ELSE <<>>)

-----------------------------------------------------------------------------
(* The other commands                                                      *)

\* u8::from_str: an optional '+', then one or more decimal digits, at most
\* 255.
ParseU8(w) ==
    LET ds == IF w # <<>> /\ w[1] = "+" THEN Tail(w) ELSE w
    IN /\ ds # <<>>
       /\ \A i \in DOMAIN ds : \E j \in 1..10 : DIGITS[j] = ds[i]
       /\ FoldLeft(LAMBDA v, ch : v * 10 + (CHOOSE j \in 0..9 : DIGITS[j + 1] = ch),
                   0, ds) <= 255

\* SlProto::from_str: split_once('.'), both sides u8.
ParseSlProto(arg) ==
    LET ps == {i \in DOMAIN arg : arg[i] = "."}
    IN /\ ps # {}
       /\ ParseU8(SubSeq(arg, 1, Min(ps) - 1))
       /\ ParseU8(SubSeq(arg, Min(ps) + 1, Len(arg)))

\* Station::from_str: the trimmed argument must not be empty.
ParseStation(arg) == \E i \in DOMAIN arg : arg[i] \notin {" ", "\t"}

\* UserAgentInfo::from_str: program/version, split at '/' into exactly
\* two parts.
ParseUserAgentInfo(w) == Len(Split(w, "/")) = 2

\* UserAgent::from_str: every space-separated word is a UserAgentInfo.
ParseUserAgent(arg) ==
    \A i \in DOMAIN Split(arg, " ") : ParseUserAgentInfo(Split(arg, " ")[i])

\* AuthMethod::from_str: "userpass" with two credentials or "token" with
\* one, the method name in any case.
ParseAuth(arg) ==
    LET sp == Split(arg, " ")
    IN \/ Lower(sp[1]) = USERPASS /\ Len(sp) - 1 = 2
       \/ Lower(sp[1]) = TOKEN /\ Len(sp) - 1 = 1

\* Info::from_str: the item, in any case; ID, FORMATS and CAPABILITIES take
\* no pattern; a station pattern must not be empty, nor the stream pattern
\* when it has no '.', nor the format after the first '.'.  Words past the
\* third are ignored.
ParseInfo(arg) ==
    LET sp == Split(arg, " ")
        item == Lower(sp[1])
        dot == IF Len(sp) >= 3 THEN Split(sp[3], ".") ELSE <<>>
    IN IF item \notin {ID, FORMATS, STATIONS, STREAMS, CONNECTIONS, CAPABILITIES}
       THEN "INFOERR"
       ELSE IF item \in {ID, FORMATS, CAPABILITIES} /\ Len(sp) > 1 THEN "INFOERR"
       ELSE IF Len(sp) > 1 /\ sp[2] = <<>> THEN "INFOERR"
       ELSE IF Len(dot) = 1 /\ dot[1] = <<>> THEN "INFOERR"
       ELSE IF Len(dot) > 1 /\ dot[2] = <<>> THEN "INFOERR"
       ELSE IF item = ID THEN "INFOID"
       ELSE "INFOOTHER"

-----------------------------------------------------------------------------
(* DATA arguments (src/v4/cmd/data.rs)                                     *)

ALL == <<"a", "l", "l">>
NEXT == <<"n", "e", "x", "t">>

IsDigit(ch) == \E j \in 1..10 : DIGITS[j] = ch
DigitValue(ch) == CHOOSE j \in 0..9 : DIGITS[j + 1] = ch

\* The decimal text of n, as Display writes a u64.
RECURSIVE Decimal(_)
Decimal(n) == IF n < 10 THEN <<DIGITS[n + 1]>> ELSE Decimal(n \div 10) \o <<DIGITS[(n % 10) + 1]>>

\* SequenceNumber::from_str: "all" or "next" in any case, else
\* u64::from_str_radix(.., 10) (an optional '+', one or more digits; the
\* model's numbers stay far below 2^64).
ParseSequenceNumber(w) ==
    LET l == Lower(w)
        ds == IF w # <<>> /\ w[1] = "+" THEN Tail(w) ELSE w
    IN IF l = ALL THEN [t |-> "All", n |-> 0]
       ELSE IF l = NEXT THEN [t |-> "Next", n |-> 0]
       ELSE IF ds # <<>> /\ \A i \in DOMAIN ds : IsDigit(ds[i])
            THEN [t |-> "Number", n |-> FoldLeft(LAMBDA v, ch : v * 10 + DigitValue(ch), 0, ds)]
       ELSE [t |-> "Err", n |-> 0]

\* SequenceNumber's Display.
SequenceNumberText(sn) ==
    CASE sn.t = "All" -> ALL [] sn.t = "Next" -> NEXT [] OTHER -> Decimal(sn.n)

\* OffsetDateTime::parse(.., Iso8601::DEFAULT) on the model's time texts:
\* "T" and a digit (the date and time, abstracted to an instant 0..9), then
\* the offset, "Z" or "+" and a digit of hours.  is_utc holds for "Z" and
\* for a zero offset.  Any other text does not parse.
ParseIso8601(w) ==
    IF /\ Len(w) \in {3, 4} /\ w[1] = "T" /\ IsDigit(w[2])
       /\ \/ Len(w) = 3 /\ w[3] = "Z"
          \/ Len(w) = 4 /\ w[3] = "+" /\ IsDigit(w[4])
    THEN [ok |-> TRUE, at |-> DigitValue(w[2]), utc |-> Len(w) = 3 \/ w[4] = "0"]
    ELSE [ok |-> FALSE, at |-> 0, utc |-> FALSE]

\* format(&Iso8601::DEFAULT) of a UTC instant.
Iso8601Text(at) == <<"T", DIGITS[at + 1], "Z">>

\* Option values: a sequence number of kind "None", a time with some FALSE.
NoSeqNum == [t |-> "None", n |-> 0]
Some(at) == [some |-> TRUE, at |-> at]
None == [some |-> FALSE, at |-> 0]

\* A Data value: seq_num, start_time and end_time.
DataValue(sn, st, en) == [t |-> "ok", seq_num |-> sn, start |-> st, end |-> en]
DataErr == [t |-> "err", seq_num |-> NoSeqNum, start |-> None, end |-> None]

\* Data::from_str: at most three words split at single spaces; the
\* sequence number, then a start and an end time, each in UTC.  split never
\* yields an empty list, so the is_empty branch is dead and an empty
\* argument fails as a sequence number.
DataFromStr(s) ==
    LET sp == Split(s, " ")
        sn == IF sp = <<>> THEN [t |-> "Err", n |-> 0] ELSE ParseSequenceNumber(sp[1])
        st == IF Len(sp) >= 2 THEN ParseIso8601(sp[2]) ELSE ParseIso8601(<<>>)
        en == IF Len(sp) >= 3 THEN ParseIso8601(sp[3]) ELSE ParseIso8601(<<>>)
    IN IF Len(sp) > 3 THEN DataErr
       ELSE IF sp = <<>> THEN DataValue(NoSeqNum, None, None)
       ELSE IF sn.t = "Err" THEN DataErr
       ELSE IF Len(sp) = 1 THEN DataValue(sn, None, None)
       ELSE IF ~st.ok \/ ~st.utc THEN DataErr
       ELSE IF Len(sp) = 2 THEN DataValue(sn, Some(st.at), None)
       ELSE IF ~en.ok \/ ~en.utc THEN DataErr
       ELSE DataValue(sn, Some(st.at), Some(en.at))

\* Data's Display: "data", then the sequence number, the start time and
\* the end time, each only if the one before it is present.
DataDisplay(d) ==
    DATA \o (IF d.seq_num = NoSeqNum THEN <<>>
             ELSE <<" ">> \o SequenceNumberText(d.seq_num)
                  \o (IF ~d.start.some THEN <<>>
                      ELSE <<" ">> \o Iso8601Text(d.start.at)
                           \o (IF ~d.end.some THEN <<>> ELSE <<" ">> \o Iso8601Text(d.end.at))))

\* str::splitn(2, [' ', '\t']): the command name and, after the first space
\* or tab, the rest of the line.
SplitCommand(s) ==
    LET ps == {i \in DOMAIN s : s[i] \in {" ", "\t"}}
    IN IF ps = {} THEN <<s>>
       ELSE <<SubSeq(s, 1, Min(ps) - 1), SubSeq(s, Min(ps) + 1, Len(s))>>

\* check_cmd_length on the parts sp, then the argument's own check ok.
CheckCmdLength(sp, n, ok, kind) == IF Len(sp) = n /\ ok THEN kind ELSE "BADARGS"

\* Command::from_str: dispatch on the lower-cased command name; every
\* command but DATA and INFO checks the number of parts first
\* (check_cmd_length).  DATA tests split.len() == 2 the wrong way round:
\* with an argument it yields Data::default(), without one it indexes
\* split[1].  INFO marks its errors with the info flag.
ParseCommand(s) ==
    LET sp == SplitCommand(s)
        v == Lower(sp[1])
        arg == IF Len(sp) = 2 THEN sp[2] ELSE <<>>
        Check(n, ok, kind) == CheckCmdLength(sp, n, ok, kind)
    IN CASE v = AUTH      -> Check(2, ParseAuth(arg), "AUTH")
         [] v = BYE       -> Check(1, TRUE, "BYE")
         [] v = DATA      -> IF Len(sp) = 2 THEN "DATA" ELSE "PANIC"
         [] v = END       -> Check(1, TRUE, "END")
         [] v = ENDFETCH  -> Check(1, TRUE, "ENDFETCH")
         [] v = HELLO     -> Check(1, TRUE, "HELLO")
         [] v = INFO      -> IF Len(sp) = 2 THEN ParseInfo(arg) ELSE "INFOERR"
         [] v = SELECT    ->
              IF Len(sp) # 2 THEN "BADARGS"
              ELSE CASE ParseSelect(arg).t = "ok"  -> "SELECT"
                     [] ParseSelect(arg).t = "err" -> "BADARGS"
                     [] OTHER                      -> "PANIC"
         [] v = SLPROTO   -> Check(2, ParseSlProto(arg), "SLPROTO")
         [] v = STATION   -> Check(2, ParseStation(arg), "STATION")
         [] v = USERAGENT -> Check(2, ParseUserAgent(arg), "USERAGENT")
         [] OTHER         -> "FOO"
====
