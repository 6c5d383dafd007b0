---------------------------- MODULE ServerSelect ----------------------------
(***************************************************************************)
(* One STATION negotiation of the v4 server: the Select that the          *)
(* dispatcher builds from the backend's stations (Select::new), the        *)
(* SELECT patterns the StationNegotiator applies to it (Select::apply) and *)
(* the DATA command that ends it (set_seq_num, set_time), with DATA's      *)
(* arguments as CommandV4::parse delivers them.  SELECT arguments are      *)
(* texts, parsed as Select::from_str and SelectPattern::from_str do        *)
(* (module CommandV4).                                                    *)
(*                                                                         *)
(* Stream identifiers are records of codes, displayed as apply displays    *)
(* them; the displayed texts, patterns and format strings are short        *)
(* sequences of characters, so that create_regex and Regex::is_match are   *)
(* modelled by what they do.                                               *)
(***************************************************************************)
EXTENDS Naturals, Sequences, SequencesExt, FiniteSets, CommandV4

CONSTANTS
    Stations,     \* the stations of the Select (model values)
    Streams,      \* the streams of all stations (model values)
    StationOf,    \* Streams -> Stations
    IdOf,         \* Streams -> StreamId: [loc, band, source, subsource]
    FormatOf,     \* Streams -> Format: "MiniSeed2" or "MiniSeed3"
    SubFormatOf,  \* Streams -> SubFormat: "Data", "Event", ...
    StartSeq,     \* Stations -> Nat: Station::start_seq
    SelectArgs,   \* SELECT argument texts a client may send (Seq(Char))
    DataArgs,     \* arguments a client may give to DATA
    MaxSelects    \* SELECT commands per negotiation

ASSUME /\ StationOf \in [Streams -> Stations]
       /\ StartSeq \in [Stations -> Nat]
       /\ MaxSelects \in Nat

NoTime == "none"
\* SequenceNumberV4: All, Next or Number(n).
SeqNum == [t : {"All", "Next"}, n : {0}] \cup [t : {"Number"}, n : Nat]
Num(n) == [t |-> "Number", n |-> n]
SeqNext == [t |-> "Next", n |-> 0]
\* Option<SequenceNumberV4>::None.
NoSeq == [t |-> "None", n |-> 0]

VARIABLES
    state,     \* StationNegotiator.state: "Station", "Select", "Finished"
    selected,  \* StreamSelect.selected
    excluded,  \* StreamSelect.excluded
    filter,    \* StreamSelect.filter: <<>> (None) or a filter text
    window,    \* StreamSelect (start_time, end_time)
    seq,       \* StationSelect.seq_num
    nsel,      \* SELECT commands applied so far
    applied    \* history: the SELECT patterns applied so far

vars == <<state, selected, excluded, filter, window, seq, nsel, applied>>

-----------------------------------------------------------------------------
(* The texts Select::apply matches (src/inventory.rs)                     *)

SID_DELIMITER == "_"

\* StreamId's Display: the four codes joined by SID_DELIMITER, so an empty
\* location code leaves a leading "_".
StreamIdDisplay(id) ==
    id.loc \o <<SID_DELIMITER>> \o id.band \o <<SID_DELIMITER>> \o id.source
    \o <<SID_DELIMITER>> \o id.subsource

\* The v4 inventory's StreamId::deserialize, by which a backend's stream ids
\* reach the server: exactly four fields; a location of at most 8 characters
\* other than "--"; a band and a subsource of at most one character; a
\* source of exactly one.  Each refusal is "invalid".
ParseStreamId(t) ==
    LET sp == Split(t, SID_DELIMITER) IN
    IF Len(sp) # 4 THEN "invalid"
    ELSE IF Len(sp[1]) > 8 \/ sp[1] = <<"-", "-">> THEN "invalid"
    ELSE IF Len(sp[2]) > 1 \/ Len(sp[3]) # 1 \/ Len(sp[4]) > 1 THEN "invalid"
    ELSE [loc |-> sp[1], band |-> sp[2], source |-> sp[3], subsource |-> sp[4]]

\* Format's and SubFormat's Display: one character each.
FormatCode == ("MiniSeed2" :> "2") @@ ("MiniSeed3" :> "3")
SubFormatCode ==
    ("Data" :> "D") @@ ("Event" :> "E") @@ ("Calibration" :> "C") @@ ("Opaque" :> "O")
    @@ ("Timing" :> "T") @@ ("Log" :> "L")

\* The texts apply matches for stream s: stream_select.id.to_string() and
\* format!("{}{}", format, subformat).
StreamText(s) == StreamIdDisplay(IdOf[s])
FormatSubformat(s) == <<FormatCode[FormatOf[s]], SubFormatCode[SubFormatOf[s]]>>

-----------------------------------------------------------------------------
(* create_regex and Regex::is_match                                        *)

\* Mutant: '*' is copied into the regex unchanged.
RECURSIVE CreateRegexStarAsIs(_)
CreateRegexStarAsIs(p) ==
    IF p = <<>> THEN <<>>
    ELSE (IF Head(p) = "?" THEN <<".">> ELSE <<Head(p)>>) \o CreateRegexStarAsIs(Tail(p))

\* create_regex: '*' becomes ".*" and '?' becomes ".".
RECURSIVE CreateRegex(_)
CreateRegex(p) ==
    IF p = <<>> THEN <<>>
    ELSE (CASE Head(p) = "*" -> <<".", "*">>
            [] Head(p) = "?" -> <<".">>
            [] OTHER         -> <<Head(p)>>) \o CreateRegex(Tail(p))

\* The regex atom a matches character ch.
AtomMatches(a, ch) == a = "." \/ a = ch

\* The regex re matches a prefix of s ("." and "x*" and literals).
RECURSIVE MatchHere(_, _), MatchStar(_, _, _)
MatchHere(re, s) ==
    IF re = <<>> THEN TRUE
    ELSE IF Len(re) >= 2 /\ re[2] = "*"
         THEN MatchStar(re[1], SubSeq(re, 3, Len(re)), s)
         ELSE /\ s # <<>>
              /\ AtomMatches(re[1], s[1])
              /\ MatchHere(Tail(re), Tail(s))
MatchStar(a, re, s) ==
    \/ MatchHere(re, s)
    \/ /\ s # <<>>
       /\ AtomMatches(a, s[1])
       /\ MatchStar(a, re, Tail(s))

\* Regex::is_match: the regex matches somewhere in s (it is not anchored).
IsMatch(re, s) == \E i \in 1..(Len(s) + 1) : MatchHere(re, SubSeq(s, i, Len(s)))

-----------------------------------------------------------------------------
(* Select                                                                  *)

\* StreamSelect::is_selected.
IsSelected(s) == selected[s] /\ ~excluded[s]

\* StationSelect::has_selected looks at `selected` only.
StationHasSelected(st) == \E s \in Streams : StationOf[s] = st /\ selected[s]

\* Select::has_selected.
HasSelected == \E st \in Stations : StationHasSelected(st)

\* The pattern p of Select::apply matches stream s.  A format pattern of
\* <<>> stands for None (the parser rejects an empty one).
PatternMatches(p, s) ==
    /\ IsMatch(CreateRegex(p.stream), StreamText(s))
    /\ p.fs # <<>> => IsMatch(CreateRegex(p.fs), FormatSubformat(s))

\* Select::apply for one SelectPattern on the Select's streams sel: exclude
\* the matching streams, or select them and give them the pattern's filter
\* unless they have one.
Apply(sel, p) ==
    [excluded |-> [s \in Streams |-> sel.excluded[s] \/ (p.exclude /\ PatternMatches(p, s))],
     selected |-> [s \in Streams |-> sel.selected[s] \/ (~p.exclude /\ PatternMatches(p, s))],
     filter   |-> [s \in Streams |->
                     IF ~p.exclude /\ PatternMatches(p, s) /\ sel.filter[s] = <<>>
                     THEN p.filter ELSE sel.filter[s]]]

\* Select::set_seq_num: for each station with a selected stream, All and
\* Next overwrite; a Number replaces only a smaller Number.
SetSeqNum(sn) ==
    seq' = [st \in Stations |->
              IF ~StationHasSelected(st) THEN seq[st]
              ELSE CASE sn.t \in {"All", "Next"} -> sn
                     [] seq[st].t = "Number" /\ sn.n > seq[st].n -> sn
                     [] OTHER -> seq[st]]

\* Select::set_time: the window of every effectively selected stream.
SetTime(start, end) ==
    window' = [s \in Streams |->
                 IF IsSelected(s) THEN [start |-> start, end |-> end] ELSE window[s]]

\* CommandV4::parse of "DATA <args>": split.len() == 2 yields
\* Data::default(), whatever the arguments say.
ParseData(args) == [seq_num |-> NoSeq, start |-> NoTime, end |-> NoTime]

\* The patterns of the SELECT arguments that parse.
Parsed == UNION {Range(ParseSelect(a).pats) : a \in SelectArgs}

-----------------------------------------------------------------------------
(* Negotiation                                                             *)

\* Dispatcher STATION: Select::new(stations); StreamSelect::from sets
\* selected, StationSelect::from takes the station's start_seq.
Init ==
    /\ state = "Station"
    /\ selected = [s \in Streams |-> TRUE]
    /\ excluded = [s \in Streams |-> FALSE]
    /\ filter = [s \in Streams |-> <<>>]
    /\ window = [s \in Streams |-> [start |-> NoTime, end |-> NoTime]]
    /\ seq = [st \in Stations |-> Num(StartSeq[st])]
    /\ nsel = 0
    /\ applied = {}

\* StationNegotiator::next(SELECT) for an argument that parses (the others
\* are answered by the reader without reaching the negotiator): State::next,
\* then apply the patterns in order.
SelectCmd(arg) ==
    LET r == ParseSelect(arg)
        sel == FoldLeft(Apply, [selected |-> selected, excluded |-> excluded,
                                filter |-> filter], r.pats)
    IN /\ state \in {"Station", "Select"}
       /\ nsel < MaxSelects
       /\ r.t = "ok"
       /\ state' = "Select"
       /\ selected' = sel.selected /\ excluded' = sel.excluded /\ filter' = sel.filter
       /\ nsel' = nsel + 1
       /\ applied' = applied \cup Range(r.pats)
       /\ UNCHANGED <<window, seq>>

\* Mutant: the omitted sequence number is not defaulted to Next.
DataCmdRaw(args) ==
    /\ state \in {"Station", "Select"}
    /\ state' = "Finished"
    /\ LET d == ParseData(args) IN
       /\ seq' = [st \in Stations |->
                    IF StationHasSelected(st) THEN d.seq_num ELSE seq[st]]
       /\ IF d.start # NoTime THEN SetTime(d.start, d.end) ELSE UNCHANGED window
    /\ UNCHANGED <<selected, excluded, filter, nsel, applied>>

\* StationNegotiator::next(DATA) on the parsed command: set the sequence
\* number (Next when omitted) and, with a start time, the time window.
DataCmd(args) ==
    /\ state \in {"Station", "Select"}
    /\ state' = "Finished"
    /\ LET d == ParseData(args) IN
       /\ SetSeqNum(IF d.seq_num = NoSeq THEN SeqNext ELSE d.seq_num)
       /\ IF d.start # NoTime THEN SetTime(d.start, d.end) ELSE UNCHANGED window
    /\ UNCHANGED <<selected, excluded, filter, nsel, applied>>

Next ==
    \/ \E a \in SelectArgs : SelectCmd(a)
    \/ \E a \in DataArgs : DataCmd(a)

Spec == Init /\ [][Next]_vars

-----------------------------------------------------------------------------
(* Properties                                                              *)

TypeOK ==
    /\ state \in {"Station", "Select", "Finished"}
    /\ selected \in [Streams -> BOOLEAN]
    /\ excluded \in [Streams -> BOOLEAN]
    /\ filter \in [Streams -> {<<>>} \cup {p.filter : p \in Parsed}]
    /\ seq \in [Stations -> SeqNum]
    /\ nsel \in 0..MaxSelects
    /\ applied \subseteq Parsed
    /\ window \in [Streams -> [start : {NoTime} \cup {a.start : a \in DataArgs},
                                end : {NoTime} \cup {a.end : a \in DataArgs}]]

\* Reference glob semantics: '*' matches any run of characters and '?' any
\* one character, and the whole of t must be matched.
RECURSIVE Glob(_, _)
Glob(p, t) ==
    IF p = <<>> THEN t = <<>>
    ELSE CASE Head(p) = "*" -> \E k \in 0..Len(t) : Glob(Tail(p), SubSeq(t, k + 1, Len(t)))
           [] Head(p) = "?" -> t # <<>> /\ Glob(Tail(p), Tail(t))
           [] OTHER         -> t # <<>> /\ Head(t) = Head(p) /\ Glob(Tail(p), Tail(t))

\* The glob pattern p occurs somewhere in t.
GlobSearch(p, t) ==
    \E i \in 1..(Len(t) + 1) : \E j \in (i - 1)..Len(t) : Glob(p, SubSeq(t, i, j))
GlobMatches(p, s) ==
    /\ GlobSearch(p.stream, StreamText(s))
    /\ p.fs # <<>> => GlobSearch(p.fs, FormatSubformat(s))

\* SELECT patterns act as globs found anywhere in the stream id and format
\* (create_regex with the unanchored Regex::is_match): after any sequence
\* of SELECTs a stream is excluded iff some applied !pattern glob-matches
\* it, and a stream's filter is that of an applied pattern that
\* glob-matches it.
SelectionFollowsGlob ==
    \A s \in Streams :
        /\ excluded[s] <=> \E p \in applied : p.exclude /\ GlobMatches(p, s)
        /\ filter[s] # <<>> =>
              \E p \in applied : ~p.exclude /\ p.filter = filter[s] /\ GlobMatches(p, s)

\* No character of t is one of seps.
NoSep(t, seps) == \A i \in DOMAIN t : t[i] \notin seps

\* A pattern the grammar of SELECT (spec, section 4) can state:
\* [!]pattern[.format][:filter] with non-empty parts free of separators,
\* and '!' never together with a filter.
WellFormed(p) ==
    /\ p.stream # <<>> /\ NoSep(p.stream, {".", ":", " "})
    /\ NoSep(p.fs, {".", ":", " "})
    /\ NoSep(p.filter, {":", " "})
    /\ ~(p.exclude /\ p.filter # <<>>)
    /\ ~p.exclude => p.stream[1] # "!"

\* Every pattern SelectPattern::from_str hands to Select::apply is one the
\* SELECT grammar can state, in particular never an exclusion carrying a
\* filter, and it is what its own text denotes: Display then from_str
\* gives it back.
AppliedPatternsWellFormed ==
    \A p \in applied :
        /\ WellFormed(p)
        /\ ParseSelect(Display(p)) = [t |-> "ok", pats |-> <<p>>]
====
