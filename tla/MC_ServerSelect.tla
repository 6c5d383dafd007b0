-------------------------- MODULE MC_ServerSelect --------------------------
(* A station A with streams _B_H_Z and _B_H_N (miniSEED 2, data) and a    *)
(* station B with stream 0_L_H_Z (miniSEED 3, event).                      *)
EXTENDS ServerSelect, TLC

CONSTANTS A, B, s1, s2, s3

MCStationOf == [s \in {s1, s2, s3} |-> IF s = s3 THEN B ELSE A]
Sid(loc, b, s, ss) == [loc |-> loc, band |-> <<b>>, source |-> <<s>>, subsource |-> <<ss>>]
MCIdOf == (s1 :> Sid(<<>>, "B", "H", "Z")) @@ (s2 :> Sid(<<>>, "B", "H", "N"))
          @@ (s3 :> Sid(<<"0">>, "L", "H", "Z"))
MCFormatOf == (s1 :> "MiniSeed2") @@ (s2 :> "MiniSeed2") @@ (s3 :> "MiniSeed3")
MCSubFormatOf == (s1 :> "Data") @@ (s2 :> "Data") @@ (s3 :> "Event")
MCStartSeq == (A :> 3) @@ (B :> 0)

\* The stream ids are ones a backend's v4 inventory can hold: each reads
\* back from its text; a "--" location and an empty source are refused.
ASSUME /\ \A s \in DOMAIN MCIdOf : ParseStreamId(StreamIdDisplay(MCIdOf[s])) = MCIdOf[s]
       /\ ParseStreamId(<<"-", "-", "_", "B", "_", "H", "_", "Z">>) = "invalid"
       /\ ParseStreamId(<<"_", "B", "_", "_", "Z">>) = "invalid"
       /\ ParseStreamId(<<"B", "_", "H", "_", "Z">>) = "invalid"

\* SELECT arguments: B_H_?   *Z.2?:f   !B_H_Z   Z:g   !*N   BH? (the v3 form,
\* which matches nothing)   B_H_? !B_H_Z (two patterns)   *Z.2D.x (format dropped)   !*N:f:g (filter
\* dropped)   !*N:f (refused)   Z: (refused)   .2D and "Z " (panic)
MCSelectArgs ==
    { <<"B", "_", "H", "_", "?">>,
      <<"*", "Z", ".", "2", "?", ":", "f">>,
      <<"!", "B", "_", "H", "_", "Z">>,
      <<"Z", ":", "g">>,
      <<"!", "*", "N">>,
      <<"B", "H", "?">>,
      <<"B", "_", "H", "_", "?", " ", "!", "B", "_", "H", "_", "Z">>,
      <<"*", "Z", ".", "2", "D", ".", "x">>,
      <<"!", "*", "N", ":", "f", ":", "g">>,
      <<"!", "*", "N", ":", "f">>,
      <<"Z", ":">>,
      <<".", "2", "D">>,
      <<"Z", " ">> }

\* Data::from_str reads back what Data's Display writes after "data ", for
\* every sequence number kind and every number of times; it refuses an
\* empty argument, a fourth word and a time with a non-zero offset, and
\* takes "+7", "NEXT" and a "+0" offset.
DataSeqNums == {[t |-> "All", n |-> 0], [t |-> "Next", n |-> 0], [t |-> "Number", n |-> 0],
                [t |-> "Number", n |-> 7], [t |-> "Number", n |-> 1234]}
ASSUME /\ \A sn \in DataSeqNums, st \in {None, Some(3)}, en \in {None, Some(0), Some(9)} :
            (en.some => st.some) =>
               DataFromStr(SplitCommand(DataDisplay(DataValue(sn, st, en)))[2])
                  = DataValue(sn, st, en)
       /\ DataFromStr(<<>>) = DataErr
       /\ DataFromStr(<<"7", " ", "T", "1", "Z", " ", "T", "2", "Z", " ", "x">>) = DataErr
       /\ DataFromStr(<<"7", " ", "T", "1", "+", "1">>) = DataErr
       /\ DataFromStr(<<"7", " ", "T", "1", "+", "0">>) = DataValue([t |-> "Number", n |-> 7], Some(1), None)
       /\ DataFromStr(<<"+", "7">>) = DataValue([t |-> "Number", n |-> 7], None, None)
       /\ DataFromStr(<<"N", "E", "X", "T">>) = DataValue([t |-> "Next", n |-> 0], None, None)

\* The client library's Inventory (stations with an id index).
Inv == INSTANCE Inventory
InvStations == {[id |-> "A", v |-> 1], [id |-> "A", v |-> 2], [id |-> "B", v |-> 1]}
InvIds == {"A", "B"}
InsertAll(inv, l) == FoldLeft(LAMBDA i, st : Inv!Insert(i, st).inv, inv, l)
LastOf(l) == FoldLeft(LAMBDA f, st : (st.id :> st) @@ f, <<>>, l)

\* Inventory behaves as a map from id to the last station inserted under
\* it, starting from default() or from a list with distinct ids: get gives
\* that station, len counts the ids, and insert returns the station it
\* replaced.
ASSUME \A pre \in {<<>>, <<[id |-> "B", v |-> 2]>>},
          l \in UNION {[1..k -> InvStations] : k \in 0..3} :
          LET inv == InsertAll(Inv!FromList(pre), l)
              ref == LastOf(pre \o l)
          IN /\ \A id \in InvIds :
                  Inv!Get(inv, id) = IF id \in DOMAIN ref THEN {ref[id]} ELSE {}
             /\ Inv!Size(inv) = Cardinality(DOMAIN ref)
             /\ \A st \in InvStations :
                  Inv!Insert(inv, st).prev = IF st.id \in DOMAIN ref THEN {ref[st.id]} ELSE {}

\* A list that names one station twice (a server's INFO response may)
\* breaks that: the index keeps the later entry, insert replaces only it,
\* and the earlier one stays in the list that Deref iterates.
ASSUME LET inv == Inv!FromList(<<[id |-> "A", v |-> 1], [id |-> "A", v |-> 2]>>)
           after == Inv!Insert(inv, [id |-> "A", v |-> 3]).inv
       IN /\ Inv!Get(inv, "A") = {[id |-> "A", v |-> 2]}
          /\ Inv!Size(after) = 2
          /\ after.stations[1] = [id |-> "A", v |-> 1]

\* DATA ALL t1   DATA NEXT   DATA 7
MCDataArgs ==
    { [seq_num |-> [t |-> "All", n |-> 0], start |-> "t1", end |-> "none"],
      [seq_num |-> [t |-> "Next", n |-> 0], start |-> "none", end |-> "none"],
      [seq_num |-> [t |-> "Number", n |-> 7], start |-> "none", end |-> "none"] }
====
