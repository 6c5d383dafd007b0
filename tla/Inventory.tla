----------------------------- MODULE Inventory ------------------------------
(***************************************************************************)
(* The client library's Inventory (src/src/inventory.rs): a list of        *)
(* stations with a HashMap from station id to list index.  Station's       *)
(* PartialEq and Hash look at the id only, so a station is a record whose  *)
(* id the index keys on and whose other fields (v) stand for the rest of  *)
(* the station (description, sequence range, streams).                     *)
(*                                                                         *)
(* An inventory is a record [stations, idx]; idx is a function from ids to *)
(* indices (1-based here, 0-based in the code).                            *)
(***************************************************************************)
EXTENDS Naturals, Sequences, SequencesExt, FiniteSets

\* Inventory::default.
Empty == [stations |-> <<>>, idx |-> <<>>]

\* Inventory::len.
Size(inv) == Len(inv.stations)

\* Inventory::get: the station at the indexed position, as a set ({} for
\* None).
Get(inv, id) == IF id \in DOMAIN inv.idx THEN {inv.stations[inv.idx[id]]} ELSE {}

\* Inventory::insert: a known id has its indexed entry replaced (the old
\* station is returned); a new id is appended and indexed.
Insert(inv, st) ==
    IF st.id \in DOMAIN inv.idx
    THEN [inv |-> [inv EXCEPT !.stations[inv.idx[st.id]] = st],
          prev |-> {inv.stations[inv.idx[st.id]]}]
    ELSE [inv |-> [stations |-> Append(inv.stations, st),
                   idx |-> (st.id :> Len(inv.stations) + 1) @@ inv.idx],
          prev |-> {}]

\* From<&Vec<StationV3>>, From<&Vec<StationV4>> and From<InventoryV3>: the
\* list as given, and the index collected from (id, position) pairs in
\* order, so of two stations with one id the later position wins.
FromList(l) ==
    [stations |-> l,
     idx |-> [id \in {l[i].id : i \in DOMAIN l} |->
                Max({i \in DOMAIN l : l[i].id = id})]]
====
